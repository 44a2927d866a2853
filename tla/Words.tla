------------------------------- MODULE Words -------------------------------
(***************************************************************************)
(* Bytes and unsigned words as the SETS of the positions of their one      *)
(* bits: 0x05 is {0, 2}.  The bit operators of C are set operators, a      *)
(* 32-bit word does not overflow the integers of TLC, and a message is a   *)
(* sequence of bytes.  All messages of the stack are little endian.        *)
(***************************************************************************)
EXTENDS Integers, Sequences, FiniteSetsExt

Byte == SUBSET (0 .. 7)
U32  == SUBSET (0 .. 31)

(* The word of a number, and the number of a word, of at most 16 bits.     *)
Bits(n)    == {i \in 0 .. 15 : (n \div 2^i) % 2 = 1}
Number(w)  == MapThenSumSet(LAMBDA i : 2^i, w)

(* The 32-bit word of its two halves: Word(\h5A82, \h7999) is 0x5A827999.  *)
Word(high, low) == Bits(low) \cup {i + 16 : i \in Bits(high)}

Xor(a, b)          == (a \ b) \cup (b \ a)
ShiftLeft(a, n, width) == {i + n : i \in a} \cap (0 .. width - 1)
ShiftRight(a, n)   == {i - n : i \in {j \in a : j >= n}}
RotateLeft(a, n)   == {(i + n) % 32 : i \in a}
ReflectBits(a, width) == {width - 1 - i : i \in a \cap (0 .. width - 1)}

(* a + b modulo 2^32: the carries are added until there are none.          *)
Add[a \in U32, b \in U32] ==
  IF b = {} THEN a ELSE Add[Xor(a, b), ShiftLeft(a \cap b, 1, 32)]

(* The first n bytes of a word, and the word of some bytes.                *)
ToBytes(w, n)    == [k \in 1 .. n |-> {i \in 0 .. 7 : 8 * (k - 1) + i \in w}]
FromBytes(bytes) == UNION {{8 * (k - 1) + i : i \in bytes[k]} : k \in DOMAIN bytes}

Zeros(n) == [k \in 1 .. n |-> {}]

(* m with the bytes from offset on (offsets start at 0) replaced, and the  *)
(* n bytes of m at offset.                                                 *)
Overwrite(m, offset, bytes) ==
  [k \in DOMAIN m |-> IF k - offset \in DOMAIN bytes THEN bytes[k - offset] ELSE m[k]]
BytesAt(m, offset, n) == SubSeq(m, offset + 1, offset + n)

(* The word op(... op(op(first, bytes[1]), bytes[2]) ...).  The halves are *)
(* folded one after the other so that TLC's recursion stays shallow.       *)
FoldBytes(op(_, _), first, bytes) ==
  LET fold[w \in U32, i \in 1 .. Len(bytes) + 1, j \in 0 .. Len(bytes)] ==
        CASE j < i -> w
          [] j = i -> op(w, bytes[i])
          [] j > i -> LET mid == (i + j) \div 2 IN fold[fold[w, i, mid], mid + 1, j]
  IN  fold[first, 1, Len(bytes)]
=============================================================================

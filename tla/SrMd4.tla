------------------------------- MODULE SrMd4 -------------------------------
(***************************************************************************)
(* The safety code of the safety and retransmission layer (srmd4): the MD4 *)
(* hash of a message, from a configured initial value.                     *)
(***************************************************************************)
EXTENDS Words

BlockSize == 64  \* MD4_INPUT_DATA_BLOCK_SIZE

FunctionF(x, y, z) == Xor(z, x \cap Xor(y, z))
FunctionG(x, y, z) == (x \cap (y \cup z)) \cup (y \cap z)
FunctionH(x, y, z) == Xor(x, Xor(y, z))

(* The 48 steps of Md4Body: the index of the word each uses, how far its   *)
(* sum is rotated, and the function and the constant of the three rounds.  *)
WordOrder == << << 0, 1, 2, 3, 4, 5, 6, 7, 8, 9, 10, 11, 12, 13, 14, 15 >>,
                << 0, 4, 8, 12, 1, 5, 9, 13, 2, 6, 10, 14, 3, 7, 11, 15 >>,
                << 0, 8, 4, 12, 2, 10, 6, 14, 1, 9, 5, 13, 3, 11, 7, 15 >> >>
Rotation  == << << 3, 7, 11, 19 >>, << 3, 5, 9, 13 >>, << 3, 9, 11, 15 >> >>
RoundSum(r, x) == IF r = 1 THEN x
                  ELSE Add[x, IF r = 2 THEN Word(\h5A82, \h7999) ELSE Word(\h6ED9, \hEBA1)]
RoundFunction(r, x, y, z) == CASE r = 1 -> FunctionF(x, y, z)
                               [] r = 2 -> FunctionG(x, y, z)
                               [] r = 3 -> FunctionH(x, y, z)

(* Step number i (from 0) on h = <<a, b, c, d>>.  The code updates a, d, c *)
(* and b in turn; here the four are rotated after each step instead.       *)
Step(h, i, block) ==
  LET r   == (i \div 16) + 1
      x   == FromBytes(BytesAt(block, 4 * WordOrder[r][(i % 16) + 1], 4))
      sum == Add[h[1], Add[RoundFunction(r, h[2], h[3], h[4]), RoundSum(r, x)]]
  IN  << h[4], RotateLeft(sum, Rotation[r][(i % 4) + 1]), h[2], h[3] >>

(* Md4Body on one block.                                                   *)
Md4Body(h, block) ==
  LET steps[i \in 0 .. 48] == IF i = 0 THEN h ELSE Step(steps[i - 1], i - 1, block)
      last == steps[48]
  IN  [k \in 1 .. 4 |-> Add[last[k], h[k]]]

(* Md4Update: the hash after the whole blocks of the data; the bytes after *)
(* them stay in the context's buffer.                                      *)
Md4Update(initial, data) ==
  LET h[k \in 0 .. Len(data) \div BlockSize] ==
        IF k = 0 THEN initial
        ELSE Md4Body(h[k - 1], BytesAt(data, BlockSize * (k - 1), BlockSize))
  IN  h[Len(data) \div BlockSize]
Buffered(data) == BytesAt(data, BlockSize * (Len(data) \div BlockSize), Len(data) % BlockSize)

(* SetContextBuffer asserts that the first byte it sets is inside of the   *)
(* buffer.  Md4Final calls it for the bytes after the first padding byte.  *)
SetContextBufferAsserts(size) == (size % BlockSize) + 1 <= BlockSize - 1

BitCount(data) == ToBytes(Bits(Len(data) * 8), 8)

(* A plausible slip: 8 free bytes are taken for too few.                   *)
Md4FinalOffByOne(h, data) ==
  LET buffer == Append(Buffered(data), {7})
      unused == BlockSize - Len(buffer)
      hash   == IF unused <= 8
                THEN Md4Body(Md4Body(h, buffer \o Zeros(unused)), Zeros(BlockSize - 8) \o BitCount(data))
                ELSE Md4Body(h, buffer \o Zeros(unused - 8) \o BitCount(data))
  IN  ToBytes(hash[1], 4) \o ToBytes(hash[2], 4) \o ToBytes(hash[3], 4) \o ToBytes(hash[4], 4)

(* Md4Final: the buffer is padded, in a block of its own when the bit      *)
(* count finds no room behind the padding byte.                            *)
Md4Final(h, data) ==
  LET buffer == Append(Buffered(data), {7})
      unused == BlockSize - Len(buffer)
      hash   == IF unused < 8
                THEN Md4Body(Md4Body(h, buffer \o Zeros(unused)), Zeros(BlockSize - 8) \o BitCount(data))
                ELSE Md4Body(h, buffer \o Zeros(unused - 8) \o BitCount(data))
  IN  ToBytes(hash[1], 4) \o ToBytes(hash[2], 4) \o ToBytes(hash[3], 4) \o ToBytes(hash[4], 4)

(* srmd4_CalculateMd4.                                                     *)
CalculateMd4(initial, data) == Md4Final(Md4Update(initial, data), data)
=============================================================================

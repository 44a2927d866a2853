---------------------------- MODULE Md4Reference ----------------------------
(***************************************************************************)
(* MD4 as RFC 1320 defines it, for comparison with SrMd4: the whole of the *)
(* data is padded first, a round takes the words by a rule and not from a  *)
(* table, and the functions of the rounds are "if", "majority" and         *)
(* "parity".                                                               *)
(***************************************************************************)
EXTENDS Words

Padded(data) ==
  data \o << {7} >> \o Zeros((55 - Len(data)) % 64) \o ToBytes(Bits(8 * Len(data)), 8)

Chosen(round, i) == CASE round = 1 -> i
                      [] round = 2 -> 4 * (i % 4) + (i \div 4)
                      [] round = 3 -> Number(ReflectBits(Bits(i), 4))
Rotated == << << 3, 7, 11, 19 >>, << 3, 5, 9, 13 >>, << 3, 9, 11, 15 >> >>
Added   == << {}, Word(\h5A82, \h7999), Word(\h6ED9, \hEBA1) >>
Mixed(round, x, y, z) ==
  LET ones(i) == (IF i \in x THEN 1 ELSE 0) + (IF i \in y THEN 1 ELSE 0) + (IF i \in z THEN 1 ELSE 0)
  IN  CASE round = 1 -> {i \in 0 .. 31 : IF i \in x THEN i \in y ELSE i \in z}
        [] round = 2 -> {i \in 0 .. 31 : ones(i) >= 2}
        [] round = 3 -> {i \in 0 .. 31 : ones(i) % 2 = 1}

(* In each of the 16 operations of a round one of A, D, C and B in turn is *)
(* replaced; with << A, B, C, D >> as a function of 0 .. 3, that of        *)
(* operation i is the one at (-i) % 4, and the others follow it.           *)
Operation(abcd, round, i, block) ==
  LET at(k) == abcd[(k - i) % 4]
      word  == FromBytes(BytesAt(block, 4 * Chosen(round, i), 4))
      sum   == Add[Add[Add[at(0), Mixed(round, at(1), at(2), at(3))], word], Added[round]]
  IN  [abcd EXCEPT ![(0 - i) % 4] = RotateLeft(sum, Rotated[round][(i % 4) + 1])]
Hashed(abcd, block) ==
  LET op[n \in 0 .. 48] == IF n = 0 THEN abcd
                           ELSE Operation(op[n - 1], ((n - 1) \div 16) + 1, (n - 1) % 16, block)
      last == op[48]
  IN  [k \in 0 .. 3 |-> Add[abcd[k], last[k]]]
Md4(initial, data) ==
  LET blocks == Len(Padded(data)) \div 64
      hash[n \in 0 .. blocks] ==
        IF n = 0 THEN [k \in 0 .. 3 |-> initial[k + 1]]
        ELSE Hashed(hash[n - 1], BytesAt(Padded(data), 64 * (n - 1), 64))
  IN  ToBytes(hash[blocks][0], 4) \o ToBytes(hash[blocks][1], 4)
        \o ToBytes(hash[blocks][2], 4) \o ToBytes(hash[blocks][3], 4)
=============================================================================

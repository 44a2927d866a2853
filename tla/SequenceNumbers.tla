-------------------------- MODULE SequenceNumbers --------------------------
(***************************************************************************)
(* The unsigned sequence number arithmetic both layers of the stack use.   *)
(* The C code works on uint32_t; here the width is the constant Half, so   *)
(* that SeqMod = 2 * Half plays 2^32 and wrap-around is reached on small   *)
(* instances.  UINT32_MAX / 2U is then Half - 1.                           *)
(***************************************************************************)
EXTENDS Integers

CONSTANT Half  \* half of the number of sequence numbers (2^31 in the code)

ASSUME HalfAssumption == Half \in Nat /\ Half >= 2

SeqMod == 2 * Half
SeqNums == 0 .. SeqMod - 1

(* a + b and a - b of two unsigned numbers.                                *)
Plus(a, b)  == IF a + b >= SeqMod THEN a + b - SeqMod ELSE a + b
Minus(a, b) == IF a >= b THEN a - b ELSE a - b + SeqMod

(* reddfq_IsSequenceNumberOlder: compared was sent before reference.       *)
IsSequenceNumberOlder(compared, reference) ==
  Minus(reference, Plus(compared, 1)) < Half - 1
=============================================================================

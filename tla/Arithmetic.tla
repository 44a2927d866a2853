----------------------------- MODULE Arithmetic -----------------------------
(***************************************************************************)
(* Facts about natural numbers the other proofs share: least elements, and *)
(* with them induction; functions that are defined step by step; and       *)
(* remainders.                                                             *)
(***************************************************************************)
EXTENDS Integers, WellFoundedInduction, TLAPS

(* A nonempty set of natural numbers has a least element.                  *)
LEMMA LeastNatural ==
  ASSUME NEW S \in SUBSET Nat, S # {}
  PROVE  \E m \in S : \A n \in S : m <= n
<1> DEFINE R == {ss \in Nat \X Nat : ss[1] < ss[2]}
<1>1. IsWellFoundedOn(R, Nat)
  <2>1. OpToRel(<, Nat) = R
    BY Zenon DEF OpToRel
  <2> QED
    BY <2>1, NatLessThanWellFounded
<1> HIDE DEF R
<1>2. PICK m \in S : \A n \in S : ~ (<<n, m>> \in R)
  BY <1>1, WFMin
<1>3. ASSUME NEW n \in S
      PROVE  m <= n
  <2>1. m \in Nat /\ n \in Nat
    OBVIOUS
  <2>2. n < m => <<n, m>> \in R
    BY <2>1 DEF R
  <2> QED
    BY <1>2, <2>1, <2>2
<1> QED
  BY <1>3

(* A loop that takes the first of several indices takes the only one.      *)
LEMMA LeastOfOne ==
  ASSUME NEW i \in Nat
  PROVE  (CHOOSE k \in {i} : \A l \in {i} : k <= l) = i
<1> DEFINE first == CHOOSE k \in {i} : \A l \in {i} : k <= l
<1>1. \E k \in {i} : \A l \in {i} : k <= l
  OBVIOUS
<1>2. first \in {i}
  BY <1>1
<1> QED
  BY <1>2

(* Induction up to N: what holds for 0, and for n if it holds for n - 1,   *)
(* holds for all numbers up to N.  H is the set of those for which it does.*)
LEMMA InductionUpTo ==
  ASSUME NEW N \in Nat, NEW H, 0 \in H,
         \A n \in 1 .. N : n - 1 \in H => n \in H
  PROVE  \A n \in 0 .. N : n \in H
<1> DEFINE Missing == {n \in 0 .. N : n \notin H}
<1> SUFFICES ASSUME Missing # {}
             PROVE  FALSE
  OBVIOUS
<1>1. Missing \in SUBSET Nat
  OBVIOUS
<1> HIDE DEF Missing
<1>2. PICK m \in Missing : \A n \in Missing : m <= n
  BY <1>1, LeastNatural
<1>3. m \in 0 .. N /\ m \notin H
  BY DEF Missing
<1>4. m \in 1 .. N /\ m - 1 \in 0 .. N /\ ~ (m <= m - 1)
  BY <1>3
<1>5. m - 1 \notin Missing
  BY <1>2, <1>4
<1> QED
  BY <1>3, <1>4, <1>5 DEF Missing

(* f starts with a, and G[n] leads from its value at n - 1 to that at n.   *)
Iterates(f, S, a, N, G) ==
  f \in [0 .. N -> S] /\ f[0] = a /\ \A n \in 1 .. N : f[n] = G[n][f[n - 1]]

(* What a recursive function on 0 .. N computes exists.                    *)
LEMMA Iteration ==
  ASSUME NEW S, NEW a \in S, NEW N \in Nat, NEW G \in [1 .. N -> [S -> S]]
  PROVE  \E f : Iterates(f, S, a, N, G)
<1> DEFINE Upto(k, f) == /\ f \in [0 .. k -> S] /\ f[0] = a
                         /\ \A n \in 1 .. k : f[n] = G[n][f[n - 1]]
           H == {k \in 0 .. N : \E f : Upto(k, f)}
<1>1. 0 \in H
  <2> DEFINE f == [i \in 0 .. 0 |-> a]
  <2>1. f \in [0 .. 0 -> S] /\ f[0] = a /\ \A n \in 1 .. 0 : f[n] = G[n][f[n - 1]]
    OBVIOUS
  <2> HIDE DEF f
  <2>2. Upto(0, f)
    BY <2>1
  <2> QED
    BY <2>2
<1>2. ASSUME NEW k \in 1 .. N, k - 1 \in H
      PROVE  k \in H
  <2>1. PICK f : Upto(k - 1, f)
    BY <1>2
  <2> DEFINE g == [i \in 0 .. k |-> IF i = k THEN G[k][f[k - 1]] ELSE f[i]]
  <2>2. k - 1 \in 0 .. k - 1 /\ f[k - 1] \in S /\ G[k] \in [S -> S]
    BY <2>1
  <2>3. g \in [0 .. k -> S] /\ g[0] = a
    BY <2>1, <2>2
  <2>4. ASSUME NEW n \in 1 .. k
        PROVE  g[n] = G[n][g[n - 1]]
    <3>1. CASE n = k
      BY <3>1
    <3>2. CASE n # k
      BY <2>1, <3>2
    <3> QED
      BY <3>1, <3>2
  <2> HIDE DEF g
  <2>5. Upto(k, g)
    BY <2>3, <2>4
  <2> QED
    BY <2>5
<1> HIDE DEF H
<1>3. N \in H
  <2>1. \A n \in 0 .. N : n \in H
    BY <1>1, <1>2, InductionUpTo
  <2> QED
    BY <2>1
<1> QED
  BY <1>3 DEF H, Iterates

-----------------------------------------------------------------------------
(* Remainders.                                                             *)

(* Division with remainder.                                                *)
LEMMA Quotient ==
  ASSUME NEW n \in Int, NEW M \in Nat, M > 0
  PROVE  n % M \in 0 .. M - 1 /\ \E q \in Int : n = q * M + (n % M)
<1>1. n \div M \in Int
  OBVIOUS
<1>2. n = (n \div M) * M + (n % M)
  OBVIOUS
<1>3. n % M \in 0 .. M - 1
  OBVIOUS
<1> QED
  BY <1>1, <1>2, <1>3

(* A multiple less than two times away is next to zero.                    *)
LEMMA SmallMultiple ==
  ASSUME NEW k \in Int, NEW M \in Nat, M > 0, k * M < 2 * M, k * M > - (2 * M)
  PROVE  k \in {-1, 0, 1}
<1>1. ASSUME k >= 2
      PROVE  FALSE
  <2>1. k * M >= 2 * M
    BY <1>1
  <2> QED
    BY <2>1
<1>2. ASSUME k <= -2
      PROVE  FALSE
  <2>1. k * M <= (-2) * M
    BY <1>2
  <2> QED
    BY <2>1
<1> QED
  BY <1>1, <1>2

(* Of two numbers less than M apart the remainders are as far apart, in    *)
(* the arithmetic that wraps around at M.                                  *)
LEMMA RemainderDistance ==
  ASSUME NEW M \in Nat, M > 0, NEW a \in Int, NEW b \in Int, a - b < M, b - a < M
  PROVE  (IF (a % M) >= (b % M) THEN (a % M) - (b % M)
             ELSE (a % M) - (b % M) + M)
           = IF a >= b THEN a - b ELSE a - b + M
<1> DEFINE r == a % M
           t == b % M
<1>1. r \in 0 .. M - 1 /\ t \in 0 .. M - 1
  BY Quotient
<1>2. PICK p \in Int : a = p * M + r
  BY Quotient
<1>3. PICK q \in Int : b = q * M + t
  BY Quotient
<1> HIDE DEF r, t
<1>4. (p - q) * M = a - b - (r - t)
  BY <1>1, <1>2, <1>3
<1>5. p - q \in {-1, 0, 1}
  <2> DEFINE k == p - q
  <2>1. k \in Int /\ k * M < 2 * M /\ k * M > - (2 * M)
    BY <1>1, <1>4
  <2> HIDE DEF k
  <2>2. k \in {-1, 0, 1}
    BY <2>1, SmallMultiple
  <2> QED
    BY <2>2 DEF k
<1>6. (IF r >= t THEN r - t ELSE r - t + M) = IF a >= b THEN a - b ELSE a - b + M
  <2>1. CASE p - q = 0
    BY <2>1, <1>1, <1>4
  <2>2. CASE p - q = 1
    BY <2>2, <1>1, <1>4
  <2>3. CASE p - q = -1
    BY <2>3, <1>1, <1>4
  <2> QED
    BY <1>5, <2>1, <2>2, <2>3
<1> QED
  BY <1>6 DEF r, t
=============================================================================

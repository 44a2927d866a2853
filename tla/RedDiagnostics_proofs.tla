----------------------- MODULE RedDiagnostics_proofs -----------------------
(***************************************************************************)
(* What a configuration that passes reddia_IsConfigurationValid gives the  *)
(* redundancy channels, and that the diagnostic data of a channel is that  *)
(* of the copies heard since the last report, and a report misses no loss, *)
(* for every size of the window, number of transport channels and width of *)
(* the numbers.                                                            *)
(***************************************************************************)
EXTENDS RedDiagnostics, RedConfiguration, RedChannel_proofs

-----------------------------------------------------------------------------
(* Configurations.                                                         *)

(* The factor of the window in redcor (kDeferQueueSizeFactor), and half of *)
(* the sequence numbers of 32 bits.                                        *)
kWindowFactor == 10
SourceHalf == 2147483648

(* No transport channel is configured for two redundancy channels, which   *)
(* the check does not look at.                                             *)
TransportsDisjoint(cfg) ==
  \A i, j \in DOMAIN cfg.redundancy_channel_configurations :
    i # j => TransportsOf(cfg.redundancy_channel_configurations[i])
               \cap TransportsOf(cfg.redundancy_channel_configurations[j]) = {}

(* With the limits of the source a valid configuration satisfies what the  *)
(* model of a channel, and its proofs, assume: redcor's window is shorter  *)
(* than half of the sequence numbers, and there is a transport channel.    *)
THEOREM ValidConfigurationFitsTheWindow ==
  ASSUME RedLimits = SourceRedLimits,
         NEW cfg \in RedundancyLayerConfiguration, IsRedConfigurationValid(cfg)
  PROVE  /\ cfg.n_defer_queue_size \in Nat \ {0}
         /\ kWindowFactor * cfg.n_defer_queue_size + 1 < SourceHalf
         /\ \A i \in DOMAIN cfg.redundancy_channel_configurations :
              TransportsOf(cfg.redundancy_channel_configurations[i]) # {}
<1>1. cfg.n_defer_queue_size \in 4 .. 10
  BY DEF IsRedConfigurationValid, SourceRedLimits
<1>2. ASSUME NEW i \in DOMAIN cfg.redundancy_channel_configurations
      PROVE  TransportsOf(cfg.redundancy_channel_configurations[i]) # {}
  <2> DEFINE channel == cfg.redundancy_channel_configurations[i]
  <2>1. channel \in RedundancyChannelConfiguration
    BY DEF RedundancyLayerConfiguration
  <2>2. Len(channel.transport_channel_ids) \in 1 .. RedLimits.MaxTransportChannels
    <3>1. IsChannelConfigurationValid(channel, i - 1)
      BY DEF IsRedConfigurationValid
    <3> QED
      BY <3>1 DEF IsChannelConfigurationValid
  <2>3. 1 \in DOMAIN channel.transport_channel_ids
    BY <2>1, <2>2 DEF RedundancyChannelConfiguration
  <2> QED
    BY <2>3 DEF TransportsOf
<1> QED
  BY <1>1, <1>2 DEF kWindowFactor, SourceHalf

(* redcor_GetAssociatedRedundancyChannel, which takes the first channel it *)
(* finds, takes the one a transport channel is configured for, as long as  *)
(* the redundancy channels share none.                                     *)
THEOREM TransportLeadsToItsChannel ==
  ASSUME NEW cfg \in RedundancyLayerConfiguration, IsRedConfigurationValid(cfg),
         TransportsDisjoint(cfg),
         NEW i \in DOMAIN cfg.redundancy_channel_configurations,
         NEW transport \in TransportsOf(cfg.redundancy_channel_configurations[i])
  PROVE  /\ IsTransportChannelKnown(cfg, transport)
         /\ GetAssociatedRedundancyChannel(cfg, transport)
              = cfg.redundancy_channel_configurations[i].red_channel_id
         /\ transport \in TransportChannelIds
<1> DEFINE channel == cfg.redundancy_channel_configurations[i]
<1>1. RedundancyChannelsOf(cfg, transport) = {i}
  BY DEF RedundancyChannelsOf, TransportsDisjoint
<1>2. GetAssociatedRedundancyChannel(cfg, transport) = i - 1
  <2>1. i \in Nat
    BY DEF RedundancyLayerConfiguration
  <2> QED
    BY <1>1, <2>1, LeastOfOne DEF GetAssociatedRedundancyChannel
<1>3. IsChannelConfigurationValid(channel, i - 1)
  BY DEF IsRedConfigurationValid
<1>4. transport \in TransportChannelIds
  BY <1>3 DEF IsChannelConfigurationValid, TransportsOf
<1> QED
  BY <1>1, <1>2, <1>3, <1>4 DEF IsChannelConfigurationValid, IsTransportChannelKnown

(* A configured transport channel passes reddia_IsTransportChannelIdValid  *)
(* for its redundancy channel, and its index leads back to it.             *)
THEOREM IndexOfConfiguredTransport ==
  ASSUME NEW cfg \in RedundancyLayerConfiguration,
         NEW i \in DOMAIN cfg.redundancy_channel_configurations,
         NEW transport, IsTransportChannelIdValid(cfg, i - 1, transport)
  PROVE  LET ids == cfg.redundancy_channel_configurations[i].transport_channel_ids
             index == GetTransportChannelIndex(cfg, i - 1, transport)
         IN  index \in 0 .. Len(ids) - 1 /\ ids[index + 1] = transport
<1> DEFINE ids == cfg.redundancy_channel_configurations[i].transport_channel_ids
           found == {k \in DOMAIN ids : ids[k] = transport}
           first == CHOOSE k \in found : \A l \in found : k <= l
<1>1. i \in Nat /\ ids \in Seq(Nat) /\ i - 1 + 1 = i
  <2>1. cfg.redundancy_channel_configurations \in Seq(RedundancyChannelConfiguration)
    BY DEF RedundancyLayerConfiguration
  <2>2. /\ cfg.redundancy_channel_configurations[i] \in RedundancyChannelConfiguration
        /\ i \in Nat
    BY <2>1
  <2> QED
    BY <2>2 DEF RedundancyChannelConfiguration
<1>2. found # {}
  BY <1>1 DEF IsTransportChannelIdValid, TransportsOf
<1>3. \E k \in found : \A l \in found : k <= l
  <2>1. found \in SUBSET Nat
    BY <1>1
  <2> HIDE DEF found
  <2> QED
    BY <1>2, <2>1, LeastNatural
<1>4. first \in found
  <2> HIDE DEF found
  <2> QED
    BY <1>3
<1>5. GetTransportChannelIndex(cfg, i - 1, transport) = first - 1
  BY <1>1 DEF GetTransportChannelIndex
<1>6. first \in 1 .. Len(ids) /\ ids[first] = transport
  BY <1>1, <1>4
<1> HIDE DEF first
<1>7. first - 1 \in 0 .. Len(ids) - 1 /\ first - 1 + 1 = first
  BY <1>1, <1>6
<1> QED
  BY <1>5, <1>6, <1>7

-----------------------------------------------------------------------------
(* Sums over finite sets of numbers.                                       *)

(* g gives the sum of the values of D over each subset of U.               *)
IsSum(g, D, U) ==
  /\ g \in [SUBSET U -> Nat] /\ g[{}] = 0
  /\ \A s \in SUBSET U : \A x \in U \ s : g[s \cup {x}] = g[s] + D[x]

(* Every function on 1 .. N has its sums.                                  *)
LEMMA SumExists ==
  ASSUME NEW N \in Nat, NEW D \in [1 .. N -> Nat]
  PROVE  \E g : IsSum(g, D, 1 .. N)
<1> DEFINE H == {n \in 0 .. N : \E g : IsSum(g, D, 1 .. n)}
<1>1. 0 \in H
  <2> DEFINE g == [s \in SUBSET (1 .. 0) |-> 0]
  <2>1. IsSum(g, D, 1 .. 0)
    BY DEF IsSum
  <2> HIDE DEF g
  <2> QED
    BY <2>1
<1>2. ASSUME NEW n \in 1 .. N, n - 1 \in H
      PROVE  n \in H
  <2>1. PICK f : IsSum(f, D, 1 .. n - 1)
    BY <1>2
  <2> DEFINE U == 1 .. n
             B == 1 .. n - 1
             g == [s \in SUBSET U |-> f[s \ {n}] + (IF n \in s THEN D[n] ELSE 0)]
  <2>2. /\ n \in U /\ n \notin B /\ D[n] \in Nat /\ U \ {n} = B
        /\ \A s \in SUBSET U : s \ {n} \in SUBSET B
    OBVIOUS
  <2>3. f \in [SUBSET B -> Nat] /\ f[{}] = 0
    BY <2>1 DEF IsSum
  <2>4. \A s \in SUBSET B : \A x \in B \ s : f[s \cup {x}] = f[s] + D[x]
    BY <2>1 DEF IsSum
  <2>5. \A x \in B : D[x] \in Nat
    OBVIOUS
  <2> HIDE DEF U, B
  <2>6. g \in [SUBSET U -> Nat]
    <3>1. ASSUME NEW s \in SUBSET U
          PROVE  f[s \ {n}] + (IF n \in s THEN D[n] ELSE 0) \in Nat
      <4>1. f[s \ {n}] \in Nat
        BY <2>2, <2>3
      <4> QED
        BY <2>2, <4>1
    <3> QED
      BY <3>1
  <2>7. g[{}] = 0
    BY <2>2, <2>3
  <2>8. ASSUME NEW s \in SUBSET U, NEW x \in U \ s
        PROVE  g[s \cup {x}] = g[s] + D[x]
    <3>1. s \cup {x} \in SUBSET U /\ s \ {n} \in SUBSET B
      BY <2>2
    <3>2. CASE x = n
      <4>1. (s \cup {x}) \ {n} = s \ {n} /\ n \in s \cup {x} /\ n \notin s
        BY <3>2
      <4> HIDE DEF g
      <4>2. g[s \cup {x}] = f[s \ {n}] + D[n] /\ g[s] = f[s \ {n}] + 0
        BY <3>1, <4>1 DEF g
      <4>3. f[s \ {n}] \in Nat
        BY <2>3, <3>1
      <4> QED
        BY <2>2, <3>2, <4>2, <4>3
    <3>3. CASE x # n
      <4>1. (s \cup {x}) \ {n} = (s \ {n}) \cup {x} /\ (n \in s \cup {x} <=> n \in s)
            /\ x \in B /\ x \notin s \ {n}
        BY <2>2, <3>3
      <4>2. f[(s \ {n}) \cup {x}] = f[s \ {n}] + D[x]
        BY <2>4, <3>1, <4>1
      <4>3. /\ g[s \cup {x}] = (f[s \ {n}] + D[x]) + (IF n \in s THEN D[n] ELSE 0)
            /\ g[s] = f[s \ {n}] + (IF n \in s THEN D[n] ELSE 0)
        BY <3>1, <4>1, <4>2
      <4>4. f[s \ {n}] \in Nat /\ D[x] \in Nat
        BY <2>3, <2>5, <3>1, <4>1
      <4> HIDE DEF g
      <4> QED
        BY <2>2, <4>3, <4>4
    <3> QED
      BY <3>2, <3>3
  <2> HIDE DEF g
  <2>9. IsSum(g, D, U)
    BY <2>6, <2>7, <2>8 DEF IsSum
  <2> QED
    BY <2>9 DEF U
<1> HIDE DEF H
<1>3. N \in H
  <2>1. \A n \in 0 .. N : n \in H
    BY <1>1, <1>2, InductionUpTo
  <2> QED
    BY <2>1
<1> QED
  BY <1>3 DEF H

(* The element MapThenSumSet takes next.                                   *)
Chosen(s) == CHOOSE x \in s : TRUE

(* f computes the sum over S as MapThenSumSet does.                        *)
Accumulates(f, D, S) ==
  f = [s \in SUBSET S |-> IF s = {} THEN 0 ELSE D[Chosen(s)] + f[s \ {Chosen(s)}]]

(* It computes the sum.                                                    *)
LEMMA FoldIsSum ==
  ASSUME NEW N \in Nat, NEW D, NEW g, IsSum(g, D, 1 .. N),
         \A x \in 1 .. N : D[x] \in Nat,
         NEW S \in SUBSET (1 .. N), NEW f, Accumulates(f, D, S)
  PROVE  f[S] = g[S]
<1> DEFINE H == {n \in 0 .. N : \A s \in SUBSET S : Cardinality(s) <= n => f[s] = g[s]}
<1>0. \A s \in SUBSET S : /\ s \in SUBSET (1 .. N) /\ IsFiniteSet(s) /\ Cardinality(s) \in 0 .. N
                          /\ Cardinality(s) = 0 <=> s = {}
  <2>1. IsFiniteSet(1 .. N) /\ Cardinality(1 .. N) = N
    BY FS_Interval
  <2>2. ASSUME NEW s \in SUBSET S
        PROVE  /\ s \in SUBSET (1 .. N) /\ IsFiniteSet(s) /\ Cardinality(s) \in 0 .. N
               /\ Cardinality(s) = 0 <=> s = {}
    <3>1. s \in SUBSET (1 .. N)
      OBVIOUS
    <3>2. IsFiniteSet(s) /\ Cardinality(s) <= Cardinality(1 .. N)
      BY <2>1, <3>1, FS_Subset
    <3>3. Cardinality(s) \in Nat
      BY <3>2, FS_CardinalityType
    <3> QED
      <4>1. Cardinality(s) = 0 <=> s = {}
        BY <3>2, FS_EmptySet, Zenon
      <4>2. Cardinality(s) \in 0 .. N
        BY <2>1, <3>2, <3>3
      <4> QED
        BY <3>1, <3>2, <4>1, <4>2
  <2> QED
    BY <2>2
<1>1. \A s \in SUBSET S : s # {} => f[s] = D[Chosen(s)] + f[s \ {Chosen(s)}]
  BY DEF Accumulates
<1>2. f[{}] = 0 /\ g[{}] = 0
  BY DEF Accumulates, IsSum
<1>3. 0 \in H
  <2>1. ASSUME NEW s \in SUBSET S, Cardinality(s) <= 0
        PROVE  f[s] = g[s]
    <3>1. s = {}
      BY <1>0, <2>1
    <3> QED
      BY <1>2, <3>1
  <2> QED
    BY <2>1
<1>4. ASSUME NEW n \in 1 .. N, n - 1 \in H
      PROVE  n \in H
  <2>1. \A s \in SUBSET S : Cardinality(s) <= n - 1 => f[s] = g[s]
    BY <1>4
  <2>2. ASSUME NEW s \in SUBSET S, Cardinality(s) <= n, s # {}
        PROVE  f[s] = g[s]
    <3> DEFINE x == Chosen(s)
               r == s \ {x}
    <3>1. x \in s /\ r \in SUBSET S /\ r \cup {x} = s /\ x \notin r
      BY <2>2 DEF Chosen
    <3>2. Cardinality(r) = Cardinality(s) - 1
      BY <1>0, <3>1, FS_RemoveElement
    <3>3. Cardinality(r) <= n - 1
      BY <1>0, <2>2, <3>2
    <3>4. f[r] = g[r]
      BY <2>1, <3>1, <3>3
    <3>5. f[s] = D[x] + f[r]
      BY <1>1, <2>2
    <3> HIDE DEF r, x
    <3>6. r \in SUBSET (1 .. N) /\ x \in (1 .. N) \ r
      BY <1>0, <3>1
    <3>7. g[r \cup {x}] = g[r] + D[x]
      BY <3>6 DEF IsSum
    <3>8. g[r] \in Nat /\ D[x] \in Nat
      BY <3>6 DEF IsSum
    <3>9. g[s] = g[r] + D[x]
      BY <3>1, <3>7
    <3> QED
      BY <3>4, <3>5, <3>8, <3>9
  <2>3. \A s \in SUBSET S : Cardinality(s) <= n => f[s] = g[s]
    BY <1>2, <2>2
  <2> QED
    BY <2>3
<1> HIDE DEF H
<1>5. N \in H
  <2>1. \A n \in 0 .. N : n \in H
    BY <1>3, <1>4, InductionUpTo
  <2> QED
    BY <2>1
<1>6. S \in SUBSET S /\ Cardinality(S) <= N
  BY <1>0
<1> QED
  BY <1>5, <1>6 DEF H

(* MapThenSumSet computes by such a function.                              *)
LEMMA FoldExists ==
  ASSUME NEW N \in Nat, NEW D, NEW g, IsSum(g, D, 1 .. N),
         \A x \in 1 .. N : D[x] \in Nat, NEW S \in SUBSET (1 .. N)
  PROVE  \E f : Accumulates(f, D, S)
<1> DEFINE f == [s \in SUBSET S |-> g[s]]
<1>1. ASSUME NEW s \in SUBSET S
      PROVE  g[s] = IF s = {} THEN 0 ELSE D[Chosen(s)] + f[s \ {Chosen(s)}]
  <2>1. CASE s = {}
    BY <2>1 DEF IsSum
  <2>2. CASE s # {}
    <3> DEFINE x == Chosen(s)
               r == s \ {x}
    <3>1. x \in s /\ r \in SUBSET S /\ r \cup {x} = s /\ x \notin r
      BY <2>2 DEF Chosen
    <3>2. f[r] = g[r]
      BY <3>1
    <3> HIDE DEF r, x
    <3>3. r \in SUBSET (1 .. N) /\ x \in (1 .. N) \ r
      BY <3>1
    <3>4. g[s] = g[r] + D[x] /\ g[r] \in Nat /\ D[x] \in Nat
      BY <3>1, <3>3 DEF IsSum
    <3>5. g[s] = D[x] + g[r]
      BY <3>4
    <3> QED
      BY <2>2, <3>2, <3>5 DEF r, x
  <2> QED
    BY <2>1, <2>2
<1>2. f = [s \in SUBSET S |-> IF s = {} THEN 0 ELSE D[Chosen(s)] + f[s \ {Chosen(s)}]]
  BY <1>1, Zenon
<1> HIDE DEF f
<1> QED
  BY <1>2 DEF Accumulates

-----------------------------------------------------------------------------
(* Histories: what the properties say of heard, of any sequence of copies. *)

Copy == [t : Transports, n : Payloads, at : Nat]

After(h, s) == s + 1 .. Len(h)
FirstOf(h, P, n) == Min({i \in P : h[i].n = n})
DelayOf(h, P, i) == h[i].at - h[FirstOf(h, P, h[i].n)].at
Punctual(h, P, t) == {i \in P : h[i].t = t /\ DelayOf(h, P, i) <= TSeq}
NumbersOf(h, P) == {h[i].n : i \in P}

Drift(h, P, t) == MapThenSumSet(LAMBDA i : DelayOf(h, P, i), Punctual(h, P, t))
Drift2(h, P, t) ==
  MapThenSumSet(LAMBDA i : DelayOf(h, P, i) * DelayOf(h, P, i), Punctual(h, P, t))

(* The drift is the sum of the delays, ...                                 *)
LEMMA DriftIsSum ==
  ASSUME NEW h, NEW P, NEW t, NEW N \in Nat, Punctual(h, P, t) \in SUBSET (1 .. N),
         NEW D, \A x \in 1 .. N : D[x] \in Nat,
         \A i \in Punctual(h, P, t) : D[i] = DelayOf(h, P, i),
         NEW g, IsSum(g, D, 1 .. N)
  PROVE  Drift(h, P, t) = g[Punctual(h, P, t)]
<1> DEFINE S == Punctual(h, P, t)
           Adds(f) == f = [s \in SUBSET S |-> IF s = {} THEN 0
                             ELSE DelayOf(h, P, Chosen(s)) + f[s \ {Chosen(s)}]]
           iter == CHOOSE f : Adds(f)
<1>1. Drift(h, P, t) = iter[S]
  BY Zenon DEF Drift, MapThenSumSet, MapThenFoldSet, Chosen
<1>2. \A s \in SUBSET S : s # {} => Chosen(s) \in S
  BY DEF Chosen
<1>3. \A f : Adds(f) <=> Accumulates(f, D, S)
  <2> SUFFICES ASSUME NEW f
               PROVE  Adds(f) <=> Accumulates(f, D, S)
    OBVIOUS
  <2>1. \A s \in SUBSET S : (IF s = {} THEN 0 ELSE DelayOf(h, P, Chosen(s)) + f[s \ {Chosen(s)}])
                            = (IF s = {} THEN 0 ELSE D[Chosen(s)] + f[s \ {Chosen(s)}])
    BY <1>2
  <2> QED
    BY <2>1 DEF Accumulates
<1>4. \E f : Accumulates(f, D, S)
  BY FoldExists
<1> HIDE DEF Adds, S
<1>5. Adds(iter)
  BY <1>3, <1>4
<1>6. Accumulates(iter, D, S)
  BY <1>3, <1>5
<1> HIDE DEF iter
<1>7. S \in SUBSET (1 .. N)
  BY DEF S
<1>8. iter[S] = g[S]
  BY <1>6, <1>7, FoldIsSum
<1> QED
  BY <1>1, <1>8 DEF S

(* ... and of their squares.                                               *)
LEMMA Drift2IsSum ==
  ASSUME NEW h, NEW P, NEW t, NEW N \in Nat, Punctual(h, P, t) \in SUBSET (1 .. N),
         NEW D, \A x \in 1 .. N : D[x] \in Nat,
         \A i \in Punctual(h, P, t) : D[i] = DelayOf(h, P, i) * DelayOf(h, P, i),
         NEW g, IsSum(g, D, 1 .. N)
  PROVE  Drift2(h, P, t) = g[Punctual(h, P, t)]
<1> DEFINE S == Punctual(h, P, t)
           Square(i) == DelayOf(h, P, i) * DelayOf(h, P, i)
           Adds(f) == f = [s \in SUBSET S |-> IF s = {} THEN 0
                             ELSE Square(Chosen(s)) + f[s \ {Chosen(s)}]]
           iter == CHOOSE f : Adds(f)
<1>1. Drift2(h, P, t) = iter[S]
  BY Zenon DEF Drift2, MapThenSumSet, MapThenFoldSet, Chosen
<1>2. \A s \in SUBSET S : s # {} => Chosen(s) \in S
  BY DEF Chosen
<1>3. \A i \in S : D[i] = Square(i)
  OBVIOUS
<1> HIDE DEF Square
<1>4. \A f : Adds(f) <=> Accumulates(f, D, S)
  <2> SUFFICES ASSUME NEW f
               PROVE  Adds(f) <=> Accumulates(f, D, S)
    OBVIOUS
  <2>1. \A s \in SUBSET S : (IF s = {} THEN 0 ELSE Square(Chosen(s)) + f[s \ {Chosen(s)}])
                            = (IF s = {} THEN 0 ELSE D[Chosen(s)] + f[s \ {Chosen(s)}])
    BY <1>2, <1>3
  <2> QED
    BY <2>1 DEF Accumulates
<1>5. \E f : Accumulates(f, D, S)
  BY FoldExists
<1> HIDE DEF Adds, S
<1>6. Adds(iter)
  BY <1>4, <1>5
<1>7. Accumulates(iter, D, S)
  BY <1>4, <1>6
<1> HIDE DEF iter
<1>8. S \in SUBSET (1 .. N)
  BY DEF S
<1>9. iter[S] = g[S]
  BY <1>7, <1>8, FoldIsSum
<1> QED
  BY <1>1, <1>9 DEF S


(* A history grows with the time.                                          *)
History(h) ==
  /\ h \in Seq(Copy)
  /\ \A i, j \in DOMAIN h : i < j => h[i].at <= h[j].at

(* The copy x is heard after h, at the place new of k.                     *)
Grows(h, P, x, k, new, Q) ==
  /\ History(h) /\ P \in SUBSET DOMAIN h
  /\ x \in Copy /\ \A i \in DOMAIN h : h[i].at <= x.at
  /\ k = Append(h, x) /\ new = Len(h) + 1 /\ Q = P \cup {new}

(* The first copy of a message.                                            *)
LEMMA FirstFound ==
  ASSUME NEW h, NEW P \in SUBSET Nat, NEW n \in NumbersOf(h, P)
  PROVE  /\ FirstOf(h, P, n) \in P /\ h[FirstOf(h, P, n)].n = n
         /\ \A i \in P : h[i].n = n => FirstOf(h, P, n) <= i
<1> DEFINE S == {i \in P : h[i].n = n}
<1>1. S \in SUBSET Nat /\ S # {}
  BY DEF NumbersOf
<1>2. \E x \in S : \A y \in S : x <= y
  <2> HIDE DEF S
  <2> QED
    BY <1>1, LeastNatural
<1>3. FirstOf(h, P, n) \in S /\ \A y \in S : FirstOf(h, P, n) <= y
  <2> HIDE DEF S
  <2>1. Min(S) \in S /\ \A y \in S : Min(S) <= y
    BY <1>2 DEF Min
  <2>2. FirstOf(h, P, n) = Min(S)
    BY DEF FirstOf, S
  <2> QED
    BY <2>1, <2>2
<1> QED
  BY <1>3

(* It is the one that is the first.                                        *)
LEMMA FirstIs ==
  ASSUME NEW h, NEW P \in SUBSET Nat, NEW f \in P,
         \A i \in P : h[i].n = h[f].n => f <= i
  PROVE  FirstOf(h, P, h[f].n) = f
<1> DEFINE g == FirstOf(h, P, h[f].n)
<1>1. h[f].n \in NumbersOf(h, P)
  BY DEF NumbersOf
<1>2. g \in P /\ h[g].n = h[f].n /\ g <= f
  BY <1>1, FirstFound
<1> HIDE DEF g
<1>3. f <= g /\ f \in Nat /\ g \in Nat
  BY <1>2
<1>4. g = f
  BY <1>2, <1>3
<1> QED
  BY <1>4 DEF g

(* Delays are natural numbers.                                             *)
LEMMA DelayType ==
  ASSUME NEW h, History(h), NEW P \in SUBSET DOMAIN h, NEW i \in P
  PROVE  DelayOf(h, P, i) \in Nat
<1> DEFINE f == FirstOf(h, P, h[i].n)
<1>1. P \in SUBSET Nat /\ \A j \in P : j \in DOMAIN h /\ j \in Nat /\ h[j].at \in Nat
  <2>1. h \in Seq(Copy)
    BY DEF History
  <2>2. \A j \in DOMAIN h : j \in Nat /\ h[j] \in Copy
    BY <2>1
  <2>3. \A y \in Copy : y.at \in Nat
    BY DEF Copy
  <2> QED
    BY <2>2, <2>3
<1>2. h[i].n \in NumbersOf(h, P)
  BY DEF NumbersOf
<1>3. f \in P /\ f <= i
  BY <1>1, <1>2, FirstFound
<1> HIDE DEF f
<1>4. h[f].at <= h[i].at
  BY <1>1, <1>3 DEF History
<1>5. h[i].at - h[f].at \in Nat
  BY <1>1, <1>3, <1>4
<1> QED
  BY <1>5 DEF DelayOf, f

(* What a history then says of the copies at P, and of the new one among   *)
(* them.                                                                   *)
Grown(h, P, x, k, new, Q) ==
  /\ History(h) /\ P \in SUBSET DOMAIN h /\ Q = P \cup {new}
  /\ x \in Copy /\ new = Len(h) + 1 /\ Len(h) \in Nat
  /\ History(k) /\ Q \in SUBSET DOMAIN k /\ new \notin P
  /\ DOMAIN k = DOMAIN h \cup {new} /\ k[new] = x
  /\ \A i \in DOMAIN h : k[i] = h[i]
  /\ NumbersOf(k, Q) = NumbersOf(h, P) \cup {x.n}
  /\ \A n \in NumbersOf(h, P) : FirstOf(k, Q, n) = FirstOf(h, P, n)
  /\ x.n \notin NumbersOf(h, P) => FirstOf(k, Q, x.n) = new
  /\ \A i \in P : DelayOf(k, Q, i) = DelayOf(h, P, i)

(* The first copies stay the first ones, and the delays the same.          *)
LEMMA HistoryGrows ==
  ASSUME NEW h, NEW P, NEW x, NEW k, NEW new, NEW Q, Grows(h, P, x, k, new, Q)
  PROVE  Grown(h, P, x, k, new, Q)
<1>0. /\ History(h) /\ h \in Seq(Copy) /\ P \in SUBSET DOMAIN h
      /\ x \in Copy /\ \A i \in DOMAIN h : h[i].at <= x.at
      /\ k = Append(h, x) /\ new = Len(h) + 1 /\ Q = P \cup {new}
  BY DEF Grows, History
<1>1. /\ Len(h) \in Nat /\ DOMAIN h = 1 .. Len(h) /\ DOMAIN k = 1 .. Len(h) + 1
      /\ new \in Nat /\ new \notin DOMAIN h /\ k \in Seq(Copy)
      /\ k[new] = x /\ \A i \in DOMAIN h : k[i] = h[i] /\ i < new /\ i \in Nat
  BY <1>0
<1>2. DOMAIN k = DOMAIN h \cup {new} /\ Q \in SUBSET DOMAIN k /\ new \notin P
  BY <1>0, <1>1
<1>3. History(k)
  <2>1. ASSUME NEW i \in DOMAIN k, NEW j \in DOMAIN k, i < j
        PROVE  k[i].at <= k[j].at
    <3>1. i \in DOMAIN h
      BY <1>0, <1>1, <2>1
    <3>2. CASE j \in DOMAIN h
      BY <1>0, <1>1, <2>1, <3>1, <3>2 DEF History
    <3>3. CASE j = new
      BY <1>0, <1>1, <3>1, <3>3
    <3> QED
      BY <1>2, <3>2, <3>3
  <2> QED
    BY <1>0, <1>1, <2>1 DEF History
<1>4. NumbersOf(k, Q) = NumbersOf(h, P) \cup {x.n}
  <2>1. \A i \in P : k[i].n = h[i].n
    BY <1>0, <1>1
  <2> QED
    BY <1>0, <1>1, <2>1 DEF NumbersOf
<1>5. P \in SUBSET Nat /\ Q \in SUBSET Nat
  BY <1>0, <1>1, <1>2
<1>6. ASSUME NEW n \in NumbersOf(h, P)
      PROVE  FirstOf(k, Q, n) = FirstOf(h, P, n)
  <2> DEFINE f == FirstOf(h, P, n)
  <2>1. f \in P /\ h[f].n = n /\ \A i \in P : h[i].n = n => f <= i
    BY <1>0, <1>5, FirstFound
  <2> HIDE DEF f
  <2>2. f \in Q /\ k[f].n = n /\ f <= new
    BY <1>0, <1>1, <2>1
  <2>3. \A i \in Q : k[i].n = k[f].n => f <= i
    BY <1>0, <1>1, <2>1, <2>2
  <2>4. FirstOf(k, Q, k[f].n) = f
    BY <1>0, <1>5, <2>2, <2>3, FirstIs
  <2> QED
    BY <2>2, <2>4 DEF f
<1>7. ASSUME x.n \notin NumbersOf(h, P)
      PROVE  FirstOf(k, Q, x.n) = new
  <2>1. \A i \in Q : k[i].n = k[new].n => new <= i
    BY <1>0, <1>1, <1>7 DEF NumbersOf
  <2>2. FirstOf(k, Q, k[new].n) = new
    BY <1>0, <1>5, <2>1, FirstIs
  <2> QED
    BY <1>0, <1>1, <2>2
<1>8. ASSUME NEW i \in P
      PROVE  DelayOf(k, Q, i) = DelayOf(h, P, i)
  <2> DEFINE f == FirstOf(h, P, h[i].n)
  <2>1. h[i].n \in NumbersOf(h, P)
    BY DEF NumbersOf
  <2>2. f \in P /\ FirstOf(k, Q, h[i].n) = f
    BY <1>0, <1>5, <1>6, <2>1, FirstFound
  <2>3. k[i] = h[i] /\ k[f] = h[f]
    BY <1>0, <1>1, <2>2
  <2> QED
    BY <2>2, <2>3 DEF DelayOf
<1> QED
  BY <1>0, <1>1, <1>2, <1>3, <1>4, <1>6, <1>7, <1>8 DEF Grown

(* The punctual copies are the same, and the new one if it is.             *)
LEMMA PunctualGrows ==
  ASSUME NEW h, NEW P, NEW x, NEW k, NEW new, NEW Q, Grows(h, P, x, k, new, Q), NEW t
  PROVE  Punctual(k, Q, t) =
           IF x.t = t /\ DelayOf(k, Q, new) <= TSeq
             THEN Punctual(h, P, t) \cup {new} ELSE Punctual(h, P, t)
<1>1. /\ P \in SUBSET DOMAIN h /\ Q = P \cup {new} /\ new \notin P /\ k[new] = x
      /\ \A i \in DOMAIN h : k[i] = h[i]
      /\ \A i \in P : DelayOf(k, Q, i) = DelayOf(h, P, i)
  <2>1. Grown(h, P, x, k, new, Q)
    BY HistoryGrows
  <2> QED
    BY <2>1 DEF Grown
<1> QED
  BY <1>1 DEF Punctual

(* From h to k one more copy may count; the others keep their delays.      *)
LEMMA DriftGrows ==
  ASSUME NEW h, NEW P, NEW x, NEW k, NEW new, NEW Q, Grows(h, P, x, k, new, Q), NEW t
  PROVE  /\ Punctual(k, Q, t) = Punctual(h, P, t) =>
              Drift(k, Q, t) = Drift(h, P, t) /\ Drift2(k, Q, t) = Drift2(h, P, t)
         /\ Punctual(k, Q, t) = Punctual(h, P, t) \cup {new} =>
              LET delay == DelayOf(k, Q, new)
              IN  /\ Drift(k, Q, t) = Drift(h, P, t) + delay
                  /\ Drift2(k, Q, t) = Drift2(h, P, t) + delay * delay
<1>1. /\ History(h) /\ P \in SUBSET DOMAIN h /\ Q = P \cup {new} /\ new \in Q \ P
      /\ new = Len(h) + 1 /\ Len(h) \in Nat /\ History(k) /\ Q \in SUBSET DOMAIN k
      /\ \A i \in P : DelayOf(k, Q, i) = DelayOf(h, P, i)
  <2>1. Grown(h, P, x, k, new, Q)
    BY HistoryGrows
  <2> QED
    BY <2>1 DEF Grown
<1> DEFINE N == Len(h) + 1
<1>2. N \in Nat /\ P \subseteq Q /\ Q \in SUBSET (1 .. N)
  BY <1>1 DEF History
<1>3. \A i \in Q : DelayOf(k, Q, i) \in Nat
  BY <1>1, DelayType
<1> HIDE DEF N
<1> DEFINE Delay1(i) == DelayOf(k, Q, i)
           D == [i \in 1 .. N |-> IF i \in Q THEN Delay1(i) ELSE 0]
           E == [i \in 1 .. N |-> IF i \in Q THEN Delay1(i) * Delay1(i) ELSE 0]
           S == Punctual(h, P, t)
           T == Punctual(k, Q, t)
<1>4. \A i \in Q : Delay1(i) \in Nat /\ Delay1(i) * Delay1(i) \in Nat
  <2>1. \A a \in Nat : a * a \in Nat
    OBVIOUS
  <2> QED
    BY <1>3, <2>1
<1>5. S \in SUBSET P /\ T \in SUBSET Q /\ S \in SUBSET (1 .. N) /\ T \in SUBSET (1 .. N)
  BY <1>2 DEF Punctual
<1>6. \A i \in P : Delay1(i) = DelayOf(h, P, i)
  BY <1>1
<1> HIDE DEF Delay1
<1>7. D \in [1 .. N -> Nat] /\ E \in [1 .. N -> Nat]
  BY <1>4
<1>8. PICK g : IsSum(g, D, 1 .. N)
  BY <1>2, <1>7, SumExists
<1>9. PICK e : IsSum(e, E, 1 .. N)
  BY <1>2, <1>7, SumExists
<1>10. /\ \A i \in S : D[i] = DelayOf(h, P, i) /\ E[i] = DelayOf(h, P, i) * DelayOf(h, P, i)
      /\ \A i \in T : D[i] = DelayOf(k, Q, i) /\ E[i] = DelayOf(k, Q, i) * DelayOf(k, Q, i)
      /\ D[new] = DelayOf(k, Q, new) /\ E[new] = DelayOf(k, Q, new) * DelayOf(k, Q, new)
  <2>1. \A i \in Q : D[i] = Delay1(i) /\ E[i] = Delay1(i) * Delay1(i)
    BY <1>2
  <2>2. \A i \in S : i \in Q /\ Delay1(i) = DelayOf(h, P, i)
    BY <1>2, <1>5, <1>6
  <2>3. \A i \in T : i \in Q
    BY <1>5
  <2> HIDE DEF D, E
  <2>4. \A i : Delay1(i) = DelayOf(k, Q, i)
    BY DEF Delay1
  <2> QED
    BY <1>1, <2>1, <2>2, <2>3, <2>4
<1>11. \A i \in 1 .. N : D[i] \in Nat /\ E[i] \in Nat
  BY <1>7
<1> HIDE DEF D, E
<1>12. Drift(h, P, t) = g[S] /\ Drift(k, Q, t) = g[T]
  <2>1. /\ S \in SUBSET (1 .. N) /\ T \in SUBSET (1 .. N)
        /\ \A i \in 1 .. N : D[i] \in Nat
    BY <1>5, <1>11
  <2>2. \A i \in S : D[i] = DelayOf(h, P, i)
    BY <1>10
  <2>3. \A i \in T : D[i] = DelayOf(k, Q, i)
    BY <1>10
  <2>4. Drift(h, P, t) = g[S]
    BY <1>2, <1>8, <2>1, <2>2, DriftIsSum
  <2>5. Drift(k, Q, t) = g[T]
    BY <1>2, <1>8, <2>1, <2>3, DriftIsSum
  <2> QED
    BY <2>4, <2>5
<1>13. Drift2(h, P, t) = e[S] /\ Drift2(k, Q, t) = e[T]
  <2>1. /\ S \in SUBSET (1 .. N) /\ T \in SUBSET (1 .. N)
        /\ \A i \in 1 .. N : E[i] \in Nat
    BY <1>5, <1>11
  <2>2. \A i \in S : E[i] = DelayOf(h, P, i) * DelayOf(h, P, i)
    BY <1>10
  <2>3. \A i \in T : E[i] = DelayOf(k, Q, i) * DelayOf(k, Q, i)
    BY <1>10
  <2>4. Drift2(h, P, t) = e[S]
    BY <1>2, <1>9, <2>1, <2>2, Drift2IsSum
  <2>5. Drift2(k, Q, t) = e[T]
    BY <1>2, <1>9, <2>1, <2>3, Drift2IsSum
  <2> QED
    BY <2>4, <2>5
<1>14. ASSUME T = S \cup {new}
       PROVE  g[T] = g[S] + D[new] /\ e[T] = e[S] + E[new]
  <2>1. new \in (1 .. N) \ S
    BY <1>1, <1>2, <1>5
  <2> QED
    BY <1>5, <1>8, <1>9, <1>14, <2>1 DEF IsSum
<1> QED
  BY <1>10, <1>12, <1>13, <1>14

(* The drift is a natural number.                                          *)
LEMMA DriftType ==
  ASSUME NEW h, NEW P, NEW t, NEW N \in Nat, P \in SUBSET (1 .. N),
         \A i \in P : DelayOf(h, P, i) \in Nat
  PROVE  Drift(h, P, t) \in Nat /\ Drift2(h, P, t) \in Nat
<1> DEFINE Delay1(i) == DelayOf(h, P, i)
           D == [i \in 1 .. N |-> IF i \in P THEN Delay1(i) ELSE 0]
           E == [i \in 1 .. N |-> IF i \in P THEN Delay1(i) * Delay1(i) ELSE 0]
           S == Punctual(h, P, t)
<1>1. \A i \in P : Delay1(i) \in Nat /\ Delay1(i) * Delay1(i) \in Nat
  <2>1. \A a \in Nat : a * a \in Nat
    OBVIOUS
  <2> QED
    BY <2>1
<1>2. S \in SUBSET P /\ S \in SUBSET (1 .. N)
  BY DEF Punctual
<1> HIDE DEF Delay1, S
<1>3. /\ D \in [1 .. N -> Nat] /\ E \in [1 .. N -> Nat]
      /\ \A i \in 1 .. N : D[i] \in Nat /\ E[i] \in Nat
  BY <1>1
<1>4. \A i \in S : D[i] = Delay1(i) /\ E[i] = Delay1(i) * Delay1(i)
  BY <1>2
<1> HIDE DEF D, E
<1>5. PICK g : IsSum(g, D, 1 .. N)
  BY <1>3, SumExists
<1>6. PICK e : IsSum(e, E, 1 .. N)
  BY <1>3, SumExists
<1>7. Drift(h, P, t) = g[S]
  <2>1. \A i \in Punctual(h, P, t) : D[i] = DelayOf(h, P, i)
    BY <1>4 DEF Delay1, S
  <2>2. Punctual(h, P, t) \in SUBSET (1 .. N)
    BY <1>2 DEF S
  <2>3. Drift(h, P, t) = g[Punctual(h, P, t)]
    BY <1>3, <1>5, <2>1, <2>2, DriftIsSum
  <2> QED
    BY <2>3 DEF S
<1>8. Drift2(h, P, t) = e[S]
  <2>1. \A i \in Punctual(h, P, t) : E[i] = DelayOf(h, P, i) * DelayOf(h, P, i)
    BY <1>4 DEF Delay1, S
  <2>2. Punctual(h, P, t) \in SUBSET (1 .. N)
    BY <1>2 DEF S
  <2>3. Drift2(h, P, t) = e[Punctual(h, P, t)]
    BY <1>3, <1>6, <2>1, <2>2, Drift2IsSum
  <2> QED
    BY <2>3 DEF S
<1>9. g[S] \in Nat /\ e[S] \in Nat
  BY <1>2, <1>5, <1>6 DEF IsSum
<1> QED
  BY <1>7, <1>8, <1>9

(* Nothing is punctual where nothing is heard, and nothing drifts.         *)
LEMMA DriftOfNone ==
  ASSUME NEW h, NEW t, NEW N \in Nat, NEW P, P = {}
  PROVE  Punctual(h, P, t) = {} /\ Drift(h, P, t) = 0 /\ Drift2(h, P, t) = 0
<1> DEFINE D == [i \in 1 .. N |-> 0]
<1>1. D \in [1 .. N -> Nat] /\ \A x \in 1 .. N : D[x] \in Nat
  OBVIOUS
<1> HIDE DEF D
<1>2. PICK g : IsSum(g, D, 1 .. N)
  BY <1>1, SumExists
<1>3. Punctual(h, P, t) = {}
  BY DEF Punctual
<1>4. Drift(h, P, t) = g[Punctual(h, P, t)]
  <2>1. /\ Punctual(h, P, t) \in SUBSET (1 .. N)
        /\ \A i \in Punctual(h, P, t) : D[i] = DelayOf(h, P, i)
    BY <1>3
  <2> QED
    BY <1>1, <1>2, <2>1, DriftIsSum
<1>5. Drift2(h, P, t) = g[Punctual(h, P, t)]
  <2>1. /\ Punctual(h, P, t) \in SUBSET (1 .. N)
        /\ \A i \in Punctual(h, P, t) : D[i] = DelayOf(h, P, i) * DelayOf(h, P, i)
    BY <1>3
  <2> QED
    BY <1>1, <1>2, <2>1, Drift2IsSum
<1>6. g[{}] = 0
  BY <1>2 DEF IsSum
<1> QED
  BY <1>3, <1>4, <1>5, <1>6

-----------------------------------------------------------------------------
(* Diagnostic data that is that of a history.                              *)

Number(y) == Minus(y.seq, FirstSeq)

(* An entry of the window is that of its message.                          *)
EntryMatches(y, h, P) ==
  /\ Number(y) \in NumbersOf(h, P)
  /\ y.time = (StartTime + h[FirstOf(h, P, Number(y))].at) % SeqMod
  /\ \A t \in Transports : t \in y.received <=> \E i \in Punctual(h, P, t) : h[i].n = Number(y)

(* The data e is that of the copies at the places P of the history h.      *)
Matching(e, h, P) ==
  /\ \A i, j \in DOMAIN e.window : e.window[i].seq = e.window[j].seq => i = j
  /\ \A i \in DOMAIN e.window : EntryMatches(e.window[i], h, P)
  /\ \A n \in NumbersOf(h, P) : \E i \in DOMAIN e.window : e.window[i].seq = Plus(FirstSeq, n)
  /\ \A t \in Transports : e.tDrift[t] = Drift(h, P, t) /\ e.tDrift2[t] = Drift2(h, P, t)

(* Messages have different sequence numbers.                               *)
LEMMA NumberKnown ==
  ASSUME NEW n \in Payloads
  PROVE  /\ n \in 0 .. SeqMod - 1 /\ Plus(FirstSeq, n) \in SeqNums
         /\ \A s \in SeqNums : s = Plus(FirstSeq, n) <=> Minus(s, FirstSeq) = n
<1>1. n \in 0 .. SeqMod - 1 /\ FirstSeq \in SeqNums
  <2>1. SeqMod \in Nat
    BY HalfAssumption DEF SeqMod
  <2> QED
    BY <2>1, DiagnosticsAssumption
<1>2. Plus(FirstSeq, n) \in SeqNums
  <2>1. n \in SeqNums
    BY <1>1 DEF SeqNums
  <2> QED
    BY <1>1, <2>1, SeqNumsClosed
<1> QED
  BY <1>1, <1>2, PlusMinus

(* The numbers of a history are those of messages.                         *)
LEMMA NumbersType ==
  ASSUME NEW h \in Seq(Copy), NEW P \in SUBSET DOMAIN h
  PROVE  NumbersOf(h, P) \subseteq Payloads
<1>1. \A i \in P : h[i] \in Copy
  OBVIOUS
<1>2. \A y \in Copy : y.n \in Payloads
  BY DEF Copy
<1> QED
  BY <1>1, <1>2 DEF NumbersOf

(* What is punctual in a longer history.                                   *)
LEMMA PunctualKnown ==
  ASSUME NEW h, NEW P, NEW x, NEW k, NEW new, NEW Q, Grows(h, P, x, k, new, Q)
  PROVE  /\ x.n \in Payloads /\ x.at \in Nat /\ x.t \in Transports
         /\ DelayOf(k, Q, new) \in Nat
         /\ x.n \notin NumbersOf(h, P) => DelayOf(k, Q, new) = 0
         /\ x.n \in NumbersOf(h, P) =>
              /\ h[FirstOf(h, P, x.n)].at \in Nat
              /\ DelayOf(k, Q, new) = x.at - h[FirstOf(h, P, x.n)].at
         /\ \A t : Punctual(k, Q, t) =
                     IF x.t = t /\ DelayOf(k, Q, new) <= TSeq
                       THEN Punctual(h, P, t) \cup {new} ELSE Punctual(h, P, t)
<1>1. /\ History(h) /\ P \in SUBSET DOMAIN h /\ x \in Copy /\ k = Append(h, x)
      /\ \A i \in DOMAIN h : h[i].at <= x.at
      /\ new = Len(h) + 1 /\ Q = P \cup {new}
  BY DEF Grows
<1>2. x.n \in Payloads /\ x.at \in Nat /\ x.t \in Transports
  BY <1>1 DEF Copy
<1>3. /\ History(k) /\ Q \in SUBSET DOMAIN k /\ new \notin P /\ new \in Q
      /\ k[new] = x /\ \A i \in DOMAIN h : k[i] = h[i]
      /\ \A n \in NumbersOf(h, P) : FirstOf(k, Q, n) = FirstOf(h, P, n)
      /\ x.n \notin NumbersOf(h, P) => FirstOf(k, Q, x.n) = new
      /\ \A i \in P : DelayOf(k, Q, i) = DelayOf(h, P, i)
  <2>1. Grown(h, P, x, k, new, Q)
    BY HistoryGrows
  <2> QED
    BY <2>1 DEF Grown
<1>4. DelayOf(k, Q, new) \in Nat
  BY <1>3, DelayType
<1>5. DelayOf(k, Q, new) = x.at - k[FirstOf(k, Q, x.n)].at
  BY <1>3 DEF DelayOf
<1>6. x.n \notin NumbersOf(h, P) => DelayOf(k, Q, new) = 0
  BY <1>2, <1>3, <1>5
<1>7. ASSUME x.n \in NumbersOf(h, P)
      PROVE  /\ h[FirstOf(h, P, x.n)].at \in Nat
             /\ DelayOf(k, Q, new) = x.at - h[FirstOf(h, P, x.n)].at
  <2> DEFINE f == FirstOf(h, P, x.n)
  <2>1. P \in SUBSET Nat /\ h \in Seq(Copy)
    BY <1>1 DEF History
  <2>2. f \in P
    BY <1>7, <2>1, FirstFound
  <2> HIDE DEF f
  <2>3. h[f] \in Copy /\ k[f] = h[f]
    BY <1>1, <1>3, <2>1, <2>2
  <2>4. h[f].at \in Nat
    BY <2>3 DEF Copy
  <2>5. FirstOf(k, Q, x.n) = f
    BY <1>3, <1>7 DEF f
  <2> QED
    BY <1>5, <2>3, <2>4, <2>5 DEF f
<1>8. ASSUME NEW t
      PROVE  Punctual(k, Q, t) =
               IF x.t = t /\ DelayOf(k, Q, new) <= TSeq
                 THEN Punctual(h, P, t) \cup {new} ELSE Punctual(h, P, t)
  BY PunctualGrows
<1> QED
  BY <1>2, <1>4, <1>6, <1>7, <1>8

(* An entry stays that of its message, if it learns of a punctual copy.    *)
LEMMA EntryGrows ==
  ASSUME NEW h, NEW P, NEW x, NEW k, NEW new, NEW Q, Grows(h, P, x, k, new, Q),
         NEW y, EntryMatches(y, h, P),
         NEW z, z.seq = y.seq, z.time = y.time,
         \A t \in Transports : t \in z.received <=>
            t \in y.received \/ (t = x.t /\ Number(y) = x.n /\ DelayOf(k, Q, new) <= TSeq)
  PROVE  EntryMatches(z, k, Q)
<1>1. /\ History(h) /\ P \in SUBSET DOMAIN h /\ x \in Copy /\ k = Append(h, x)
      /\ \A i \in DOMAIN h : h[i].at <= x.at
      /\ new = Len(h) + 1 /\ Q = P \cup {new}
  BY DEF Grows
<1>2. /\ NumbersOf(k, Q) = NumbersOf(h, P) \cup {x.n}
      /\ k[new] = x /\ \A i \in DOMAIN h : k[i] = h[i]
      /\ \A n \in NumbersOf(h, P) : FirstOf(k, Q, n) = FirstOf(h, P, n)
  <2>1. Grown(h, P, x, k, new, Q)
    BY HistoryGrows
  <2> QED
    BY <2>1 DEF Grown
<1> DEFINE n == Number(y)
           f == FirstOf(h, P, n)
<1>3. n \in NumbersOf(h, P) /\ Number(z) = n
  BY DEF EntryMatches, Number
<1>4. f \in P /\ y.time = (StartTime + h[f].at) % SeqMod
  <2>1. P \in SUBSET Nat
    BY <1>1 DEF History
  <2> QED
    BY <1>3, <2>1, FirstFound DEF EntryMatches
<1>5. \A t \in Transports : t \in y.received <=> \E i \in Punctual(h, P, t) : h[i].n = n
  BY DEF EntryMatches
<1>6. k[FirstOf(k, Q, n)] = h[f]
  BY <1>1, <1>2, <1>3, <1>4
<1> HIDE DEF n, f
<1>7. ASSUME NEW t \in Transports
      PROVE  t \in z.received <=> \E i \in Punctual(k, Q, t) : k[i].n = n
  <2>1. \A i \in Punctual(h, P, t) : i \in DOMAIN h /\ k[i] = h[i]
    BY <1>1, <1>2 DEF Punctual
  <2>2. (\E i \in Punctual(h, P, t) : h[i].n = n) <=> \E i \in Punctual(h, P, t) : k[i].n = n
    BY <2>1
  <2>3. t \in z.received <=> (\E i \in Punctual(h, P, t) : k[i].n = n)
                             \/ (t = x.t /\ n = x.n /\ DelayOf(k, Q, new) <= TSeq)
    BY <1>5, <2>2 DEF n
  <2>4. Punctual(k, Q, t) = IF x.t = t /\ DelayOf(k, Q, new) <= TSeq
                              THEN Punctual(h, P, t) \cup {new} ELSE Punctual(h, P, t)
    BY PunctualKnown
  <2> QED
    BY <1>2, <2>3, <2>4
<1> QED
  BY <1>2, <1>3, <1>4, <1>6, <1>7 DEF EntryMatches, n

(* The sums of the longer history.                                         *)
LEMMA SumsGrow ==
  ASSUME NEW h, NEW P, NEW x, NEW k, NEW new, NEW Q, Grows(h, P, x, k, new, Q), NEW t
  PROVE  LET delay == IF x.t = t /\ DelayOf(k, Q, new) <= TSeq THEN DelayOf(k, Q, new) ELSE 0
         IN  /\ Drift(k, Q, t) = Drift(h, P, t) + delay
             /\ Drift2(k, Q, t) = Drift2(h, P, t) + delay * delay
             /\ Drift(h, P, t) \in Nat /\ Drift2(h, P, t) \in Nat
<1>1. /\ History(h) /\ P \in SUBSET DOMAIN h /\ x \in Copy /\ k = Append(h, x)
      /\ \A i \in DOMAIN h : h[i].at <= x.at
      /\ new = Len(h) + 1 /\ Q = P \cup {new}
  BY DEF Grows
<1>2. /\ History(k) /\ Q \in SUBSET DOMAIN k /\ new \in Q \ P
      /\ \A i \in P : DelayOf(k, Q, i) = DelayOf(h, P, i)
  <2>1. Grown(h, P, x, k, new, Q)
    BY HistoryGrows
  <2> QED
    BY <2>1 DEF Grown
<1> DEFINE N == Len(h) + 1
<1>3. N \in Nat /\ Q \in SUBSET (1 .. N) /\ P \subseteq Q /\ P \in SUBSET (1 .. N)
  BY <1>1, <1>2 DEF History
<1> HIDE DEF N
<1>4. \A i \in Q : DelayOf(k, Q, i) \in Nat
  BY <1>2, DelayType
<1>5. \A i \in P : DelayOf(h, P, i) \in Nat
  BY <1>1, DelayType
<1>6. Drift(h, P, t) \in Nat /\ Drift2(h, P, t) \in Nat
  BY <1>3, <1>5, DriftType
<1>7. /\ Punctual(k, Q, t) = Punctual(h, P, t) =>
              Drift(k, Q, t) = Drift(h, P, t) /\ Drift2(k, Q, t) = Drift2(h, P, t)
      /\ Punctual(k, Q, t) = Punctual(h, P, t) \cup {new} =>
              LET delay == DelayOf(k, Q, new)
              IN  /\ Drift(k, Q, t) = Drift(h, P, t) + delay
                  /\ Drift2(k, Q, t) = Drift2(h, P, t) + delay * delay
  BY DriftGrows
<1>8. Punctual(k, Q, t) = IF x.t = t /\ DelayOf(k, Q, new) <= TSeq
                            THEN Punctual(h, P, t) \cup {new} ELSE Punctual(h, P, t)
  BY PunctualKnown
<1> QED
  BY <1>6, <1>7, <1>8

(* The sequence number and the time of the copy x.                         *)
SeqOf(x) == Plus(FirstSeq, x.n)
TimeOf(x) == (StartTime + x.at) % SeqMod

(* Times are numbers.                                                      *)
LEMMA TimeType ==
  ASSUME NEW n \in Nat
  PROVE  (StartTime + n) % SeqMod \in SeqNums
BY HalfAssumption, DiagnosticsAssumption DEF SeqNums, SeqMod

(* The fields of diagnostic data.                                          *)
LEMMA DiagnosticsFields ==
  ASSUME NEW e \in Diagnostics
  PROVE  /\ e.window \in Seq(Timestamp) /\ Len(e.window) <= NDiagnosis
         /\ e.tDrift \in [Transports -> Nat] /\ e.tDrift2 \in [Transports -> Nat]
BY DEF Diagnostics

(* Data of the right fields.                                               *)
LEMMA DiagnosticsOf ==
  ASSUME NEW w \in Seq(Timestamp), Len(w) <= NDiagnosis,
         NEW f \in [Transports -> Nat], NEW g \in [Transports -> Nat]
  PROVE  [window |-> w, tDrift |-> f, tDrift2 |-> g] \in Diagnostics
BY DEF Diagnostics

(* A message that is heard for the first time since the report.            *)
LEMMA FirstMatches ==
  ASSUME NEW h, NEW P, NEW x, NEW k, NEW new, NEW Q, Grows(h, P, x, k, new, Q),
         NEW e \in Diagnostics, Matching(e, h, P), ~ WindowFull(e),
         x.n \notin NumbersOf(h, P)
  PROVE  /\ ReceivedFirst(e, x.t, SeqOf(x), TimeOf(x)) \in Diagnostics
         /\ Matching(ReceivedFirst(e, x.t, SeqOf(x), TimeOf(x)), k, Q)
<1> DEFINE y == [seq |-> SeqOf(x), time |-> TimeOf(x), received |-> {x.t}]
           w == Append(e.window, y)
           r == ReceivedFirst(e, x.t, SeqOf(x), TimeOf(x))
<1>1. /\ e.window \in Seq(Timestamp) /\ Len(e.window) <= NDiagnosis
      /\ e.tDrift \in [Transports -> Nat] /\ e.tDrift2 \in [Transports -> Nat]
      /\ NDiagnosis \in Nat /\ ~ (Len(e.window) >= NDiagnosis)
  BY DiagnosticsFields, DiagnosticsAssumption DEF WindowFull
<1>2. r = [window |-> w, tDrift |-> e.tDrift, tDrift2 |-> e.tDrift2]
  <2>1. r = [e EXCEPT !.window = w]
    BY DEF ReceivedFirst
  <2> HIDE DEF w
  <2> QED
    BY <2>1 DEF Diagnostics
<1>3. /\ x.n \in Payloads /\ x.at \in Nat /\ x.t \in Transports
      /\ DelayOf(k, Q, new) = 0
      /\ \A t : Punctual(k, Q, t) =
                  IF x.t = t /\ DelayOf(k, Q, new) <= TSeq
                    THEN Punctual(h, P, t) \cup {new} ELSE Punctual(h, P, t)
  BY PunctualKnown
<1>4. /\ h \in Seq(Copy) /\ P \in SUBSET DOMAIN h /\ k[new] = x
      /\ \A i \in DOMAIN h : k[i] = h[i]
      /\ NumbersOf(k, Q) = NumbersOf(h, P) \cup {x.n}
      /\ FirstOf(k, Q, x.n) = new
  <2>1. Grown(h, P, x, k, new, Q)
    BY HistoryGrows
  <2> QED
    BY <2>1 DEF Grown, History
<1>5. /\ SeqOf(x) \in SeqNums /\ Minus(SeqOf(x), FirstSeq) = x.n
      /\ TimeOf(x) \in SeqNums
  BY <1>3, NumberKnown, TimeType DEF SeqOf, TimeOf
<1>6. y \in Timestamp
  BY <1>3, <1>5 DEF Timestamp
<1>7. /\ DOMAIN w = DOMAIN e.window \cup {Len(e.window) + 1}
      /\ \A i \in DOMAIN e.window : w[i] = e.window[i]
      /\ w[Len(e.window) + 1] = y
      /\ w \in Seq(Timestamp) /\ Len(w) <= NDiagnosis
  <2> HIDE DEF y
  <2> QED
    BY <1>1, <1>6
<1>8. y.seq = SeqOf(x) /\ y.time = TimeOf(x) /\ y.received = {x.t} /\ Number(y) = x.n
  BY <1>5 DEF Number
<1> HIDE DEF y, w, r
<1>9. r \in Diagnostics
  BY <1>1, <1>2, <1>7, DiagnosticsOf
<1>10. /\ \A i, j \in DOMAIN e.window : e.window[i].seq = e.window[j].seq => i = j
       /\ \A i \in DOMAIN e.window : EntryMatches(e.window[i], h, P)
       /\ \A n \in NumbersOf(h, P) :
            \E i \in DOMAIN e.window : e.window[i].seq = Plus(FirstSeq, n)
       /\ \A t \in Transports : e.tDrift[t] = Drift(h, P, t) /\ e.tDrift2[t] = Drift2(h, P, t)
  BY DEF Matching
<1>11. \A i \in DOMAIN e.window : Number(e.window[i]) # x.n
  BY <1>10 DEF EntryMatches
<1>12. \A i \in DOMAIN e.window : e.window[i].seq # y.seq
  BY <1>8, <1>11 DEF Number
<1>13. \A i, j \in DOMAIN w : w[i].seq = w[j].seq => i = j
  BY <1>7, <1>10, <1>12
<1>14. ASSUME NEW i \in DOMAIN e.window
       PROVE  EntryMatches(w[i], k, Q)
  <2>1. EntryMatches(e.window[i], h, P) /\ w[i] = e.window[i] /\ Number(w[i]) # x.n
    BY <1>7, <1>10, <1>11
  <2> QED
    BY <2>1, EntryGrows
<1>15. EntryMatches(y, k, Q)
  <2>1. Number(y) \in NumbersOf(k, Q)
    BY <1>4, <1>8
  <2>2. y.time = (StartTime + k[FirstOf(k, Q, Number(y))].at) % SeqMod
    BY <1>4, <1>8 DEF TimeOf
  <2>3. ASSUME NEW t \in Transports
        PROVE  t \in y.received <=> \E i \in Punctual(k, Q, t) : k[i].n = Number(y)
    <3>1. \A i \in Punctual(h, P, t) : k[i].n # x.n
      <4>1. \A i \in P : k[i] = h[i] /\ h[i].n # x.n
        BY <1>4 DEF NumbersOf
      <4> QED
        BY <4>1 DEF Punctual
    <3>2. 0 <= TSeq
      BY RedChannelAssumption
    <3>3. Punctual(k, Q, t) =
            IF x.t = t THEN Punctual(h, P, t) \cup {new} ELSE Punctual(h, P, t)
      BY <1>3, <3>2
    <3> QED
      BY <1>4, <1>8, <3>1, <3>3
  <2> QED
    BY <2>1, <2>2, <2>3 DEF EntryMatches
<1>16. \A i \in DOMAIN w : EntryMatches(w[i], k, Q)
  BY <1>7, <1>14, <1>15
<1>17. \A n \in NumbersOf(k, Q) : \E i \in DOMAIN w : w[i].seq = Plus(FirstSeq, n)
  BY <1>4, <1>7, <1>8, <1>10 DEF SeqOf
<1>18. ASSUME NEW t \in Transports
       PROVE  e.tDrift[t] = Drift(k, Q, t) /\ e.tDrift2[t] = Drift2(k, Q, t)
  <2> DEFINE delay == IF x.t = t /\ DelayOf(k, Q, new) <= TSeq THEN DelayOf(k, Q, new) ELSE 0
  <2>1. delay = 0
    BY <1>3
  <2>2. /\ Drift(k, Q, t) = Drift(h, P, t) + delay
        /\ Drift2(k, Q, t) = Drift2(h, P, t) + delay * delay
        /\ Drift(h, P, t) \in Nat /\ Drift2(h, P, t) \in Nat
    BY SumsGrow
  <2> HIDE DEF delay
  <2> QED
    BY <1>10, <2>1, <2>2
<1>19. r.window = w /\ r.tDrift = e.tDrift /\ r.tDrift2 = e.tDrift2
  BY <1>2
<1>20. Matching(r, k, Q)
  BY <1>13, <1>16, <1>17, <1>18, <1>19 DEF Matching
<1> QED
  BY <1>9, <1>20 DEF r

(* The delay of a copy is the distance of the times.                       *)
LEMMA DelayKnown ==
  ASSUME NEW m \in Nat, NEW n \in Nat, n <= m, m < SeqMod
  PROVE  Minus((StartTime + m) % SeqMod, (StartTime + n) % SeqMod) = m - n
<1> DEFINE a == StartTime + m
           b == StartTime + n
<1>1. /\ SeqMod \in Nat /\ SeqMod > 0 /\ a \in Int /\ b \in Int
      /\ a - b < SeqMod /\ b - a < SeqMod /\ a >= b /\ a - b = m - n
  BY HalfAssumption, DiagnosticsAssumption DEF SeqMod, SeqNums
<1> HIDE DEF a, b
<1>2. (IF (a % SeqMod) >= (b % SeqMod) THEN (a % SeqMod) - (b % SeqMod)
         ELSE (a % SeqMod) - (b % SeqMod) + SeqMod)
        = IF a >= b THEN a - b ELSE a - b + SeqMod
  BY <1>1, RemainderDistance
<1>3. Minus(a % SeqMod, b % SeqMod) = m - n
  BY <1>1, <1>2 DEF Minus
<1> QED
  BY <1>3 DEF a, b

(* A message that was heard since the report.                              *)
LEMMA AgainMatches ==
  ASSUME NEW h, NEW P, NEW x, NEW k, NEW new, NEW Q, Grows(h, P, x, k, new, Q),
         NEW e \in Diagnostics, Matching(e, h, P), x.at < SeqMod,
         NEW i \in DOMAIN e.window, e.window[i].seq = SeqOf(x)
  PROVE  /\ ReceivedAgain(e, i, x.t, TimeOf(x)) \in Diagnostics
         /\ Matching(ReceivedAgain(e, i, x.t, TimeOf(x)), k, Q)
         /\ x.n \in NumbersOf(h, P)
<1> DEFINE delay == Minus(TimeOf(x), e.window[i].time)
           intime == DelayOf(k, Q, new) <= TSeq
           r == ReceivedAgain(e, i, x.t, TimeOf(x))
           f == FirstOf(h, P, x.n)
<1>1. /\ e.window \in Seq(Timestamp) /\ Len(e.window) <= NDiagnosis
      /\ e.tDrift \in [Transports -> Nat] /\ e.tDrift2 \in [Transports -> Nat]
      /\ TSeq \in Nat
  BY DiagnosticsFields, RedChannelAssumption
<1>2. /\ \A j, l \in DOMAIN e.window : e.window[j].seq = e.window[l].seq => j = l
      /\ \A j \in DOMAIN e.window : EntryMatches(e.window[j], h, P)
      /\ \A n \in NumbersOf(h, P) :
           \E j \in DOMAIN e.window : e.window[j].seq = Plus(FirstSeq, n)
      /\ \A t \in Transports : e.tDrift[t] = Drift(h, P, t) /\ e.tDrift2[t] = Drift2(h, P, t)
  BY DEF Matching
<1>3. x.n \in Payloads /\ x.at \in Nat /\ x.t \in Transports /\ DelayOf(k, Q, new) \in Nat
  BY PunctualKnown
<1>4. Number(e.window[i]) = x.n
  BY <1>3, NumberKnown DEF Number, SeqOf
<1>5. x.n \in NumbersOf(h, P) /\ e.window[i].time = (StartTime + h[f].at) % SeqMod
  BY <1>2, <1>4 DEF EntryMatches
<1>6. h[f].at \in Nat /\ DelayOf(k, Q, new) = x.at - h[f].at
  BY <1>5, PunctualKnown
<1>7. delay = DelayOf(k, Q, new)
  <2> HIDE DEF f
  <2>1. h[f].at <= x.at
    BY <1>3, <1>6
  <2>2. Minus((StartTime + x.at) % SeqMod, (StartTime + h[f].at) % SeqMod) = x.at - h[f].at
    BY <1>3, <1>6, <2>1, DelayKnown
  <2> QED
    BY <1>5, <1>6, <2>2 DEF TimeOf
<1>8. /\ NumbersOf(k, Q) = NumbersOf(h, P)
      /\ h \in Seq(Copy) /\ P \in SUBSET DOMAIN h
  <2>1. Grown(h, P, x, k, new, Q)
    BY HistoryGrows
  <2>2. NumbersOf(k, Q) = NumbersOf(h, P) \cup {x.n}
    BY <2>1 DEF Grown
  <2>3. History(h) /\ P \in SUBSET DOMAIN h
    BY DEF Grows
  <2>4. x.n \in NumbersOf(h, P)
    BY <1>5
  <2>5. NumbersOf(h, P) \cup {x.n} = NumbersOf(h, P)
    BY <2>4
  <2> QED
    BY <2>2, <2>3, <2>5 DEF History
<1>9. \A t : LET more == IF x.t = t /\ intime THEN DelayOf(k, Q, new) ELSE 0
             IN  /\ Drift(k, Q, t) = Drift(h, P, t) + more
                 /\ Drift2(k, Q, t) = Drift2(h, P, t) + more * more
                 /\ Drift(h, P, t) \in Nat /\ Drift2(h, P, t) \in Nat
  BY SumsGrow
<1>10. ASSUME NEW j \in DOMAIN e.window, j # i
       PROVE  Number(e.window[j]) # x.n
  <2>1. Number(e.window[j]) = x.n => e.window[j].seq = SeqOf(x)
    <3>1. e.window[j].seq \in SeqNums
      <4>1. e.window[j] \in Timestamp
        BY <1>1
      <4> QED
        BY <4>1 DEF Timestamp
    <3> QED
      BY <1>3, <3>1, NumberKnown DEF Number, SeqOf
  <2> QED
    BY <1>2, <1>10, <2>1
<1>11. CASE ~ intime
  <2>1. r = e
    <3>1. delay > TSeq
      BY <1>1, <1>3, <1>7, <1>11
    <3> QED
      BY <3>1 DEF ReceivedAgain
  <2>2. ASSUME NEW j \in DOMAIN e.window
        PROVE  EntryMatches(e.window[j], k, Q)
    <3>1. EntryMatches(e.window[j], h, P)
      BY <1>2
    <3> HIDE DEF delay, r, f
    <3> QED
      BY <1>11, <3>1, EntryGrows
  <2>3. \A t \in Transports : e.tDrift[t] = Drift(k, Q, t) /\ e.tDrift2[t] = Drift2(k, Q, t)
    <3> HIDE DEF intime
    <3> QED
      BY <1>2, <1>9, <1>11
  <2>4. Matching(e, k, Q)
    BY <1>2, <1>8, <2>2, <2>3 DEF Matching
  <2> QED
    BY <1>5, <2>1, <2>4
<1>12. CASE intime
  <2> DEFINE y == [e.window[i] EXCEPT !.received = @ \cup {x.t}]
             w == [e.window EXCEPT ![i] = y]
             d1 == [e.tDrift EXCEPT ![x.t] = @ + delay]
             d2 == [e.tDrift2 EXCEPT ![x.t] = @ + delay * delay]
  <2>1. r = [window |-> w, tDrift |-> d1, tDrift2 |-> d2]
    <3>1. ~ (delay > TSeq)
      BY <1>1, <1>3, <1>7, <1>12
    <3>2. r = [e EXCEPT !.tDrift[x.t] = @ + delay, !.tDrift2[x.t] = @ + delay * delay,
                        !.window[i].received = @ \cup {x.t}]
      BY <3>1 DEF ReceivedAgain
    <3> HIDE DEF delay, r
    <3> QED
      BY <3>2 DEF Diagnostics
  <2>2. delay \in Nat /\ delay * delay \in Nat
    <3>1. \A a \in Nat : a * a \in Nat
      OBVIOUS
    <3> QED
      BY <1>3, <1>7, <3>1
  <2>3. d1 \in [Transports -> Nat] /\ d2 \in [Transports -> Nat]
    <3> DEFINE square == delay * delay
    <3>1. delay \in Nat /\ square \in Nat
      BY <2>2
    <3> HIDE DEF delay, square
    <3>2. /\ [e.tDrift EXCEPT ![x.t] = @ + delay] \in [Transports -> Nat]
          /\ [e.tDrift2 EXCEPT ![x.t] = @ + square] \in [Transports -> Nat]
      BY <1>1, <1>3, <3>1
    <3> QED
      BY <3>2 DEF square
  <2>4. e.window[i] \in Timestamp
    BY <1>1
  <2>5. /\ y \in Timestamp /\ y.seq = e.window[i].seq /\ y.time = e.window[i].time
        /\ y.received = e.window[i].received \cup {x.t} /\ Number(y) = x.n
    BY <1>3, <1>4, <2>4 DEF Timestamp, Number
  <2>6. /\ w \in Seq(Timestamp) /\ Len(w) <= NDiagnosis /\ DOMAIN w = DOMAIN e.window
        /\ w[i] = y /\ \A j \in DOMAIN e.window : j # i => w[j] = e.window[j]
    <3> HIDE DEF y
    <3> QED
      BY <1>1, <2>5
  <2>7. \A t \in Transports :
          /\ d1[t] = IF t = x.t THEN e.tDrift[t] + delay ELSE e.tDrift[t]
          /\ d2[t] = IF t = x.t THEN e.tDrift2[t] + delay * delay ELSE e.tDrift2[t]
    <3> HIDE DEF delay
    <3> QED
      BY <1>1
  <2> HIDE DEF y, w, d1, d2, r
  <2>8. r \in Diagnostics
    BY <2>1, <2>3, <2>6, DiagnosticsOf
  <2>9. \A j \in DOMAIN e.window : w[j].seq = e.window[j].seq
    BY <2>5, <2>6
  <2>10. \A j, l \in DOMAIN w : w[j].seq = w[l].seq => j = l
    BY <1>2, <2>6, <2>9
  <2>11. ASSUME NEW j \in DOMAIN w
         PROVE  EntryMatches(w[j], k, Q)
    <3>1. EntryMatches(e.window[j], h, P) /\ j \in DOMAIN e.window
      BY <1>2, <2>6
    <3>2. CASE j = i
      <4>1. \A t \in Transports : t \in y.received <=>
              t \in e.window[i].received \/ (t = x.t /\ Number(e.window[i]) = x.n
                                             /\ DelayOf(k, Q, new) <= TSeq)
        BY <1>4, <1>12, <2>5
      <4>2. EntryMatches(y, k, Q)
        <5>1. EntryMatches(e.window[i], h, P) /\ y.seq = e.window[i].seq
              /\ y.time = e.window[i].time
          BY <2>5, <3>1, <3>2
        <5> HIDE DEF delay, f, intime
        <5> QED
          BY <4>1, <5>1, EntryGrows
      <4> QED
        BY <2>6, <3>2, <4>2
    <3>3. CASE j # i
      <4>1. Number(e.window[j]) # x.n /\ w[j] = e.window[j]
        BY <1>10, <2>6, <3>1, <3>3
      <4> HIDE DEF delay, f, intime
      <4> QED
        BY <3>1, <4>1, EntryGrows
    <3> QED
      BY <3>2, <3>3
  <2>12. \A n \in NumbersOf(k, Q) : \E j \in DOMAIN w : w[j].seq = Plus(FirstSeq, n)
    BY <1>2, <1>8, <2>6, <2>9
  <2>13. ASSUME NEW t \in Transports
         PROVE  d1[t] = Drift(k, Q, t) /\ d2[t] = Drift2(k, Q, t)
    <3> DEFINE more == IF x.t = t /\ intime THEN DelayOf(k, Q, new) ELSE 0
    <3>1. more = IF t = x.t THEN delay ELSE 0
      BY <1>7, <1>12
    <3>2. /\ Drift(k, Q, t) = Drift(h, P, t) + more
          /\ Drift2(k, Q, t) = Drift2(h, P, t) + more * more
          /\ Drift(h, P, t) \in Nat /\ Drift2(h, P, t) \in Nat
      BY <1>9
    <3> HIDE DEF more, delay
    <3>3. e.tDrift[t] = Drift(h, P, t) /\ e.tDrift2[t] = Drift2(h, P, t)
      BY <1>2
    <3> QED
      BY <2>7, <3>1, <3>2, <3>3
  <2>14. r.window = w /\ r.tDrift = d1 /\ r.tDrift2 = d2
    BY <2>1
  <2>15. Matching(r, k, Q)
    BY <2>10, <2>11, <2>12, <2>13, <2>14 DEF Matching
  <2> QED
    BY <1>5, <2>8, <2>15 DEF r
<1> QED
  BY <1>11, <1>12

(* Nothing is in the data of nothing.                                      *)
LEMMA InitialMatches ==
  ASSUME NEW h, NEW P, P = {}
  PROVE  InitDiagnostics \in Diagnostics /\ Matching(InitDiagnostics, h, P)
<1>1. /\ InitDiagnostics.window = <<>>
      /\ \A t \in Transports : InitDiagnostics.tDrift[t] = 0 /\ InitDiagnostics.tDrift2[t] = 0
  BY DEF InitDiagnostics
<1>2. \A t : Drift(h, P, t) = 0 /\ Drift2(h, P, t) = 0
  BY DriftOfNone
<1>3. NumbersOf(h, P) = {}
  BY DEF NumbersOf
<1>4. InitDiagnostics \in Diagnostics
  BY DiagnosticsAssumption DEF InitDiagnostics, Diagnostics
<1> QED
  BY <1>1, <1>2, <1>3, <1>4 DEF Matching

(* What reddia_UpdateRedundancyChannelDiagnostics does with the copy x of  *)
(* the history k, of which the last report saw the first s copies.         *)
LEMMA UpdateMatches ==
  ASSUME NEW h, History(h), NEW s \in 0 .. Len(h), NEW x \in Copy,
         \A i \in DOMAIN h : h[i].at <= x.at, x.at < SeqMod,
         NEW e \in Diagnostics, Matching(e, h, After(h, s)),
         NEW reports, reports = (Stored(e, SeqOf(x)) = {} /\ WindowFull(e)),
         NEW z, z = IF reports THEN Len(h) ELSE s
  PROVE  /\ UpdateDiagnostics(e, x.t, SeqOf(x), TimeOf(x)) \in Diagnostics
         /\ Matching(UpdateDiagnostics(e, x.t, SeqOf(x), TimeOf(x)),
                     Append(h, x), After(Append(h, x), z))
         /\ History(Append(h, x)) /\ z \in 0 .. Len(Append(h, x))
<1> DEFINE k == Append(h, x)
           new == Len(h) + 1
           P == After(h, IF reports THEN Len(h) ELSE s)
           Q == P \cup {new}
           base == IF reports THEN InitDiagnostics ELSE e
<1>1. h \in Seq(Copy) /\ Len(h) \in Nat /\ Len(k) = Len(h) + 1
  BY DEF History
<1>2. P \in SUBSET DOMAIN h /\ Q = After(k, z) /\ z \in 0 .. Len(k)
  <2> HIDE DEF k
  <2> QED
    BY <1>1 DEF After
<1>3. Grows(h, P, x, k, new, Q)
  BY <1>2 DEF Grows
<1>4. History(k)
  <2>1. Grown(h, P, x, k, new, Q)
    BY <1>3, HistoryGrows
  <2> QED
    BY <2>1 DEF Grown
<1>5. base \in Diagnostics /\ Matching(base, h, P)
  <2>1. CASE reports
    <3>1. P = {}
      BY <1>1, <2>1 DEF After
    <3> HIDE DEF P
    <3> QED
      BY <2>1, <3>1, InitialMatches
  <2>2. CASE ~ reports
    BY <2>2
  <2> QED
    BY <2>1, <2>2
<1>6. SeqOf(x) \in SeqNums /\ x.n \in Payloads
  BY <1>3, PunctualKnown, NumberKnown DEF SeqOf
<1> HIDE DEF P, Q, k, new
<1>7. CASE Stored(e, SeqOf(x)) = {}
  <2>1. Stored(base, SeqOf(x)) = {} /\ ~ WindowFull(base)
    <3>1. CASE reports
      <4>1. base.window = <<>>
        BY <3>1 DEF InitDiagnostics
      <4> HIDE DEF base
      <4> QED
        BY <4>1, DiagnosticsAssumption DEF Stored, WindowFull
    <3>2. CASE ~ reports
      BY <1>7, <3>2
    <3> QED
      BY <3>1, <3>2
  <2>2. x.n \notin NumbersOf(h, P)
    <3> HIDE DEF base
    <3>1. \A n \in NumbersOf(h, P) :
            \E i \in DOMAIN base.window : base.window[i].seq = Plus(FirstSeq, n)
      BY <1>5 DEF Matching
    <3> QED
      BY <2>1, <3>1 DEF Stored, SeqOf
  <2>3. UpdateDiagnostics(e, x.t, SeqOf(x), TimeOf(x))
          = ReceivedFirst(base, x.t, SeqOf(x), TimeOf(x))
    <3>1. UpdateDiagnostics(e, x.t, SeqOf(x), TimeOf(x))
            = ReceivedFirst(e, x.t, SeqOf(x), TimeOf(x))
      BY <1>7 DEF UpdateDiagnostics
    <3>2. reports <=> WindowFull(e)
      BY <1>7
    <3> QED
      BY <2>1, <3>1, <3>2 DEF ReceivedFirst
  <2> HIDE DEF base
  <2>4. /\ ReceivedFirst(base, x.t, SeqOf(x), TimeOf(x)) \in Diagnostics
        /\ Matching(ReceivedFirst(base, x.t, SeqOf(x), TimeOf(x)), k, Q)
    BY <1>3, <1>5, <2>1, <2>2, FirstMatches
  <2> QED
    BY <1>2, <1>4, <2>3, <2>4 DEF k
<1>8. CASE Stored(e, SeqOf(x)) # {}
  <2> DEFINE i == Max(Stored(e, SeqOf(x)))
  <2>1. ~ reports /\ base = e
    BY <1>8
  <2>2. /\ \A j, l \in DOMAIN e.window : e.window[j].seq = e.window[l].seq => j = l
        /\ DOMAIN e.window \subseteq Nat
    <3>1. e.window \in Seq(Timestamp)
      BY DiagnosticsFields
    <3> QED
      BY <3>1 DEF Matching
  <2>3. PICK j \in DOMAIN e.window : Stored(e, SeqOf(x)) = {j}
    BY <1>8, <2>2 DEF Stored
  <2>4. i = j
    <3>1. \E m \in {j} : \A l \in {j} : m >= l
      BY <2>2
    <3>2. Max({j}) \in {j}
      BY <3>1 DEF Max
    <3> QED
      BY <2>3, <3>2
  <2>5. i \in DOMAIN e.window /\ e.window[i].seq = SeqOf(x)
    BY <2>3, <2>4 DEF Stored
  <2>6. UpdateDiagnostics(e, x.t, SeqOf(x), TimeOf(x))
          = ReceivedAgain(e, i, x.t, TimeOf(x))
    BY <1>8 DEF UpdateDiagnostics
  <2> HIDE DEF i
  <2>7. /\ ReceivedAgain(e, i, x.t, TimeOf(x)) \in Diagnostics
        /\ Matching(ReceivedAgain(e, i, x.t, TimeOf(x)), k, Q)
    BY <1>3, <1>5, <2>1, <2>5, AgainMatches
  <2> QED
    BY <1>2, <1>4, <2>6, <2>7 DEF k
<1> QED
  BY <1>7, <1>8

-----------------------------------------------------------------------------
(* The invariant.                                                          *)

(* The data e is that of the history h at the time n, whose first s copies *)
(* are reported.                                                           *)
Told(e, h, s, n) ==
  /\ History(h) /\ \A i \in DOMAIN h : h[i].at <= n
  /\ s \in 0 .. Len(h)
  /\ e \in Diagnostics /\ Matching(e, h, After(h, s))

(* The copies that are on the way are the peer's.                          *)
Carried(m) ==
  /\ m \in [Transports -> Seq(PDU)]
  /\ \A t \in Transports : \A i \in DOMAIN m[t] :
       m[t][i].seq = Plus(FirstSeq, m[t][i].payload)

IInv ==
  /\ ChannelInv(ch)
  /\ Carried(net) /\ sent \in Nat
  /\ ticks \in 0 .. MaxTicks
  /\ Told(diag, heard, since, ticks)

(* Nothing is told of nothing.                                             *)
LEMMA NothingTold ==
  ASSUME NEW n \in Nat
  PROVE  Told(InitDiagnostics, <<>>, 0, n)
<1>1. After(<<>>, 0) = {} /\ History(<<>>)
  BY DEF After, History
<1>2. InitDiagnostics \in Diagnostics /\ Matching(InitDiagnostics, <<>>, After(<<>>, 0))
  BY <1>1, InitialMatches
<1> QED
  BY <1>1, <1>2 DEF Told

(* A copy is taken from a transport channel.                               *)
LEMMA TailCarried ==
  ASSUME NEW m, Carried(m), NEW t \in Transports, m[t] # <<>>
  PROVE  /\ Carried([m EXCEPT ![t] = Tail(@)])
         /\ Head(m[t]) \in PDU /\ Head(m[t]).seq = Plus(FirstSeq, Head(m[t]).payload)
<1> DEFINE q == m[t]
           r == [m EXCEPT ![t] = Tail(@)]
<1>1. /\ m \in [Transports -> Seq(PDU)] /\ q \in Seq(PDU) /\ q # <<>>
      /\ \A u \in Transports : \A i \in DOMAIN m[u] :
           m[u][i].seq = Plus(FirstSeq, m[u][i].payload)
  BY DEF Carried
<1>2. /\ Tail(q) \in Seq(PDU) /\ Head(q) \in PDU /\ Head(q) = q[1] /\ 1 \in DOMAIN q
      /\ \A i \in DOMAIN Tail(q) : i + 1 \in DOMAIN q /\ Tail(q)[i] = q[i + 1]
  <2> HIDE DEF q
  <2> QED
    BY <1>1
<1>3. /\ r \in [Transports -> Seq(PDU)] /\ r[t] = Tail(q)
      /\ \A u \in Transports : u # t => r[u] = m[u]
  BY <1>1, <1>2
<1>4. \A i \in DOMAIN q : q[i].seq = Plus(FirstSeq, q[i].payload)
  BY <1>1
<1> HIDE DEF r, q
<1>5. ASSUME NEW u \in Transports, NEW i \in DOMAIN r[u]
      PROVE  r[u][i].seq = Plus(FirstSeq, r[u][i].payload)
  <2>1. CASE u = t
    BY <1>2, <1>3, <1>4, <1>5, <2>1
  <2>2. CASE u # t
    BY <1>1, <1>3, <1>5, <2>2
  <2> QED
    BY <2>1, <2>2
<1>6. Carried(r)
  BY <1>3, <1>5 DEF Carried
<1> QED
  BY <1>2, <1>4, <1>6 DEF r, q

(* The peer sends.                                                         *)
LEMMA SentCarried ==
  ASSUME NEW m, Carried(m), NEW n \in Payloads
  PROVE  Carried([t \in Transports |->
           Append(m[t], [seq |-> Plus(FirstSeq, n), payload |-> n, crcOk |-> TRUE])])
<1> DEFINE p == [seq |-> Plus(FirstSeq, n), payload |-> n, crcOk |-> TRUE]
           r == [t \in Transports |-> Append(m[t], p)]
<1>1. p \in PDU /\ p.seq = Plus(FirstSeq, p.payload)
  BY NumberKnown DEF PDU
<1> HIDE DEF p
<1>2. /\ m \in [Transports -> Seq(PDU)]
      /\ \A u \in Transports : \A i \in DOMAIN m[u] :
           m[u][i].seq = Plus(FirstSeq, m[u][i].payload)
  BY DEF Carried
<1>3. r \in [Transports -> Seq(PDU)]
  BY <1>1, <1>2
<1>4. ASSUME NEW u \in Transports, NEW i \in DOMAIN r[u]
      PROVE  r[u][i].seq = Plus(FirstSeq, r[u][i].payload)
  <2> DEFINE q == m[u]
  <2>1. q \in Seq(PDU) /\ \A j \in DOMAIN q : q[j].seq = Plus(FirstSeq, q[j].payload)
    BY <1>2
  <2>2. r[u] = Append(q, p)
    OBVIOUS
  <2> HIDE DEF q, r
  <2>3. (i \in DOMAIN q /\ r[u][i] = q[i]) \/ r[u][i] = p
    BY <1>1, <1>4, <2>1, <2>2
  <2> QED
    BY <1>1, <2>1, <2>3
<1> HIDE DEF r
<1>5. Carried(r)
  BY <1>3, <1>4 DEF Carried
<1> QED
  BY <1>5 DEF r, p

(* Initially nothing is carried and nothing told.                          *)
LEMMA InitIInv == ASSUME Init PROVE IInv
<1>1. ChannelInv(ch)
  BY InitialChannelInv DEF Init
<1>2. Carried(net)
  <2>1. net = [t \in Transports |-> <<>>]
    BY DEF Init
  <2> QED
    BY <2>1 DEF Carried
<1>3. sent \in Nat /\ ticks \in 0 .. MaxTicks
  BY DiagnosticsAssumption DEF Init
<1>4. Told(diag, heard, since, ticks)
  BY NothingTold DEF Init
<1> QED
  BY <1>1, <1>2, <1>3, <1>4 DEF IInv

(* What a received copy does to the channel and to its diagnostics.        *)
LEMMA ReceiveKeeps ==
  ASSUME IInv, NEW t \in Transports, NEW pdu \in PDU,
         pdu.seq = Plus(FirstSeq, pdu.payload), Receive(t, pdu)
  PROVE  ChannelInv(ch)' /\ Told(diag, heard, since, ticks)'
<1>1. ChannelInv(ch) /\ Told(diag, heard, since, ticks) /\ ticks \in 0 .. MaxTicks
  BY DEF IInv
<1>2. ChannelInv(ReceiveData(ch, pdu))
  <2>1. CASE ch.state = "Up"
    BY <1>1, <2>1, ReceiveDataKeeps DEF Receive
  <2>2. CASE ch.state # "Up"
    BY <1>1, <2>2 DEF ReceiveData
  <2> QED
    BY <2>1, <2>2
<1>3. ChannelInv(ch)'
  BY <1>2 DEF Receive
<1>4. CASE ~ IsDiagnosed(ch, pdu)
  <2>1. UNCHANGED <<diag, since, heard, ticks>>
    BY <1>4 DEF Receive
  <2> QED
    BY <1>1, <1>3, <2>1
<1>5. CASE IsDiagnosed(ch, pdu)
  <2> DEFINE x == [t |-> t, n |-> pdu.payload, at |-> ticks]
             reports == Stored(diag, pdu.seq) = {} /\ WindowFull(diag)
             z == IF reports THEN Len(heard) ELSE since
  <2>1. /\ diag' = UpdateDiagnostics(diag, t, pdu.seq, Now)
        /\ since' = z /\ heard' = Append(heard, x) /\ ticks' = ticks
    BY <1>5 DEF Receive
  <2>2. /\ x \in Copy /\ x.t = t /\ x.at = ticks /\ SeqOf(x) = pdu.seq /\ TimeOf(x) = Now
    <3>1. pdu.payload \in Payloads
      BY DEF PDU
    <3> QED
      BY <1>1, <3>1 DEF Copy, SeqOf, TimeOf, Now
  <2>3. x.at < SeqMod /\ \A i \in DOMAIN heard : heard[i].at <= x.at
    <3>1. ticks < SeqMod
      BY <1>1, HalfAssumption, DiagnosticsAssumption DEF SeqMod
    <3> QED
      BY <1>1, <2>2, <3>1 DEF Told
  <2> HIDE DEF x
  <2>4. /\ History(heard) /\ since \in 0 .. Len(heard)
        /\ diag \in Diagnostics /\ Matching(diag, heard, After(heard, since))
        /\ \A i \in DOMAIN heard : heard[i].at <= ticks
    BY <1>1 DEF Told
  <2>5. reports = (Stored(diag, SeqOf(x)) = {} /\ WindowFull(diag))
    BY <2>2
  <2>6. z = IF reports THEN Len(heard) ELSE since
    OBVIOUS
  <2> HIDE DEF z, reports
  <2>7. /\ UpdateDiagnostics(diag, x.t, SeqOf(x), TimeOf(x)) \in Diagnostics
        /\ Matching(UpdateDiagnostics(diag, x.t, SeqOf(x), TimeOf(x)),
                    Append(heard, x), After(Append(heard, x), z))
        /\ History(Append(heard, x)) /\ z \in 0 .. Len(Append(heard, x))
    BY <2>2, <2>3, <2>4, <2>5, <2>6, UpdateMatches
  <2>8. \A i \in DOMAIN Append(heard, x) : Append(heard, x)[i].at <= ticks
    <3>1. heard \in Seq(Copy)
      BY <2>4 DEF History
    <3>2. \A i \in DOMAIN Append(heard, x) :
            (i \in DOMAIN heard /\ Append(heard, x)[i] = heard[i]) \/ Append(heard, x)[i] = x
      BY <2>2, <3>1
    <3>3. x.at <= ticks
      BY <1>1, <2>2
    <3> QED
      BY <2>4, <3>2, <3>3
  <2>9. Told(UpdateDiagnostics(diag, x.t, SeqOf(x), TimeOf(x)), Append(heard, x), z, ticks)
    BY <2>7, <2>8 DEF Told
  <2> QED
    BY <1>3, <2>1, <2>2, <2>9
<1> QED
  BY <1>4, <1>5

(* Every step keeps it.                                                    *)
LEMMA NextIInv == ASSUME IInv, [Next]_vars PROVE IInv'
<1>1. /\ ChannelInv(ch) /\ Carried(net) /\ sent \in Nat /\ ticks \in 0 .. MaxTicks
      /\ Told(diag, heard, since, ticks)
  BY DEF IInv
<1>2. ASSUME ChannelInv(ch'), UNCHANGED <<diag, net, sent, ticks, heard, since>>
      PROVE  IInv'
  BY <1>1, <1>2 DEF IInv
<1>3. CASE Open
  <2>1. ChannelInv(ch') /\ UNCHANGED <<net, sent, ticks>>
    BY <1>1, <1>3, OpenCloseKeeps DEF Open
  <2>2. Told(InitDiagnostics, <<>>, 0, ticks)
    BY <1>1, NothingTold
  <2> QED
    BY <1>1, <1>3, <2>1, <2>2 DEF Open, IInv
<1>4. CASE Close
  <2>1. ChannelInv(ch') /\ UNCHANGED <<net, sent, ticks>>
    BY <1>1, <1>4, OpenCloseKeeps DEF Close
  <2>2. Told(InitDiagnostics, <<>>, 0, ticks)
    BY <1>1, NothingTold
  <2> QED
    BY <1>1, <1>4, <2>1, <2>2 DEF Close, IInv
<1>5. CASE Send
  BY <1>1, <1>2, <1>5, SendKeeps DEF Send
<1>6. CASE Read
  BY <1>1, <1>2, <1>6, ReadKeeps DEF Read
<1>7. CASE PeerSend
  <2>1. sent \in Payloads /\ sent' \in Nat
    BY <1>1, <1>7, DiagnosticsAssumption DEF PeerSend
  <2>2. Carried(net')
    BY <1>1, <1>7, <2>1, SentCarried DEF PeerSend
  <2> QED
    BY <1>1, <1>7, <2>1, <2>2 DEF PeerSend, IInv
<1>8. ASSUME NEW t \in Transports, Lose(t)
      PROVE  IInv'
  <2>1. Carried(net')
    BY <1>1, <1>8, TailCarried DEF Lose
  <2> QED
    BY <1>1, <1>8, <2>1 DEF Lose, IInv
<1>9. ASSUME NEW t \in Transports, net[t] # <<>>, Receive(t, Head(net[t])), Carried(net')
      PROVE  IInv'
  <2>1. Head(net[t]) \in PDU /\ Head(net[t]).seq = Plus(FirstSeq, Head(net[t]).payload)
    BY <1>1, <1>9, TailCarried
  <2>2. ChannelInv(ch)' /\ Told(diag, heard, since, ticks)'
    BY <1>9, <2>1, ReceiveKeeps
  <2>3. sent' = sent /\ ticks' = ticks
    BY <1>9 DEF Receive
  <2> QED
    BY <1>1, <1>9, <2>2, <2>3 DEF IInv
<1>10. ASSUME NEW t \in Transports, Arrive(t)
       PROVE  IInv'
  <2>1. Carried(net')
    BY <1>1, <1>10, TailCarried DEF Arrive
  <2> QED
    BY <1>9, <1>10, <2>1 DEF Arrive
<1>11. ASSUME NEW t \in Transports, Repeat(t)
       PROVE  IInv'
  <2>1. Carried(net')
    BY <1>1, <1>11 DEF Repeat
  <2> QED
    BY <1>9, <1>11, <2>1 DEF Repeat
<1>12. CASE CheckTimings
  BY <1>1, <1>2, <1>12, CheckTimingsKeeps DEF CheckTimings
<1>13. CASE Tick
  <2>1. ChannelInv(ch') /\ ticks' \in 0 .. MaxTicks /\ ticks' = ticks + 1
    <3>1. ChannelInv(ch')
      BY <1>1, <1>13, AgeKeeps DEF Tick
    <3> QED
      BY <1>1, <1>13, <3>1, DiagnosticsAssumption DEF Tick
  <2>2. Told(diag, heard, since, ticks')
    <3>1. \A i \in DOMAIN heard : heard[i].at \in Nat /\ heard[i].at <= ticks
      <4>1. heard \in Seq(Copy)
        BY <1>1 DEF Told, History
      <4>2. \A i \in DOMAIN heard : heard[i] \in Copy
        BY <4>1
      <4> QED
        BY <1>1, <4>2 DEF Told, Copy
    <3>2. \A i \in DOMAIN heard : heard[i].at <= ticks'
      BY <1>1, <2>1, <3>1
    <3> QED
      BY <1>1, <3>2 DEF Told
  <2> QED
    BY <1>1, <1>13, <2>1, <2>2 DEF Tick, IInv
<1>14. CASE UNCHANGED vars
  BY <1>1, <1>2, <1>14 DEF vars
<1> QED
  BY <1>3, <1>4, <1>5, <1>6, <1>7, <1>8, <1>10, <1>11, <1>12, <1>13, <1>14 DEF Next

-----------------------------------------------------------------------------
(* What the data says.                                                     *)

(* The invariant holds in every behaviour.                                 *)
LEMMA InvariantHolds == Spec => []IInv
<1>1. Init => IInv
  BY InitIInv
<1>2. IInv /\ [Next]_vars => IInv'
  BY NextIInv
<1> QED
  BY <1>1, <1>2, PTL DEF Spec

(* Different entries are those of different messages, so that entries can  *)
(* be counted by their numbers.                                            *)
LEMMA NumbersCounted ==
  ASSUME NEW e \in Diagnostics,
         \A i, j \in DOMAIN e.window : e.window[i].seq = e.window[j].seq => i = j,
         NEW S \in SUBSET DOMAIN e.window,
         NEW T, T = {Number(e.window[i]) : i \in S}
  PROVE  IsFiniteSet(T) /\ Cardinality(T) = Cardinality(S)
<1>1. e.window \in Seq(Timestamp)
  BY DiagnosticsFields
<1>2. IsFiniteSet(S)
  <2>1. DOMAIN e.window = 1 .. Len(e.window) /\ Len(e.window) \in Int
    BY <1>1
  <2>2. IsFiniteSet(DOMAIN e.window)
    BY <2>1, FS_Interval
  <2> QED
    BY <2>2, FS_Subset
<1>3. \A i \in S : e.window[i].seq \in SeqNums
  <2>1. \A i \in S : e.window[i] \in Timestamp
    BY <1>1
  <2> QED
    BY <2>1 DEF Timestamp
<1> DEFINE f == [i \in S |-> Number(e.window[i])]
<1>4. \A i, j \in S : f[i] = f[j] => i = j
  <2>1. \A a, b \in SeqNums : Minus(a, FirstSeq) = Minus(b, FirstSeq) => a = b
    BY HalfAssumption, DiagnosticsAssumption DEF Minus, SeqNums, SeqMod
  <2>2. \A i, j \in S : f[i] = f[j] => e.window[i].seq = e.window[j].seq
    BY <1>3, <2>1 DEF Number
  <2> HIDE DEF f
  <2> QED
    BY <2>2
<1>5. f \in [S -> T] /\ \A y \in T : \E i \in S : f[i] = y
  OBVIOUS
<1> HIDE DEF f
<1>6. f \in Bijection(S, T)
  BY <1>4, <1>5 DEF Bijection, Injection, Surjection, IsInjective
<1>7. ExistsBijection(S, T)
  BY <1>6 DEF ExistsBijection
<1> QED
  BY <1>2, <1>7, FS_Bijection

(* The entries that say that t delivered in time are those of the messages *)
(* t delivered in time.                                                    *)
LEMMA ReceivedNumbers ==
  ASSUME NEW e, NEW h, NEW P, Matching(e, h, P), NEW t \in Transports,
         \A i \in DOMAIN e.window : e.window[i].seq \in SeqNums,
         NumbersOf(h, P) \subseteq Payloads
  PROVE  /\ {Number(e.window[i]) : i \in DOMAIN e.window} = NumbersOf(h, P)
         /\ {Number(e.window[i]) : i \in {j \in DOMAIN e.window : t \in e.window[j].received}}
              = {h[i].n : i \in Punctual(h, P, t)}
         /\ {Number(e.window[i]) : i \in {j \in DOMAIN e.window : t \notin e.window[j].received}}
              = NumbersOf(h, P) \ {h[i].n : i \in Punctual(h, P, t)}
<1> DEFINE D == DOMAIN e.window
           A == {h[i].n : i \in Punctual(h, P, t)}
           M == NumbersOf(h, P)
<1>1. \A i \in D : Number(e.window[i]) \in M /\ (t \in e.window[i].received <=> Number(e.window[i]) \in A)
  <2>1. \A i \in D : EntryMatches(e.window[i], h, P)
    BY DEF Matching
  <2>2. \A i \in D : Number(e.window[i]) \in M
                     /\ (t \in e.window[i].received
                           <=> \E j \in Punctual(h, P, t) : h[j].n = Number(e.window[i]))
    BY <2>1 DEF EntryMatches
  <2>3. \A n : n \in A <=> \E j \in Punctual(h, P, t) : h[j].n = n
    OBVIOUS
  <2> HIDE DEF A
  <2> QED
    BY <2>2, <2>3
<1>2. \A n \in M : \E i \in D : Number(e.window[i]) = n
  <2>1. \A n \in M : n \in Payloads /\ \E i \in D : e.window[i].seq = Plus(FirstSeq, n)
    BY DEF Matching
  <2> QED
    BY <2>1, NumberKnown DEF Number
<1>3. A \subseteq M
  BY DEF Punctual, NumbersOf
<1> HIDE DEF A, M, D
<1>4. {Number(e.window[i]) : i \in D} = M
  BY <1>1, <1>2
<1>5. {Number(e.window[i]) : i \in {j \in D : t \in e.window[j].received}} = A
  BY <1>1, <1>2, <1>3
<1>6. {Number(e.window[i]) : i \in {j \in D : t \notin e.window[j].received}} = M \ A
  BY <1>1, <1>2
<1> QED
  BY <1>4, <1>5, <1>6 DEF A, M, D

(* The facts about the data in a state.                                    *)
LEMMA DataKnown ==
  ASSUME IInv
  PROVE  /\ diag \in Diagnostics /\ Matching(diag, heard, ThisWindow)
         /\ History(heard) /\ ThisWindow \in SUBSET DOMAIN heard
         /\ since \in Nat
         /\ \A i \in DOMAIN diag.window : diag.window[i].seq \in SeqNums
         /\ NumbersOf(heard, ThisWindow) \subseteq Payloads
         /\ \A i, j \in DOMAIN diag.window : diag.window[i].seq = diag.window[j].seq => i = j
<1>1. /\ diag \in Diagnostics /\ Matching(diag, heard, ThisWindow)
      /\ History(heard) /\ since \in 0 .. Len(heard) /\ heard \in Seq(Copy)
  BY DEF IInv, Told, After, ThisWindow, History
<1>2. ThisWindow \in SUBSET DOMAIN heard /\ since \in Nat
  BY <1>1 DEF ThisWindow
<1>3. \A i \in DOMAIN diag.window : diag.window[i].seq \in SeqNums
  <2>1. diag.window \in Seq(Timestamp)
    BY <1>1, DiagnosticsFields
  <2>2. \A i \in DOMAIN diag.window : diag.window[i] \in Timestamp
    BY <2>1
  <2> QED
    BY <2>2 DEF Timestamp
<1>4. NumbersOf(heard, ThisWindow) \subseteq Payloads
  BY <1>1, <1>2, NumbersType
<1> QED
  BY <1>1, <1>2, <1>3, <1>4 DEF Matching

(* The channel, its diagnostics and the copies keep their types, without a *)
(* fatal error.                                                            *)
THEOREM TypeCorrect == Spec => []TypeOK
<1>1. IInv => TypeOK
  BY DEF IInv, Told, Carried, ChannelInv, Sound, TypeOK
<1> QED
  BY <1>1, InvariantHolds, PTL

(* The sums are those of the history.                                      *)
LEMMA SumsMatch ==
  ASSUME NEW P, NEW t
  PROVE  /\ MapThenSumSet(LAMBDA i : Delay(P, i), OnTime(P, t)) = Drift(heard, P, t)
         /\ MapThenSumSet(LAMBDA i : Delay(P, i) * Delay(P, i), OnTime(P, t))
              = Drift2(heard, P, t)
<1>1. MapThenSumSet(LAMBDA i : Delay(P, i), OnTime(P, t)) = Drift(heard, P, t)
  BY Zenon DEF MapThenSumSet, MapThenFoldSet, Delay, FirstIn, OnTime,
               Drift, DelayOf, FirstOf, Punctual
<1>2. MapThenSumSet(LAMBDA i : Delay(P, i) * Delay(P, i), OnTime(P, t)) = Drift2(heard, P, t)
  BY Zenon DEF MapThenSumSet, MapThenFoldSet, Delay, FirstIn, OnTime,
               Drift2, DelayOf, FirstOf, Punctual
<1> QED
  BY <1>1, <1>2

(* The properties' words for the copies of a history.                      *)
LEMMA SameWords ==
  ASSUME NEW P
  PROVE  /\ Messages(P) = NumbersOf(heard, P)
         /\ \A n : FirstIn(P, n) = FirstOf(heard, P, n)
         /\ \A t : OnTime(P, t) = Punctual(heard, P, t)
BY DEF Messages, NumbersOf, FirstIn, FirstOf, OnTime, Punctual, Delay, DelayOf

(* The diagnostic data is that of the copies heard since the channel was   *)
(* opened or last reported.                                                *)
THEOREM DataIsOfHistory == Spec => []CountersMatchHistory
<1>1. ASSUME IInv
      PROVE  CountersMatchHistory
  <2> DEFINE W == DOMAIN diag.window
             M == NumbersOf(heard, ThisWindow)
  <2>1. /\ diag \in Diagnostics /\ Matching(diag, heard, ThisWindow)
        /\ \A i \in W : diag.window[i].seq \in SeqNums
        /\ M \subseteq Payloads
        /\ \A i, j \in W : diag.window[i].seq = diag.window[j].seq => i = j
    BY <1>1, DataKnown
  <2>2. Cardinality(W) = Len(diag.window)
    <3>1. W = 1 .. Len(diag.window) /\ Len(diag.window) \in Nat
      BY <2>1, DiagnosticsFields
    <3> QED
      BY <3>1, FS_Interval
  <2>3. Len(diag.window) = Cardinality(Messages(ThisWindow))
    <3>1. 0 \in Transports
      BY RedChannelAssumption DEF Transports
    <3>2. {Number(diag.window[i]) : i \in W} = M
      BY <2>1, <3>1, ReceivedNumbers
    <3>3. Cardinality({Number(diag.window[i]) : i \in W}) = Cardinality(W)
      BY <2>1, NumbersCounted
    <3> QED
      BY <2>2, <3>2, <3>3, SameWords
  <2>4. ASSUME NEW t \in Transports
        PROVE  /\ diag.tDrift[t] = Drift(heard, ThisWindow, t)
               /\ diag.tDrift2[t] = Drift2(heard, ThisWindow, t)
    BY <2>1 DEF Matching
  <2>5. ASSUME NEW t \in Transports
        PROVE  Cardinality({i \in W : t \in diag.window[i].received})
                 = Cardinality({heard[i].n : i \in OnTime(ThisWindow, t)})
    <3> DEFINE R == {i \in W : t \in diag.window[i].received}
    <3>1. {Number(diag.window[i]) : i \in R} = {heard[i].n : i \in Punctual(heard, ThisWindow, t)}
      BY <2>1, ReceivedNumbers
    <3>2. R \in SUBSET W
      OBVIOUS
    <3> HIDE DEF R
    <3>3. Cardinality({Number(diag.window[i]) : i \in R}) = Cardinality(R)
      BY <2>1, <3>2, NumbersCounted
    <3>4. OnTime(ThisWindow, t) = Punctual(heard, ThisWindow, t)
      BY SameWords
    <3> QED
      BY <3>1, <3>3, <3>4 DEF R
  <2>6. ASSUME NEW t \in Transports
        PROVE  /\ diag.tDrift[t] = MapThenSumSet(LAMBDA i : Delay(ThisWindow, i),
                                                 OnTime(ThisWindow, t))
               /\ diag.tDrift2[t] =
                    MapThenSumSet(LAMBDA i : Delay(ThisWindow, i) * Delay(ThisWindow, i),
                                  OnTime(ThisWindow, t))
    BY <2>4, SumsMatch, Zenon
  <2> QED
    BY <2>3, <2>5, <2>6, Zenon DEF CountersMatchHistory
<1> QED
  BY <1>1, InvariantHolds, PTL

-----------------------------------------------------------------------------
(* What a report says.                                                     *)

(* A message that is first heard in this window is heard nowhere else, so  *)
(* that it is in time in this window if it is at all.                      *)
LEMMA FreshIsJudged ==
  ASSUME IInv, NEW n \in NumbersOf(heard, ThisWindow),
         FirstOf(heard, DOMAIN heard, n) \in ThisWindow, NEW t
  PROVE  (\E i \in Punctual(heard, ThisWindow, t) : heard[i].n = n)
           <=> \E i \in Punctual(heard, DOMAIN heard, t) : heard[i].n = n
<1> DEFINE P == ThisWindow
           A == DOMAIN heard
           f == FirstOf(heard, A, n)
<1>1. /\ P \in SUBSET A /\ P \in SUBSET Nat /\ A \in SUBSET Nat
      /\ P = since + 1 .. Len(heard) /\ A = 1 .. Len(heard) /\ Len(heard) \in Nat
      /\ since \in Nat
  <2>1. heard \in Seq(Copy) /\ since \in Nat /\ P \in SUBSET A
    BY DataKnown DEF History
  <2> QED
    BY <2>1 DEF ThisWindow
<1>2. f \in P
  OBVIOUS
<1> HIDE DEF f
<1>3. f \in A /\ heard[f].n = n /\ \A i \in A : heard[i].n = n => f <= i
  <2>1. n \in NumbersOf(heard, A)
    BY <1>1 DEF NumbersOf
  <2> QED
    BY <1>1, <2>1, FirstFound DEF f
<1>4. \A i \in A : heard[i].n = n => i \in P
  BY <1>1, <1>2, <1>3
<1>5. FirstOf(heard, P, n) = f
  <2>1. \A i \in P : heard[i].n = heard[f].n => f <= i
    BY <1>1, <1>3
  <2>2. FirstOf(heard, P, heard[f].n) = f
    BY <1>1, <1>2, <2>1, FirstIs
  <2> QED
    BY <1>3, <2>2
<1>6. \A i \in P : heard[i].n = n => DelayOf(heard, P, i) = DelayOf(heard, A, i)
  BY <1>5 DEF DelayOf, f
<1> HIDE DEF P, A
<1>7. (\E i \in Punctual(heard, P, t) : heard[i].n = n)
        <=> \E i \in Punctual(heard, A, t) : heard[i].n = n
  BY <1>1, <1>4, <1>6 DEF Punctual
<1> QED
  BY <1>7 DEF P, A

(* Of the messages that are missed, those in the set F, and the others.    *)
LEMMA MissedParts ==
  ASSUME NEW M, IsFiniteSet(M), NEW X \in SUBSET M, NEW F \in SUBSET M, NEW L, L = X \cap F
  PROVE  Cardinality(X) - Cardinality(L) \in 0 .. Cardinality(M \ F)
<1>1. /\ IsFiniteSet(X) /\ IsFiniteSet(L) /\ IsFiniteSet(X \ L) /\ IsFiniteSet(M \ F)
      /\ X \ L \in SUBSET (M \ F)
  <2>1. IsFiniteSet(X) /\ IsFiniteSet(L) /\ IsFiniteSet(X \ L) /\ IsFiniteSet(M \ F)
    BY FS_Subset
  <2> QED
    BY <2>1
<1>2. Cardinality(X \ L) = Cardinality(X) - Cardinality(X \cap L)
  BY <1>1, FS_Difference
<1>3. X \cap L = L
  OBVIOUS
<1>4. Cardinality(X \ L) <= Cardinality(M \ F)
  BY <1>1, FS_Subset
<1>5. Cardinality(X \ L) \in Nat /\ Cardinality(M \ F) \in Nat
  BY <1>1, FS_CardinalityType
<1> QED
  BY <1>2, <1>3, <1>4, <1>5

(* A report misses no loss, and counts beyond the losses at most messages  *)
(* an earlier report counted already.                                      *)
THEOREM ReportsAreTrue == Spec => ReportIsTrue
<1> DEFINE fresh == {n \in Messages(ThisWindow) : FirstIn(DOMAIN heard, n) \in ThisWindow}
           lost(t) == fresh \ {heard[i].n : i \in OnTime(DOMAIN heard, t)}
           Truth(t) == /\ notice'[1][t].nDiagnosis = NDiagnosis
                       /\ notice'[1][t].nMissed - Cardinality(lost(t))
                            \in 0 .. Cardinality(Messages(ThisWindow) \ fresh)
<1>1. ASSUME IInv, Next, notice' # <<>>
      PROVE  notice' = <<Notification(diag)>> /\ WindowFull(diag)
  <2>1. ASSUME NEW t \in Transports, NEW pdu, Receive(t, pdu)
        PROVE  notice' = <<Notification(diag)>> /\ WindowFull(diag)
    <3>1. IsDiagnosed(ch, pdu)
      BY <1>1, <2>1 DEF Receive
    <3>2. notice' = IF Stored(diag, pdu.seq) = {} /\ WindowFull(diag)
                      THEN <<Notification(diag)>> ELSE <<>>
      BY <2>1, <3>1 DEF Receive
    <3> QED
      BY <1>1, <3>2
  <2> QED
    BY <1>1, <2>1 DEF Next, Open, Close, Send, Read, PeerSend, Lose, Arrive, Repeat,
                      CheckTimings, Tick
<1>2. ASSUME IInv, Next, notice' # <<>>, NEW t \in Transports
      PROVE  Truth(t)
  <2> DEFINE W == DOMAIN diag.window
             M == NumbersOf(heard, ThisWindow)
             heardOf(P) == {heard[i].n : i \in Punctual(heard, P, t)}
             X == {i \in W : t \notin diag.window[i].received}
             missed == M \ heardOf(ThisWindow)
  <2>1. /\ diag \in Diagnostics /\ Matching(diag, heard, ThisWindow)
        /\ \A i \in W : diag.window[i].seq \in SeqNums
        /\ M \subseteq Payloads
        /\ \A i, j \in W : diag.window[i].seq = diag.window[j].seq => i = j
    BY <1>2, DataKnown
  <2>2. notice'[1][t] = Notification(diag)[t]
    BY <1>1, <1>2
  <2>3. /\ notice'[1][t].nDiagnosis = Len(diag.window)
        /\ notice'[1][t].nMissed = Cardinality(X)
    BY <2>2 DEF Notification
  <2>4. Len(diag.window) = NDiagnosis
    <3>1. Len(diag.window) >= NDiagnosis
      BY <1>1, <1>2 DEF WindowFull
    <3>2. Len(diag.window) <= NDiagnosis /\ Len(diag.window) \in Nat /\ NDiagnosis \in Nat
      BY <2>1, DiagnosticsFields, DiagnosticsAssumption
    <3> QED
      BY <3>1, <3>2
  <2>5. Cardinality(X) = Cardinality(missed)
    <3>1. {Number(diag.window[i]) : i \in X} = missed
      BY <2>1, ReceivedNumbers
    <3>2. X \in SUBSET W
      OBVIOUS
    <3> HIDE DEF X, missed
    <3>3. Cardinality({Number(diag.window[i]) : i \in X}) = Cardinality(X)
      BY <2>1, <3>2, NumbersCounted
    <3> QED
      BY <3>1, <3>3
  <2>6. IsFiniteSet(M)
    <3>1. {Number(diag.window[i]) : i \in W} = M
      BY <2>1, ReceivedNumbers
    <3>2. IsFiniteSet({Number(diag.window[i]) : i \in W})
      BY <2>1, NumbersCounted
    <3> QED
      BY <3>1, <3>2
  <2>7. /\ Messages(ThisWindow) = M
        /\ \A n : FirstIn(DOMAIN heard, n) = FirstOf(heard, DOMAIN heard, n)
        /\ OnTime(DOMAIN heard, t) = Punctual(heard, DOMAIN heard, t)
    BY SameWords
  <2>8. \A n \in fresh : n \in heardOf(ThisWindow) <=> n \in heardOf(DOMAIN heard)
    <3>1. ASSUME NEW n \in fresh
          PROVE  n \in heardOf(ThisWindow) <=> n \in heardOf(DOMAIN heard)
      <4>1. n \in M /\ FirstOf(heard, DOMAIN heard, n) \in ThisWindow
        BY <2>7
      <4> HIDE DEF fresh, M
      <4>2. (\E i \in Punctual(heard, ThisWindow, t) : heard[i].n = n)
              <=> \E i \in Punctual(heard, DOMAIN heard, t) : heard[i].n = n
        BY <1>2, <4>1, FreshIsJudged DEF M
      <4> QED
        BY <4>2
    <3> QED
      BY <3>1
  <2>9. fresh \in SUBSET M /\ missed \in SUBSET M
    BY <2>7
  <2>10. lost(t) = missed \cap fresh
    <3>1. lost(t) = fresh \ heardOf(DOMAIN heard)
      BY <2>7
    <3> HIDE DEF lost, heardOf, fresh, M
    <3> QED
      BY <2>8, <2>9, <3>1
  <2> HIDE DEF missed, fresh, lost, M, X
  <2>11. Cardinality(missed) - Cardinality(lost(t)) \in 0 .. Cardinality(M \ fresh)
    BY <2>6, <2>9, <2>10, MissedParts
  <2> QED
    BY <2>3, <2>4, <2>5, <2>7, <2>11
<1>3. ASSUME IInv, [Next]_vars
      PROVE  [ notice' # <<>> => \A t \in Transports : Truth(t) ]_vars
  <2>1. CASE Next
    BY <1>2, <1>3, <2>1
  <2>2. CASE UNCHANGED vars
    BY <2>2
  <2> QED
    BY <1>3, <2>1, <2>2
<1>4. IInv /\ [Next]_vars =>
        [ notice' # <<>> =>
            LET all == DOMAIN heard
                new == {n \in Messages(ThisWindow) : FirstIn(all, n) \in ThisWindow}
            IN  \A t \in Transports :
                  LET gone == new \ {heard[i].n : i \in OnTime(all, t)}
                  IN  /\ notice'[1][t].nDiagnosis = NDiagnosis
                      /\ notice'[1][t].nMissed - Cardinality(gone)
                           \in 0 .. Cardinality(Messages(ThisWindow) \ new) ]_vars
  BY <1>3
<1> QED
  BY <1>4, InvariantHolds, PTL DEF Spec, ReportIsTrue
=============================================================================

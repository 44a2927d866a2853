------------------------- MODULE SrEndpoint_proofs -------------------------
(***************************************************************************)
(* What a configuration that passes srcor_IsConfigurationValid gives a     *)
(* connection, that its diagnostics add up, whatever the calls, and what   *)
(* holds of a connection and its diagnostics whatever the peer sends: the  *)
(* numbers in the send buffer have no gap, only numbers of received        *)
(* messages are confirmed, a silent peer is noticed.                       *)
(***************************************************************************)
EXTENDS SrEndpoint, SrConnection_proofs

-----------------------------------------------------------------------------
(* Configurations.                                                         *)

(* kSequenceNumberRangeFactor of srcor, and half of 2^32.                  *)
kRangeFactor == 10
SourceHalf == 2147483648

(* No two connections are configured with the same pair of identifiers,    *)
(* which the check does not look at.                                       *)
PairsDistinct(cfg) ==
  \A i, j \in DOMAIN cfg.connection_configurations :
    i # j => \/ cfg.connection_configurations[i].sender_id
                  # cfg.connection_configurations[j].sender_id
             \/ cfg.connection_configurations[i].receiver_id
                  # cfg.connection_configurations[j].receiver_id

(* With the limits of the source a valid configuration satisfies what the  *)
(* model of a connection assumes: times and windows shorter than half of  *)
(* the range of their numbers.  The heartbeat interval may be as long as   *)
(* t_max.                                                                  *)
THEOREM ValidConfigurationFitsTheConnection ==
  ASSUME Limits = SourceLimits,
         NEW cfg \in SafetyRetransmissionConfiguration, IsConfigurationValid(cfg)
  PROVE  /\ cfg.t_max \in Nat \ {0} /\ cfg.t_max < SourceHalf
         /\ cfg.t_h \in Nat \ {0} /\ cfg.t_h <= cfg.t_max
         /\ cfg.m_w_a \in Nat \ {0} /\ cfg.m_w_a < cfg.n_send_max
         /\ cfg.n_send_max <= Limits.MaxNSendMax
         /\ kRangeFactor * cfg.n_send_max < SourceHalf
<1>1. /\ Limits.kMinTMax = 750 /\ Limits.kMaxTMax = 2000
      /\ Limits.kMinTHeartbeat = 300 /\ Limits.kMaxTHeartbeat = 750
      /\ Limits.kMinMWA = 1 /\ Limits.kMaxMWA = 19
      /\ Limits.kMinNSendMax = 2 /\ Limits.MaxNSendMax = 20
  BY DEF SourceLimits
<1>2. /\ cfg.t_max \in 750 .. 2000 /\ cfg.t_h \in 300 .. 750
      /\ cfg.m_w_a \in 1 .. 19 /\ cfg.n_send_max \in 2 .. 20
      /\ cfg.m_w_a < cfg.n_send_max
  BY <1>1 DEF IsConfigurationValid
<1>3. SourceHalf \in Nat /\ SourceHalf > 2000
  BY SMT DEF SourceHalf
<1>4. kRangeFactor * cfg.n_send_max \in Nat /\ kRangeFactor * cfg.n_send_max <= 200
  BY <1>2 DEF kRangeFactor
<1>5. /\ cfg.t_max \in Nat \ {0} /\ cfg.t_max < SourceHalf
      /\ cfg.t_h \in Nat \ {0} /\ cfg.t_h <= cfg.t_max
  <2> DEFINE max == cfg.t_max
             h == cfg.t_h
  <2>1. max \in 750 .. 2000 /\ h \in 300 .. 750
    BY <1>2
  <2> HIDE DEF max, h
  <2>2. max \in Nat \ {0} /\ max < SourceHalf /\ h \in Nat \ {0} /\ h <= max
    BY <1>3, <2>1
  <2> QED
    BY <2>2 DEF max, h
<1>6. cfg.m_w_a \in Nat \ {0} /\ cfg.n_send_max <= Limits.MaxNSendMax
  BY <1>1, <1>2
<1>7. kRangeFactor * cfg.n_send_max < SourceHalf
  <2> DEFINE range == kRangeFactor * cfg.n_send_max
  <2> HIDE DEF range
  <2>1. range \in Nat /\ range <= 200
    BY <1>4 DEF range
  <2>2. range < SourceHalf
    BY <1>3, <2>1
  <2> QED
    BY <2>2 DEF range
<1> QED
  BY <1>2, <1>5, <1>6, <1>7

(* srcor_GetConnectionId, which takes the first connection it finds, finds *)
(* each configured connection by its identifiers, as long as no two have   *)
(* the same.                                                               *)
THEOREM IdentifiersLeadToTheirConnection ==
  ASSUME NEW cfg \in SafetyRetransmissionConfiguration, IsConfigurationValid(cfg),
         PairsDistinct(cfg), NEW i \in DOMAIN cfg.connection_configurations
  PROVE  LET own == cfg.connection_configurations[i]
         IN  /\ IsConnectionKnown(cfg, own.sender_id, own.receiver_id)
             /\ GetConnectionId(cfg, own.sender_id, own.receiver_id) = own.connection_id
<1> DEFINE own == cfg.connection_configurations[i]
<1>1. ConnectionsOf(cfg, own.sender_id, own.receiver_id) = {i}
  BY DEF ConnectionsOf, PairsDistinct
<1>2. i \in Nat
  BY DEF SafetyRetransmissionConfiguration
<1>3. GetConnectionId(cfg, own.sender_id, own.receiver_id) = own.connection_id
  BY <1>1, <1>2, LeastOfOne DEF GetConnectionId
<1> QED
  BY <1>1, <1>3 DEF IsConnectionKnown

-----------------------------------------------------------------------------

(* The calls of srdia.                                                     *)
CallNames ==
  {"Init", "Notify", "Update", "SafetyCode", "Address", "Type", "SequenceNumber",
   "ConfirmedSequenceNumber"}

Keeps == [data : Diagnostics, reports : Seq(Diagnostics)]

(* The diagnostics and their window fit together.                          *)
Good(k) == k \in Keeps /\ IsConsistent(k.data)

(* The window holds at least one message.                                  *)
LEMMA WindowPositive == NDiagWindow \in Nat \ {0}
<1>1. NDiagWindow \in Limits.kMinNDiagWindow .. Limits.kMaxNDiagWindow
  BY DiagnosticsAssumption DEF IsConfigurationValid, NDiagWindow
<1>2. Limits.kMinNDiagWindow \in Nat \ {0} /\ Limits.kMaxNDiagWindow \in Nat
  BY LimitsAssumption
<1> QED
  BY <1>1, <1>2

(* Every time is in an interval.                                           *)
LEMMA BinExists ==
  ASSUME NEW intervals, NEW time
  PROVE  BinOf(intervals, time) \in Bins
BY DEF BinOf, Bins

(* Of a time up to t_max, an interval of a valid configuration holds what  *)
(* its description says (srcty_SafetyRetransmissionConfiguration).         *)
THEOREM IntervalsAsDescribed ==
  ASSUME Config \in SafetyRetransmissionConfiguration,
         NEW time \in 0 .. Config.t_max
  PROVE  /\ BinOf(Intervals, time) = 1 <=> time <= Intervals[1]
         /\ \A b \in 2 .. 4 :
              BinOf(Intervals, time) = b <=> Intervals[b - 1] < time /\ time <= Intervals[b]
         /\ BinOf(Intervals, time) = 5 <=> Intervals[4] < time
<1> DEFINE t1 == Intervals[1]
           t2 == Intervals[2]
           t3 == Intervals[3]
           t4 == Intervals[4]
<1>1. Intervals \in [1 .. 4 -> Nat] /\ time \in Nat
  BY DEF SafetyRetransmissionConfiguration, Intervals
<1>2. AreDiagnosticTimingIntervalsValid(Config.t_max, Intervals)
  BY DiagnosticsAssumption DEF IsConfigurationValid, Intervals
<1>3. /\ t1 \in Nat /\ t2 \in Nat /\ t3 \in Nat /\ t4 \in Nat
      /\ t1 < t2 /\ t2 < t3 /\ t3 < t4
  <2>1. Intervals[1] < Intervals[1 + 1] /\ Intervals[2] < Intervals[2 + 1]
        /\ Intervals[3] < Intervals[3 + 1]
    BY <1>2 DEF AreDiagnosticTimingIntervalsValid
  <2> QED
    BY <1>1, <2>1
<1>4. BinOf(Intervals, time) =
        CASE time <= t1 -> 1
          [] t1 < time /\ time <= t2 -> 2
          [] t2 < time /\ time <= t3 -> 3
          [] t3 < time /\ time <= t4 -> 4
          [] OTHER -> 5
  BY DEF BinOf
<1>5. \A b \in 2 .. 4 : Intervals[b - 1] < time /\ time <= Intervals[b]
        <=> \/ b = 2 /\ t1 < time /\ time <= t2
            \/ b = 3 /\ t2 < time /\ time <= t3
            \/ b = 4 /\ t3 < time /\ time <= t4
  OBVIOUS
<1> HIDE DEF t1, t2, t3, t4
<1>6. /\ BinOf(Intervals, time) = 1 <=> time <= t1
      /\ BinOf(Intervals, time) = 2 <=> t1 < time /\ time <= t2
      /\ BinOf(Intervals, time) = 3 <=> t2 < time /\ time <= t3
      /\ BinOf(Intervals, time) = 4 <=> t3 < time /\ time <= t4
      /\ BinOf(Intervals, time) = 5 <=> t4 < time
  BY <1>1, <1>3, <1>4
<1> QED
  BY <1>5, <1>6 DEF t1, t4

(* One more time in a distribution is one more in the sum of its intervals.*)
LEMMA OneMoreTime ==
  ASSUME NEW distribution \in [Bins -> Nat], NEW time
  PROVE  /\ AddTimeToTimingDistribution(distribution, time) \in [Bins -> Nat]
         /\ InIntervals(AddTimeToTimingDistribution(distribution, time))
              = InIntervals(distribution) + 1
<1> DEFINE b == BinOf(Intervals, time)
           after == [distribution EXCEPT ![b] = @ + 1]
<1>1. b \in Bins
  BY BinExists
<1> HIDE DEF b
<1>2. after \in [Bins -> Nat]
  BY <1>1
<1>3. InIntervals(after) = InIntervals(distribution) + 1
  BY <1>1 DEF InIntervals, Bins
<1> QED
  BY <1>2, <1>3 DEF AddTimeToTimingDistribution, b

-----------------------------------------------------------------------------

(* Diagnostics that start anew fit together.                               *)
LEMMA NoDiagnosticsGood == NoDiagnostics \in Diagnostics /\ IsConsistent(NoDiagnostics)
<1>1. NDiagWindow \in Nat \ {0}
  BY WindowPositive
<1> QED
  BY <1>1 DEF NoDiagnostics, Diagnostics, IsConsistent, InIntervals, Bins

(* Notifying empties the window.                                           *)
LEMMA NotificationGood ==
  ASSUME NEW k \in Keeps
  PROVE  Good(SendDiagnosticNotification(k))
BY NoDiagnosticsGood
   DEF Good, Keeps, Kept, SendDiagnosticNotification, InitConnectionDiagnostics

(* A message makes one more in both distributions, or fills the window.    *)
LEMMA UpdateGood ==
  ASSUME NEW k, Good(k), NEW rtd, NEW alive
  PROVE  Good(UpdateConnectionDiagnostics(k, rtd, alive))
<1> DEFINE dn == [k.data EXCEPT
                   !.t_rtd_distribution = AddTimeToTimingDistribution(@, rtd),
                   !.t_alive_distribution = AddTimeToTimingDistribution(@, alive),
                   !.message_counter = @ + 1]
           updated == Kept(dn, k.reports)
<1>1. k.data \in Diagnostics /\ k.reports \in Seq(Diagnostics) /\ IsConsistent(k.data)
  BY DEF Good, Keeps
<1>2. /\ dn \in Diagnostics
      /\ dn.message_counter = k.data.message_counter + 1
      /\ InIntervals(dn.t_rtd_distribution) = InIntervals(k.data.t_rtd_distribution) + 1
      /\ InIntervals(dn.t_alive_distribution) = InIntervals(k.data.t_alive_distribution) + 1
  <2>1. /\ k.data.t_rtd_distribution \in [Bins -> Nat]
        /\ k.data.t_alive_distribution \in [Bins -> Nat]
    BY <1>1 DEF Diagnostics
  <2>2. /\ AddTimeToTimingDistribution(k.data.t_rtd_distribution, rtd) \in [Bins -> Nat]
        /\ AddTimeToTimingDistribution(k.data.t_alive_distribution, alive) \in [Bins -> Nat]
        /\ InIntervals(AddTimeToTimingDistribution(k.data.t_rtd_distribution, rtd))
             = InIntervals(k.data.t_rtd_distribution) + 1
        /\ InIntervals(AddTimeToTimingDistribution(k.data.t_alive_distribution, alive))
             = InIntervals(k.data.t_alive_distribution) + 1
    BY <2>1, OneMoreTime
  <2>3. k.data.message_counter + 1 \in Nat
    BY <1>1 DEF Diagnostics
  <2>4. /\ dn.message_counter = k.data.message_counter + 1
        /\ dn.t_rtd_distribution = AddTimeToTimingDistribution(k.data.t_rtd_distribution, rtd)
        /\ dn.t_alive_distribution
             = AddTimeToTimingDistribution(k.data.t_alive_distribution, alive)
    BY <1>1 DEF Diagnostics
  <2>5. dn \in Diagnostics
    BY <1>1, <2>2, <2>3 DEF Diagnostics
  <2> QED
    BY <2>2, <2>4, <2>5
<1>3. updated \in Keeps
  BY <1>1, <1>2 DEF Keeps, Kept
<1>4. CASE dn.message_counter >= NDiagWindow
  <2>1. UpdateConnectionDiagnostics(k, rtd, alive) = SendDiagnosticNotification(updated)
    BY <1>4 DEF UpdateConnectionDiagnostics
  <2> QED
    BY <1>3, <2>1, NotificationGood
<1>5. CASE ~ (dn.message_counter >= NDiagWindow)
  <2>1. UpdateConnectionDiagnostics(k, rtd, alive) = updated
    BY <1>5 DEF UpdateConnectionDiagnostics
  <2>2. dn.message_counter \in Nat /\ NDiagWindow \in Nat
    BY <1>2, WindowPositive DEF Diagnostics
  <2>3. IsConsistent(dn)
    BY <1>1, <1>2, <1>5, <2>2 DEF IsConsistent
  <2>4. updated.data = dn
    BY DEF Kept
  <2> QED
    BY <1>3, <2>1, <2>3, <2>4 DEF Good
<1> QED
  BY <1>4, <1>5

(* An error counter is not part of the window.                             *)
LEMMA CountedKeepsWindow ==
  ASSUME NEW dn \in Diagnostics, NEW error \in CallNames \ {"Init", "Notify", "Update"}
  PROVE  /\ Counted(dn, error) \in Diagnostics
         /\ Counted(dn, error).message_counter = dn.message_counter
         /\ Counted(dn, error).t_rtd_distribution = dn.t_rtd_distribution
         /\ Counted(dn, error).t_alive_distribution = dn.t_alive_distribution
<1>1. CASE error = "SafetyCode"
  <2>1. Counted(dn, error) = [dn EXCEPT !.ec_safety = @ + 1]
    BY <1>1 DEF Counted
  <2> QED
    BY <2>1 DEF Diagnostics
<1>2. CASE error = "Address"
  <2>1. Counted(dn, error) = [dn EXCEPT !.ec_address = @ + 1]
    BY <1>2 DEF Counted
  <2> QED
    BY <2>1 DEF Diagnostics
<1>3. CASE error = "Type"
  <2>1. Counted(dn, error) = [dn EXCEPT !.ec_type = @ + 1]
    BY <1>3 DEF Counted
  <2> QED
    BY <2>1 DEF Diagnostics
<1>4. CASE error = "SequenceNumber"
  <2>1. Counted(dn, error) = [dn EXCEPT !.ec_sn = @ + 1]
    BY <1>4 DEF Counted
  <2> QED
    BY <2>1 DEF Diagnostics
<1>5. CASE error = "ConfirmedSequenceNumber"
  <2>1. Counted(dn, error) = [dn EXCEPT !.ec_csn = @ + 1]
    BY <1>5 DEF Counted
  <2> QED
    BY <2>1 DEF Diagnostics
<1> QED
  BY <1>1, <1>2, <1>3, <1>4, <1>5 DEF CallNames

(* Counting an error keeps the diagnostics consistent.                     *)
LEMMA CountedGood ==
  ASSUME NEW k, Good(k), NEW error \in CallNames \ {"Init", "Notify", "Update"}
  PROVE  Good(Kept(Counted(k.data, error), k.reports))
BY CountedKeepsWindow DEF Good, Keeps, Kept, IsConsistent

(* One call of srdia keeps the diagnostics consistent.                     *)
LEMMA AfterCallGood ==
  ASSUME NEW k, Good(k), NEW call, call.call \in CallNames
  PROVE  Good(AfterCall(k, call))
<1>1. CASE call.call = "Init"
  BY <1>1, NoDiagnosticsGood
     DEF AfterCall, Good, Keeps, Kept, InitConnectionDiagnostics
<1>2. CASE call.call = "Notify"
  <2>1. k \in Keeps
    BY DEF Good
  <2> QED
    BY <1>2, <2>1, NotificationGood DEF AfterCall
<1>3. CASE call.call = "Update"
  BY <1>3, UpdateGood DEF AfterCall
<1>4. CASE call.call \notin {"Init", "Notify", "Update"}
  <2>1. AfterCall(k, call) = Kept(Counted(k.data, call.call), k.reports)
    BY <1>4 DEF AfterCall
  <2> QED
    BY <1>4, <2>1, CountedGood
<1> QED
  BY <1>1, <1>2, <1>3, <1>4

(* f lists what the calls make of the diagnostics dn, one after the other. *)
Records(f, dn, calls) ==
  /\ f[0] = Kept(dn, <<>>)
  /\ \A n \in 1 .. Len(calls) : f[n] = AfterCall(f[n - 1], calls[n])

(* There is such a list, and all of it is consistent.                      *)
LEMMA AfterCallsRecorded ==
  ASSUME NEW dn \in Diagnostics, IsConsistent(dn),
         NEW T, NEW calls \in Seq(T), \A i \in DOMAIN calls : calls[i].call \in CallNames
  PROVE  \E f : /\ Records(f, dn, calls)
                /\ AfterCalls(dn, calls) = f[Len(calls)]
                /\ \A n \in 0 .. Len(calls) : Good(f[n])
<1> DEFINE N == Len(calls)
           S == {k \in Keeps : Good(k)}
           a == Kept(dn, <<>>)
           Value(f, n) == IF n = 0 THEN Kept(dn, <<>>) ELSE AfterCall(f[n - 1], calls[n])
           after == CHOOSE f : f = [n \in 0 .. N |-> Value(f, n)]
           G == [n \in 1 .. N |-> [k \in S |-> AfterCall(k, calls[n])]]
           H == {n \in 0 .. N : after[n] \in S}
<1>1. N \in Nat /\ DOMAIN calls = 1 .. N
  OBVIOUS
<1>2. AfterCalls(dn, calls) = after[N]
  BY DEF AfterCalls
<1> HIDE DEF N
<1>3. a \in S
  <2>1. a \in Keeps /\ a.data = dn
    BY DEF Keeps, Kept
  <2> HIDE DEF a
  <2>2. Good(a)
    BY <2>1 DEF Good
  <2> QED
    BY <2>1, <2>2
<1>4. \A n \in 1 .. N : \A k \in S : AfterCall(k, calls[n]) \in S
  BY <1>1, AfterCallGood DEF Good
<1>5. \E f : f = [n \in 0 .. N |-> Value(f, n)]
  <2>1. G \in [1 .. N -> [S -> S]]
    <3> HIDE DEF S
    <3> QED
      BY <1>4
  <2> HIDE DEF G, S, a
  <2>2. PICK f : Iterates(f, S, a, N, G)
    BY <1>1, <1>3, <2>1, Iteration
  <2>3. ASSUME NEW n \in 0 .. N
        PROVE  f[n] = Value(f, n)
    <3>1. CASE n = 0
      BY <2>2, <3>1 DEF a, Iterates
    <3>2. CASE n # 0
      <4>1. n \in 1 .. N /\ n - 1 \in 0 .. N
        BY <1>1, <3>2
      <4>2. f[n - 1] \in S
        BY <2>2, <4>1 DEF Iterates
      <4> QED
        BY <2>2, <3>2, <4>1, <4>2 DEF G, Iterates
    <3> QED
      BY <3>1, <3>2
  <2>4. f = [n \in 0 .. N |-> Value(f, n)]
    BY <2>2, <2>3 DEF Iterates
  <2> QED
    BY <2>4
<1>6. after = [n \in 0 .. N |-> Value(after, n)]
  BY <1>5
<1> HIDE DEF after
<1>7. after[0] = a /\ \A n \in 1 .. N : after[n] = AfterCall(after[n - 1], calls[n])
  BY <1>1, <1>6
<1>8. \A n \in 0 .. N : after[n] \in S
  <2>1. 0 \in H
    BY <1>1, <1>3, <1>7
  <2>2. ASSUME NEW n \in 1 .. N, n - 1 \in H
        PROVE  n \in H
    BY <1>4, <1>7, <2>2
  <2> HIDE DEF H
  <2>3. \A n \in 0 .. N : n \in H
    BY <1>1, <2>1, <2>2, InductionUpTo
  <2> QED
    BY <2>3 DEF H
<1>9. Records(after, dn, calls)
  BY <1>7 DEF Records, N
<1> QED
  BY <1>2, <1>8, <1>9 DEF N

(* Whatever calls a call of the stack makes, in whatever order: afterwards *)
(* each message of the window is in one interval of both distributions,    *)
(* and the window is not full, as it was before.                           *)
THEOREM DiagnosticsKeepAddingUp ==
  ASSUME NEW dn \in Diagnostics, IsConsistent(dn),
         NEW T, NEW calls \in Seq(T), \A i \in DOMAIN calls : calls[i].call \in CallNames
  PROVE  /\ AfterCalls(dn, calls).data \in Diagnostics
         /\ IsConsistent(AfterCalls(dn, calls).data)
<1>1. PICK f : /\ AfterCalls(dn, calls) = f[Len(calls)]
               /\ \A n \in 0 .. Len(calls) : Good(f[n])
  BY AfterCallsRecorded
<1>2. Good(AfterCalls(dn, calls))
  BY <1>1
<1> QED
  BY <1>2 DEF Good, Keeps

(* One call more.                                                          *)
LEMMA AfterCallsAppend ==
  ASSUME NEW dn \in Diagnostics, IsConsistent(dn),
         NEW T, NEW calls \in Seq(T), \A i \in DOMAIN calls : calls[i].call \in CallNames,
         NEW e \in T, e.call \in CallNames
  PROVE  /\ Good(AfterCalls(dn, calls))
         /\ AfterCalls(dn, Append(calls, e)) = AfterCall(AfterCalls(dn, calls), e)
<1> DEFINE more == Append(calls, e)
           N == Len(calls)
<1>1. /\ N \in Nat /\ DOMAIN calls = 1 .. N /\ more \in Seq(T) /\ Len(more) = N + 1
      /\ DOMAIN more = 1 .. N + 1 /\ more[N + 1] = e
      /\ \A i \in 1 .. N : more[i] = calls[i]
  OBVIOUS
<1> HIDE DEF more
<1>2. \A i \in DOMAIN more : more[i].call \in CallNames
  BY <1>1
<1>3. PICK f : /\ Records(f, dn, calls) /\ AfterCalls(dn, calls) = f[Len(calls)]
               /\ \A n \in 0 .. Len(calls) : Good(f[n])
  BY AfterCallsRecorded
<1>4. PICK g : Records(g, dn, more) /\ AfterCalls(dn, more) = g[Len(more)]
  BY <1>1, <1>2, AfterCallsRecorded
<1> HIDE DEF N
<1> DEFINE H == {n \in 0 .. N : f[n] = g[n]}
<1>5. /\ f[0] = g[0]
      /\ \A n \in 1 .. N : f[n] = AfterCall(f[n - 1], calls[n])
      /\ \A n \in 1 .. N + 1 : g[n] = AfterCall(g[n - 1], more[n])
  BY <1>1, <1>3, <1>4 DEF Records, N
<1>6. 0 \in H
  BY <1>1, <1>5
<1>7. ASSUME NEW n \in 1 .. N, n - 1 \in H
      PROVE  n \in H
  BY <1>1, <1>5, <1>7
<1> HIDE DEF H
<1>8. \A n \in 0 .. N : n \in H
  BY <1>1, <1>6, <1>7, InductionUpTo
<1>9. f[N] = g[N]
  BY <1>1, <1>8 DEF H
<1>10. N + 1 \in 1 .. N + 1 /\ N + 1 - 1 = N
  BY <1>1
<1>11. g[N + 1] = AfterCall(g[N], e)
  BY <1>1, <1>5, <1>10
<1> QED
  BY <1>1, <1>3, <1>4, <1>9, <1>11 DEF N, more

-----------------------------------------------------------------------------
(* What the reports of a call count.                                       *)

(* f lists the sums of the message counters.                               *)
Sums(f, reports) ==
  /\ f[0] = 0
  /\ \A n \in 1 .. Len(reports) : f[n] = f[n - 1] + reports[n].message_counter

(* There is such a list.                                                   *)
LEMMA ReportedSums ==
  ASSUME NEW reports \in Seq(Diagnostics)
  PROVE  \E f : /\ Sums(f, reports)
                /\ Reported(reports) = f[Len(reports)]
                /\ \A n \in 0 .. Len(reports) : f[n] \in Nat
<1> DEFINE N == Len(reports)
           Value(f, n) == IF n = 0 THEN 0 ELSE f[n - 1] + reports[n].message_counter
           sum == CHOOSE f : f = [n \in 0 .. N |-> Value(f, n)]
           G == [n \in 1 .. N |-> [k \in Nat |-> k + reports[n].message_counter]]
           H == {n \in 0 .. N : sum[n] \in Nat}
<1>1. N \in Nat /\ \A n \in 1 .. N : reports[n].message_counter \in Nat
  <2>1. N \in Nat /\ \A n \in 1 .. N : reports[n] \in Diagnostics
    OBVIOUS
  <2>2. \A x \in Diagnostics : x.message_counter \in Nat
    BY DEF Diagnostics
  <2> QED
    BY <2>1, <2>2
<1>2. Reported(reports) = sum[N]
  BY DEF Reported
<1> HIDE DEF N
<1>3. \E f : f = [n \in 0 .. N |-> Value(f, n)]
  <2>1. G \in [1 .. N -> [Nat -> Nat]]
    BY <1>1
  <2> HIDE DEF G
  <2>2. PICK f : Iterates(f, Nat, 0, N, G)
    BY <1>1, <2>1, Iteration
  <2>3. ASSUME NEW n \in 0 .. N
        PROVE  f[n] = Value(f, n)
    <3>1. CASE n = 0
      BY <2>2, <3>1 DEF Iterates
    <3>2. CASE n # 0
      <4>1. n \in 1 .. N /\ n - 1 \in 0 .. N
        BY <1>1, <3>2
      <4>2. f[n - 1] \in Nat
        BY <2>2, <4>1 DEF Iterates
      <4> QED
        BY <2>2, <3>2, <4>1, <4>2 DEF G, Iterates
    <3> QED
      BY <3>1, <3>2
  <2>4. f = [n \in 0 .. N |-> Value(f, n)]
    BY <2>2, <2>3 DEF Iterates
  <2> QED
    BY <2>4
<1>4. sum = [n \in 0 .. N |-> Value(sum, n)]
  BY <1>3
<1> HIDE DEF sum
<1>5. sum[0] = 0 /\ \A n \in 1 .. N : sum[n] = sum[n - 1] + reports[n].message_counter
  BY <1>1, <1>4
<1>6. \A n \in 0 .. N : sum[n] \in Nat
  <2>1. 0 \in H
    BY <1>1, <1>5
  <2>2. ASSUME NEW n \in 1 .. N, n - 1 \in H
        PROVE  n \in H
    BY <1>1, <1>5, <2>2
  <2> HIDE DEF H
  <2>3. \A n \in 0 .. N : n \in H
    BY <1>1, <2>1, <2>2, InductionUpTo
  <2> QED
    BY <2>3 DEF H
<1>7. Sums(sum, reports)
  BY <1>5 DEF Sums, N
<1> QED
  BY <1>2, <1>6, <1>7 DEF N

(* One report more.                                                        *)
LEMMA ReportedAppend ==
  ASSUME NEW reports \in Seq(Diagnostics), NEW x \in Diagnostics
  PROVE  /\ Reported(reports) \in Nat
         /\ Reported(Append(reports, x)) = Reported(reports) + x.message_counter
<1> DEFINE more == Append(reports, x)
           N == Len(reports)
<1>1. /\ N \in Nat /\ more \in Seq(Diagnostics) /\ Len(more) = N + 1
      /\ more[N + 1] = x /\ \A i \in 1 .. N : more[i] = reports[i]
  OBVIOUS
<1> HIDE DEF more
<1>2. PICK f : /\ Sums(f, reports) /\ Reported(reports) = f[Len(reports)]
               /\ \A n \in 0 .. Len(reports) : f[n] \in Nat
  BY ReportedSums
<1>3. PICK g : Sums(g, more) /\ Reported(more) = g[Len(more)]
  BY <1>1, ReportedSums
<1> HIDE DEF N
<1> DEFINE H == {n \in 0 .. N : f[n] = g[n]}
<1>4. /\ f[0] = g[0]
      /\ \A n \in 1 .. N : f[n] = f[n - 1] + reports[n].message_counter
      /\ \A n \in 1 .. N + 1 : g[n] = g[n - 1] + more[n].message_counter
  BY <1>1, <1>2, <1>3 DEF Sums, N
<1>5. 0 \in H
  BY <1>1, <1>4
<1>6. ASSUME NEW n \in 1 .. N, n - 1 \in H
      PROVE  n \in H
  <2>1. n \in 1 .. N + 1 /\ n \in 0 .. N /\ more[n] = reports[n] /\ f[n - 1] = g[n - 1]
    BY <1>1, <1>6
  <2> QED
    BY <1>4, <2>1
<1> HIDE DEF H
<1>7. \A n \in 0 .. N : n \in H
  BY <1>1, <1>5, <1>6, InductionUpTo
<1>8. f[N] = g[N] /\ f[N] \in Nat
  BY <1>1, <1>2, <1>7 DEF H, N
<1>9. N + 1 \in 1 .. N + 1 /\ N + 1 - 1 = N
  BY <1>1
<1>10. g[N + 1] = g[N] + x.message_counter
  BY <1>1, <1>4, <1>9
<1> QED
  BY <1>1, <1>2, <1>3, <1>8, <1>10 DEF N, more

(* Without a report nothing is counted.                                    *)
LEMMA NothingReported == Reported(<<>>) = 0
<1>1. <<>> \in Seq(Diagnostics) /\ Len(<<>>) = 0
  OBVIOUS
<1>2. PICK f : Sums(f, <<>>) /\ Reported(<<>>) = f[Len(<<>>)]
  BY <1>1, ReportedSums
<1> QED
  BY <1>1, <1>2 DEF Sums

-----------------------------------------------------------------------------
(* What a call of sr_diagnostics counts.                                   *)

(* The messages that are counted, in the window or in a report.            *)
TotalOf(k) == Reported(k.reports) + k.data.message_counter

(* The calls during a session.                                             *)
SessionCalls == CallNames \ {"Init"}

(* A message that was processed counts once, and no message is lost when   *)
(* the diagnostics are handed over.                                        *)
LEMMA CallCounts ==
  ASSUME NEW k, Good(k), NEW e, e.call \in SessionCalls
  PROVE  /\ Good(AfterCall(k, e)) /\ TotalOf(k) \in Nat
         /\ TotalOf(AfterCall(k, e)) = TotalOf(k) + (IF e.call = "Update" THEN 1 ELSE 0)
         /\ e.call = "Notify" => AfterCall(k, e).data = NoDiagnostics
<1>1. k.data \in Diagnostics /\ k.reports \in Seq(Diagnostics) /\ k.data.message_counter \in Nat
  BY DEF Good, Keeps, Diagnostics
<1>2. Reported(k.reports) \in Nat
  BY <1>1, ReportedAppend
<1>3. Good(AfterCall(k, e))
  BY AfterCallGood DEF SessionCalls
<1>4. NoDiagnostics.message_counter = 0
  BY DEF NoDiagnostics
<1>5. ASSUME NEW l, l.data \in Diagnostics, l.reports = k.reports
      PROVE  /\ SendDiagnosticNotification(l).data = NoDiagnostics
             /\ TotalOf(SendDiagnosticNotification(l))
                  = Reported(k.reports) + l.data.message_counter
  <2>1. Reported(Append(l.reports, l.data)) = Reported(k.reports) + l.data.message_counter
    BY <1>1, <1>5, ReportedAppend
  <2>2. l.data.message_counter \in Nat
    BY <1>5 DEF Diagnostics
  <2>3. /\ SendDiagnosticNotification(l).data = NoDiagnostics
        /\ SendDiagnosticNotification(l).reports = Append(l.reports, l.data)
    BY DEF SendDiagnosticNotification, Kept, InitConnectionDiagnostics
  <2> QED
    BY <1>2, <1>4, <2>1, <2>2, <2>3 DEF TotalOf
<1>6. CASE e.call = "Notify"
  <2>1. AfterCall(k, e) = SendDiagnosticNotification(k)
    BY <1>6 DEF AfterCall
  <2> QED
    BY <1>1, <1>2, <1>3, <1>5, <1>6, <2>1 DEF TotalOf
<1>7. CASE e.call = "Update"
  <2> DEFINE b == [k.data EXCEPT
                     !.t_rtd_distribution = AddTimeToTimingDistribution(@, e.rtd),
                     !.t_alive_distribution = AddTimeToTimingDistribution(@, e.alive),
                     !.message_counter = @ + 1]
             u == Kept(b, k.reports)
  <2>1. AfterCall(k, e) = IF b.message_counter >= NDiagWindow
                            THEN SendDiagnosticNotification(u) ELSE u
    BY <1>7 DEF AfterCall, UpdateConnectionDiagnostics
  <2>2. b \in Diagnostics /\ b.message_counter = k.data.message_counter + 1
    <3>1. /\ k.data.t_rtd_distribution \in [Bins -> Nat]
          /\ k.data.t_alive_distribution \in [Bins -> Nat]
      BY <1>1 DEF Diagnostics
    <3>2. /\ AddTimeToTimingDistribution(k.data.t_rtd_distribution, e.rtd) \in [Bins -> Nat]
          /\ AddTimeToTimingDistribution(k.data.t_alive_distribution, e.alive)
               \in [Bins -> Nat]
      BY <3>1, OneMoreTime
    <3>3. k.data.message_counter + 1 \in Nat
      BY <1>1
    <3> QED
      BY <1>1, <3>2, <3>3 DEF Diagnostics
  <2> HIDE DEF b
  <2>3. u.data = b /\ u.reports = k.reports
    BY DEF Kept
  <2> HIDE DEF u
  <2>4. TotalOf(SendDiagnosticNotification(u)) = Reported(k.reports) + b.message_counter
    BY <1>5, <2>2, <2>3
  <2>5. TotalOf(u) = Reported(k.reports) + b.message_counter
    BY <2>3 DEF TotalOf
  <2>6. TotalOf(AfterCall(k, e)) = Reported(k.reports) + b.message_counter
    BY <2>1, <2>4, <2>5
  <2> QED
    BY <1>1, <1>2, <1>3, <1>7, <2>2, <2>6 DEF TotalOf
<1>8. CASE e.call \notin {"Notify", "Update"}
  <2>1. e.call \in CallNames \ {"Init", "Notify", "Update"}
    BY <1>8 DEF SessionCalls
  <2>2. AfterCall(k, e) = Kept(Counted(k.data, e.call), k.reports)
    BY <2>1 DEF AfterCall
  <2>3. Counted(k.data, e.call).message_counter = k.data.message_counter
    BY <1>1, <2>1, CountedKeepsWindow
  <2> QED
    BY <1>1, <1>2, <1>3, <1>8, <2>2, <2>3 DEF TotalOf, Kept
<1> QED
  BY <1>6, <1>7, <1>8

(* The calls of a call of the stack during a session, ...                  *)
InSession(calls) ==
  calls \in Seq(DiagnosticCall) /\ \A i \in DOMAIN calls : calls[i].call \in SessionCalls

(* ... among them one with the times of a message.                         *)
SignOfLife(calls) == \E i \in DOMAIN calls : calls[i].call = "Update"

(* One call more.                                                          *)
LEMMA CallAppended ==
  ASSUME NEW b \in Diagnostics, IsConsistent(b), NEW calls, InSession(calls),
         NEW e \in DiagnosticCall, e.call \in SessionCalls
  PROVE  /\ InSession(Append(calls, e))
         /\ TotalOf(AfterCalls(b, calls)) \in Nat
         /\ TotalOf(AfterCalls(b, Append(calls, e)))
              = TotalOf(AfterCalls(b, calls)) + (IF e.call = "Update" THEN 1 ELSE 0)
         /\ e.call = "Notify" => AfterCalls(b, Append(calls, e)).data = NoDiagnostics
         /\ SignOfLife(Append(calls, e)) <=> SignOfLife(calls) \/ e.call = "Update"
<1> DEFINE more == Append(calls, e)
           N == Len(calls)
<1>1. /\ N \in Nat /\ DOMAIN calls = 1 .. N /\ more \in Seq(DiagnosticCall)
      /\ DOMAIN more = 1 .. N + 1 /\ more[N + 1] = e /\ \A i \in 1 .. N : more[i] = calls[i]
  BY DEF InSession
<1>2. /\ Good(AfterCalls(b, calls))
      /\ AfterCalls(b, more) = AfterCall(AfterCalls(b, calls), e)
  <2>1. calls \in Seq(DiagnosticCall) /\ \A i \in DOMAIN calls : calls[i].call \in CallNames
    BY DEF InSession, SessionCalls
  <2>2. e.call \in CallNames
    BY DEF SessionCalls
  <2> QED
    BY <2>1, <2>2, AfterCallsAppend
<1> HIDE DEF more, N
<1>3. InSession(more)
  <2>1. \A i \in 1 .. N + 1 : i \in 1 .. N \/ i = N + 1
    BY <1>1
  <2> QED
    BY <1>1, <2>1 DEF InSession
<1>4. SignOfLife(more) <=> SignOfLife(calls) \/ e.call = "Update"
  <2>1. /\ \A i \in 1 .. N + 1 : i \in 1 .. N \/ i = N + 1
        /\ \A i \in 1 .. N : i \in 1 .. N + 1
        /\ N + 1 \in 1 .. N + 1
    BY <1>1
  <2> QED
    BY <1>1, <2>1 DEF SignOfLife
<1> QED
  BY <1>2, <1>3, <1>4, CallCounts DEF more

(* Errors that are counted are no signs of life.                           *)
LEMMA ErrorsAppended ==
  ASSUME NEW b \in Diagnostics, IsConsistent(b), NEW calls, InSession(calls),
         NEW errors \in Seq([call : ErrorNames])
  PROVE  /\ InSession(calls \o errors)
         /\ TotalOf(AfterCalls(b, calls \o errors)) = TotalOf(AfterCalls(b, calls))
         /\ SignOfLife(calls \o errors) <=> SignOfLife(calls)
<1> DEFINE N == Len(errors)
           T == DiagnosticCall
           Up(n) == calls \o SubSeq(errors, 1, n)
           Same(l) == /\ InSession(l)
                      /\ TotalOf(AfterCalls(b, l)) = TotalOf(AfterCalls(b, calls))
                      /\ SignOfLife(l) <=> SignOfLife(calls)
           H == {n \in 0 .. N : Same(Up(n))}
<1>1. /\ N \in Nat /\ \A i \in 1 .. N : errors[i] \in [call : ErrorNames]
      /\ [call : ErrorNames] \subseteq T
  <2>1. [call : ErrorNames] \subseteq T
    BY DEF ErrorNames, DiagnosticCall
  <2> DEFINE E == [call : ErrorNames]
  <2>2. errors \in Seq(E)
    OBVIOUS
  <2> HIDE DEF E
  <2>3. N \in Nat /\ \A i \in 1 .. N : errors[i] \in E
    BY <2>2
  <2> QED
    BY <2>1, <2>3 DEF E
<1>2. calls \in Seq(T) /\ errors \in Seq(T)
  <2> DEFINE E == [call : ErrorNames]
  <2>1. E \subseteq T /\ errors \in Seq(E)
    BY <1>1
  <2> HIDE DEF E, T
  <2>2. errors \in Seq(T)
    BY <2>1
  <2> QED
    BY <2>2 DEF InSession, T
<1>3. \A i \in 1 .. N : /\ errors[i] \in T /\ errors[i].call \in SessionCalls
                        /\ errors[i].call # "Update"
  BY <1>1 DEF ErrorNames, SessionCalls, CallNames
<1> HIDE DEF T, Same, N
<1>4. 0 \in H
  <2>1. SubSeq(errors, 1, 0) = <<>>
    BY SubSeqEmpty
  <2>2. Up(0) = calls
    BY <1>2, <2>1, ConcatEmptySeq
  <2>3. Same(calls)
    BY DEF Same
  <2>4. Same(Up(0))
    <3> HIDE DEF Up
    <3> QED
      BY <2>2, <2>3
  <2> HIDE DEF Up
  <2> QED
    BY <1>1, <2>4
<1>5. ASSUME NEW n \in 1 .. N, n - 1 \in H
      PROVE  n \in H
  <2>1. SubSeq(errors, 1, n) = SubSeq(errors, 1, n - 1) \o << errors[n] >>
    <3>1. 1 \in 1 .. Len(errors) /\ n \in 1 .. Len(errors)
      BY <1>1 DEF N
    <3> QED
      BY <1>2, <3>1, SubSeqRecursiveSecond
  <2>2. SubSeq(errors, 1, n - 1) \in Seq(T)
    <3>1. \A i \in 1 .. n - 1 : errors[i] \in T
      BY <1>1, <1>3
    <3>2. 1 \in Int /\ n - 1 \in Int
      BY <1>1
    <3> QED
      BY <3>1, <3>2, SubSeqProperties
  <2>3. Up(n) = Append(Up(n - 1), errors[n])
    <3> DEFINE u == SubSeq(errors, 1, n - 1)
               v == << errors[n] >>
    <3>1. errors[n] \in T /\ v \in Seq(T)
      <4>1. \A e \in T : << e >> \in Seq(T)
        OBVIOUS
      <4> QED
        BY <1>3, <4>1
    <3>2. u \in Seq(T) /\ Up(n) = calls \o (u \o v)
      BY <2>1, <2>2
    <3> HIDE DEF u
    <3>3. calls \o (u \o v) = (calls \o u) \o v
      BY <1>2, <3>1, <3>2, ConcatAssociative
    <3>4. Append(calls \o u, errors[n]) = (calls \o u) \o v
      <4>1. calls \o u \in Seq(T)
        BY <1>2, <3>2, ConcatProperties
      <4> QED
        BY <3>1, <4>1, AppendIsConcat
    <3> QED
      BY <3>2, <3>3, <3>4 DEF u
  <2> HIDE DEF Up
  <2>4. Same(Up(n - 1)) /\ n \in 0 .. N
    BY <1>5
  <2>5. Same(Append(Up(n - 1), errors[n]))
    <3>1. InSession(Up(n - 1))
      BY <2>4 DEF Same
    <3>2. errors[n] \in DiagnosticCall /\ errors[n].call \in SessionCalls
          /\ errors[n].call # "Update"
      BY <1>3 DEF T
    <3> DEFINE l == Up(n - 1)
               e == errors[n]
    <3>3. /\ InSession(Append(l, e))
          /\ TotalOf(AfterCalls(b, l)) \in Nat
          /\ TotalOf(AfterCalls(b, Append(l, e))) = TotalOf(AfterCalls(b, l)) + 0
          /\ SignOfLife(Append(l, e)) <=> SignOfLife(l)
      BY <3>1, <3>2, CallAppended
    <3> QED
      BY <2>4, <3>3 DEF Same
  <2> QED
    BY <2>3, <2>4, <2>5
<1> HIDE DEF H, Up
<1>6. \A n \in 0 .. N : n \in H
  BY <1>1, <1>4, <1>5, InductionUpTo
<1>7. Same(Up(N))
  <2>1. N \in 0 .. N
    BY <1>1
  <2> QED
    BY <1>6, <2>1 DEF H
<1>8. Up(N) = calls \o errors
  <2>1. SubSeq(errors, 1, Len(errors)) = errors
    BY <1>2, SubSeqFull
  <2> QED
    BY <2>1 DEF Up, N
<1> QED
  BY <1>7, <1>8 DEF Same

-----------------------------------------------------------------------------
(* During a call of the stack.                                             *)

(* An open end confirms what it processed.                                 *)
Confirmable(p) == p.state # "Closed" => Caught(p)

(* The timer was set at the time t.                                        *)
TimerAt(p, t) == SetAt(p, t) \/ (p.ctsR = t /\ p.ti = TMax)

(* The call found the connection p and the diagnostics b, and has made q   *)
(* of p: the data in the received buffer is counted.                       *)
Accounts(p, q, b) ==
  /\ InSession(q.calls)
  /\ Len(q.recvBuf) + b.message_counter
       <= Len(p.recvBuf) + TotalOf(AfterCalls(b, q.calls))
  /\ q.state = "Closed" => AfterCalls(b, q.calls).data = NoDiagnostics

(* The timer is set when there is a sign of life, and only then.           *)
Timed(p, q, t) ==
  q.state \in OpenStates =>
    \/ /\ TimerAt(q, t)
       /\ SignOfLife(q.calls) \/ (p.state = "Down" /\ q.server /\ q.state = "Start")
    \/ p.state \in OpenStates /\ q.ctsR = p.ctsR /\ q.ti = p.ti /\ ~ SignOfLife(q.calls)

(* What the call has made of p so far.                                     *)
During(p, q, b, t) ==
  /\ ConnInv(q)
  /\ Confirmable(q) /\ Accounts(p, q, b) /\ Timed(p, q, t)
  /\ q.state = "Closed" => q.inbox = <<>>
  /\ q.state = "Down" => q.server /\ q.ti = TMax /\ p.state = "Down"

(* The diagnostics the call found, and the time.                           *)
Found(b, t) == b \in Diagnostics /\ IsConsistent(b) /\ t \in SeqNums

(* What is quiet neither counts nor sets the timer.                        *)
LEMMA DuringQuiet ==
  ASSUME NEW p, NEW b, NEW t, Found(b, t), NEW q, During(p, q, b, t),
         NEW r, Quiet(q, r)
  PROVE  During(p, r, b, t)
<1>1. ConnInv(r) /\ r.server = q.server
  BY DEF Quiet, Continues
<1>2. Confirmable(r)
  BY DEF During, Quiet, StaysOpen, Confirmable, OpenStates
<1>3. r.state = q.state \/ (r.state \in OpenStates /\ q.state \in OpenStates
                              /\ ~ (q.server /\ q.state = "Start"))
  BY DEF Quiet, StaysOpen
<1>4. Accounts(p, r, b)
  BY <1>3 DEF During, Accounts, Quiet, OpenStates
<1>5. SetAt(q, t) <=> SetAt(r, t)
  BY DEF SetAt, Quiet
<1>6. Timed(p, r, t)
  <2>1. r.ctsR = q.ctsR /\ r.ti = q.ti /\ r.calls = q.calls
    BY DEF Quiet
  <2>2. q.state \in OpenStates => r.state \in OpenStates
    BY <1>3
  <2>3. r.state \in OpenStates => q.state \in OpenStates
    BY <1>3
  <2> QED
    BY <1>1, <1>3, <1>5, <2>1, <2>2, <2>3 DEF During, Timed, TimerAt
<1>7. /\ r.state = "Closed" => r.inbox = <<>>
      /\ r.state = "Down" => r.server /\ r.ti = TMax /\ p.state = "Down"
  BY <1>1, <1>3 DEF During, Quiet, OpenStates
<1> QED
  BY <1>1, <1>2, <1>4, <1>6, <1>7 DEF During

(* A connection that closes hands its diagnostics over.                    *)
LEMMA DuringCloses ==
  ASSUME NEW p, NEW b, NEW t, Found(b, t), NEW q, During(p, q, b, t),
         NEW r, Closes(q, r)
  PROVE  During(p, r, b, t)
<1>1. ConnInv(r) /\ Confirmable(r)
  BY DEF Closes, Continues, Confirmable
<1>2. Accounts(p, r, b)
  <2> DEFINE e == [call |-> "Notify"]
  <2>1. e \in DiagnosticCall /\ e.call = "Notify" /\ e.call \in SessionCalls
    BY DEF DiagnosticCall, SessionCalls, CallNames
  <2> HIDE DEF e
  <2>2. InSession(q.calls) /\ b \in Diagnostics /\ IsConsistent(b)
    BY DEF During, Accounts, Found
  <2>3. /\ InSession(Append(q.calls, e))
        /\ TotalOf(AfterCalls(b, q.calls)) \in Nat
        /\ TotalOf(AfterCalls(b, Append(q.calls, e))) = TotalOf(AfterCalls(b, q.calls)) + 0
        /\ AfterCalls(b, Append(q.calls, e)).data = NoDiagnostics
    BY <2>1, <2>2, CallAppended
  <2>4. r.calls = Append(q.calls, e) /\ r.recvBuf = q.recvBuf
    BY DEF Closes, e
  <2> QED
    BY <2>3, <2>4 DEF During, Accounts
<1>3. /\ Timed(p, r, t) /\ r.state # "Down"
      /\ r.state = "Closed" => r.inbox = <<>>
  BY DEF Closes, Timed, OpenStates
<1> QED
  BY <1>1, <1>2, <1>3 DEF During

(* A sign of life sets the timer and is counted.                           *)
LEMMA DuringLives ==
  ASSUME NEW p, p \in Connection, NEW b, NEW t, Found(b, t), NEW q,
         During(p, q, b, t), NEW r, Lives(q, r, t)
  PROVE  During(p, r, b, t)
<1>1. ConnInv(r) /\ Confirmable(r)
  BY DEF Lives, Continues, Confirmable
<1>2. PICK e \in DiagnosticCall : e.call = "Update" /\ r.calls = Append(q.calls, e)
  BY DEF Lives
<1>3. /\ InSession(Append(q.calls, e))
      /\ TotalOf(AfterCalls(b, q.calls)) \in Nat
      /\ TotalOf(AfterCalls(b, Append(q.calls, e))) = TotalOf(AfterCalls(b, q.calls)) + 1
      /\ SignOfLife(Append(q.calls, e))
  <2>1. InSession(q.calls) /\ b \in Diagnostics /\ IsConsistent(b)
    BY DEF During, Accounts, Found
  <2>2. e.call \in SessionCalls
    BY <1>2 DEF SessionCalls, CallNames
  <2> QED
    BY <1>2, <2>1, <2>2, CallAppended
<1>4. r.state \in OpenStates /\ r.state # "Closed" /\ r.state # "Down"
  BY DEF Lives, OpenStates
<1>5. Accounts(p, r, b)
  <2>1. Len(r.recvBuf) \in Nat /\ Len(q.recvBuf) \in Nat /\ Len(p.recvBuf) \in Nat
    <3>1. \A x \in Connection : Len(x.recvBuf) \in Nat
      BY DEF Connection
    <3> QED
      BY <1>1, <3>1 DEF During, ConnInv
  <2>2. b.message_counter \in Nat
    BY DEF Found, Diagnostics
  <2>3. Len(r.recvBuf) <= Len(q.recvBuf) + 1
    BY DEF Lives
  <2>4. Len(q.recvBuf) + b.message_counter
          <= Len(p.recvBuf) + TotalOf(AfterCalls(b, q.calls))
    BY DEF During, Accounts
  <2>5. Len(r.recvBuf) + b.message_counter
          <= Len(p.recvBuf) + TotalOf(AfterCalls(b, r.calls))
    BY <1>2, <1>3, <2>1, <2>2, <2>3, <2>4
  <2> QED
    BY <1>2, <1>3, <1>4, <2>5 DEF Accounts
<1>6. Timed(p, r, t)
  BY <1>2, <1>3 DEF Lives, Timed, TimerAt
<1> QED
  BY <1>1, <1>4, <1>5, <1>6 DEF During

(* A server that answers a connection request starts its timer.            *)
LEMMA DuringStarts ==
  ASSUME NEW p, NEW b, NEW t, Found(b, t), NEW q, During(p, q, b, t),
         NEW r, Starts(q, r, t)
  PROVE  During(p, r, b, t)
<1>1. ConnInv(r) /\ Confirmable(r)
  BY DEF Starts, Continues, Confirmable
<1>2. Accounts(p, r, b) /\ r.state = "Start"
  BY DEF During, Accounts, Starts
<1>3. Timed(p, r, t)
  BY DEF During, Starts, Continues, Timed, TimerAt
<1> QED
  BY <1>1, <1>2, <1>3 DEF During

(* A message is taken from the redundancy channel.                         *)
LEMMA DuringReads ==
  ASSUME NEW p, NEW b, NEW t, Found(b, t), NEW q, During(p, q, b, t),
         q.inbox # <<>>, NEW errors \in Seq([call : ErrorNames]),
         NEW r, Reads(q, r, Head(q.inbox), errors)
  PROVE  During(p, r, b, t) /\ r.state # "Closed"
<1>1. ConnInv(r) /\ q.state # "Closed" /\ r.state # "Closed"
  BY DEF During, Reads
<1>4. Confirmable(r)
  <2>1. r.csT = q.csT /\ r.snR = q.snR
    BY DEF Reads
  <2> QED
    BY <1>1, <2>1 DEF During, Confirmable, Caught
<1>5. /\ InSession(r.calls)
      /\ TotalOf(AfterCalls(b, r.calls)) = TotalOf(AfterCalls(b, q.calls))
      /\ SignOfLife(r.calls) <=> SignOfLife(q.calls)
  <2>1. InSession(q.calls) /\ b \in Diagnostics /\ IsConsistent(b)
    BY DEF During, Accounts, Found
  <2>2. r.calls = q.calls \o errors
    BY DEF Reads
  <2> QED
    BY <2>1, <2>2, ErrorsAppended
<1>6. /\ r.state = q.state /\ r.recvBuf = q.recvBuf /\ r.ctsR = q.ctsR /\ r.ti = q.ti
      /\ r.server = q.server
  BY DEF Reads
<1>7. Accounts(p, r, b)
  BY <1>1, <1>5, <1>6 DEF During, Accounts
<1>8. Timed(p, r, t)
  BY <1>5, <1>6 DEF During, Timed, TimerAt, SetAt
<1> QED
  BY <1>1, <1>4, <1>6, <1>7, <1>8 DEF During

(* An iteration of the receive loop.                                       *)
LEMMA DuringIteration ==
  ASSUME NEW p, p \in Connection, NEW b, NEW t, Found(b, t), NEW q,
         During(p, q, b, t), ReceivingGoesOn(q)
  PROVE  During(p, ReceiveOne(q, t), b, t)
<1>1. CASE q.inbox = <<>>
  <2>1. Quiet(q, ReceiveOne(q, t))
    BY <1>1, PendingQuiet DEF ReceiveOne, During
  <2> QED
    BY <2>1, DuringQuiet
<1>2. CASE q.inbox # <<>>
  <2>1. q.state # "Closed" /\ ConnInv(q) /\ t \in SeqNums
    BY <1>2 DEF During, Found
  <2>2. PICK r, errors :
           /\ errors \in Seq([call : ErrorNames])
           /\ Reads(q, r, Head(q.inbox), errors)
           /\ ReceiveOne(q, t) = r \/ Goes(r, ReceiveOne(q, t), t)
    BY <1>2, <2>1, ReceiveOneReads
  <2>3. During(p, r, b, t)
    BY <1>2, <2>2, DuringReads
  <2> QED
    BY <2>2, <2>3, DuringCloses, DuringLives, DuringQuiet, DuringStarts DEF Goes
<1> QED
  BY <1>1, <1>2

(* The receive loop.                                                       *)
LEMMA DuringLoop ==
  ASSUME NEW p, p \in Connection, NEW b, NEW t, Found(b, t), NEW q,
         During(p, q, b, t)
  PROVE  During(p, ReceiveLoop(q, t), b, t)
<1> DEFINE S == {r \in Connection : During(p, r, b, t)}
<1>1. ConnInv(q) /\ q \in S
  BY DEF During, ConnInv
<1>2. KeptByIteration(S, t)
  <2> SUFFICES ASSUME NEW r \in S, ReceivingGoesOn(r)
               PROVE  ReceiveOne(r, t) \in S
    BY DEF KeptByIteration
  <2>1. During(p, ReceiveOne(r, t), b, t)
    BY DuringIteration
  <2> QED
    BY <2>1 DEF During, ConnInv
<1> HIDE DEF S
<1>3. ReceiveLoop(q, t) \in S
  BY <1>1, <1>2, LoopKeeps
<1> QED
  BY <1>3 DEF S

-----------------------------------------------------------------------------
(* Between the calls.                                                      *)

(* The connection p with the diagnostics b: its calls of sr_diagnostics    *)
(* are dealt with, nothing of a session that ended is left, and of the     *)
(* messages that were received with data the reports count n, and the      *)
(* application got h.                                                      *)
EndGood(p, b, n, h) ==
  /\ ConnInv(p) /\ p.calls = <<>> /\ Confirmable(p)
  /\ b \in Diagnostics /\ IsConsistent(b)
  /\ p.state = "Closed" => p.inbox = <<>> /\ b = NoDiagnostics
  /\ p.state = "Down" => p.server /\ p.ti = TMax
  /\ n \in Nat /\ h \in Nat
  /\ h + Len(p.recvBuf) <= n + b.message_counter

(* Nothing was called so far.                                              *)
LEMMA NothingCalled ==
  ASSUME NEW b \in Diagnostics, IsConsistent(b)
  PROVE  /\ InSession(<<>>) /\ ~ SignOfLife(<<>>)
         /\ AfterCalls(b, <<>>).data = b
         /\ TotalOf(AfterCalls(b, <<>>)) = b.message_counter
<1>1. <<>> \in Seq(DiagnosticCall) /\ DOMAIN <<>> = {} /\ Len(<<>>) = 0
  OBVIOUS
<1>2. InSession(<<>>) /\ ~ SignOfLife(<<>>)
  BY <1>1 DEF InSession, SignOfLife
<1>3. \A i \in DOMAIN <<>> : <<>>[i].call \in CallNames
  BY <1>1
<1>4. PICK f : Records(f, b, <<>>) /\ AfterCalls(b, <<>>) = f[Len(<<>>)]
  BY <1>1, <1>3, AfterCallsRecorded
<1>5. AfterCalls(b, <<>>) = Kept(b, <<>>)
  BY <1>1, <1>4 DEF Records
<1>6. b.message_counter \in Nat
  BY DEF Diagnostics
<1> QED
  BY <1>2, <1>5, <1>6, NothingReported DEF Kept, TotalOf

(* A call begins.                                                          *)
LEMMA DuringSelf ==
  ASSUME NEW p, NEW b, NEW n, NEW h, EndGood(p, b, n, h), NEW t
  PROVE  During(p, p, b, t)
<1>1. b \in Diagnostics /\ IsConsistent(b)
  BY DEF EndGood
<1>2. Accounts(p, p, b)
  <2>1. Len(p.recvBuf) + b.message_counter <= Len(p.recvBuf) + b.message_counter
    <3>1. Len(p.recvBuf) \in Nat /\ b.message_counter \in Nat
      BY DEF EndGood, ConnInv, Connection, Diagnostics
    <3> QED
      BY <3>1
  <2> QED
    BY <1>1, <2>1, NothingCalled DEF EndGood, Accounts
<1>3. Timed(p, p, t)
  BY <1>1, NothingCalled DEF EndGood, Timed
<1> QED
  BY <1>2, <1>3 DEF EndGood, During

(* What was handed over and what is still there, after more was counted.   *)
LEMMA StillCounted ==
  ASSUME NEW before \in Nat, NEW after \in Nat, NEW n \in Nat, NEW h \in Nat,
         NEW old \in Nat, NEW new \in Nat, NEW reported \in Nat,
         h + before <= n + old, after + old <= before + (reported + new)
  PROVE  n + reported \in Nat /\ h + after <= (n + reported) + new
OBVIOUS

(* A call ends.                                                            *)
LEMMA DuringEnds ==
  ASSUME NEW p, NEW b, NEW n, NEW h, EndGood(p, b, n, h),
         NEW t, NEW q, During(p, q, b, t)
  PROVE  LET k == AfterCalls(b, q.calls)
         IN  /\ EndGood(CallEnded(q), k.data, n + Reported(k.reports), h)
             /\ Reported(k.reports) \in Nat
<1> DEFINE k == AfterCalls(b, q.calls)
           e == CallEnded(q)
<1>1. /\ ConnInv(e) /\ SameButQueues(q, e)
      /\ e.inbox = q.inbox /\ e.recvBuf = q.recvBuf /\ e.calls = <<>>
  BY CallEndedKeeps DEF During
<1>2. Good(k)
  <2>1. /\ q.calls \in Seq(DiagnosticCall)
        /\ \A i \in DOMAIN q.calls : q.calls[i].call \in CallNames
    BY DEF During, Accounts, InSession, SessionCalls
  <2>2. b \in Diagnostics /\ IsConsistent(b)
    BY DEF EndGood
  <2>3. PICK f : /\ AfterCalls(b, q.calls) = f[Len(q.calls)]
                 /\ \A i \in 0 .. Len(q.calls) : Good(f[i])
    BY <2>1, <2>2, AfterCallsRecorded
  <2>4. Len(q.calls) \in 0 .. Len(q.calls)
    BY <2>1
  <2> QED
    BY <2>3, <2>4
<1>3. Len(q.recvBuf) + b.message_counter <= Len(p.recvBuf) + TotalOf(k)
  BY DEF During, Accounts
<1>4. q.state = "Closed" => k.data = NoDiagnostics
  BY DEF During, Accounts
<1> HIDE DEF k, e
<1>5. /\ k.data \in Diagnostics /\ IsConsistent(k.data)
      /\ Reported(k.reports) \in Nat /\ k.data.message_counter \in Nat
  <2>1. k.data \in Diagnostics /\ k.reports \in Seq(Diagnostics) /\ IsConsistent(k.data)
    BY <1>2 DEF Good, Keeps
  <2>2. \A x \in Diagnostics : x.message_counter \in Nat
    BY DEF Diagnostics
  <2> QED
    BY <2>1, <2>2, ReportedAppend
<1>6. Confirmable(e)
  BY <1>1 DEF During, Confirmable, SameButQueues, Caught
<1>7. /\ n + Reported(k.reports) \in Nat
      /\ h + Len(e.recvBuf) <= (n + Reported(k.reports)) + k.data.message_counter
  <2>1. \A x \in Connection : Len(x.recvBuf) \in Nat
    BY DEF Connection
  <2>2. Len(p.recvBuf) \in Nat /\ Len(q.recvBuf) \in Nat
    BY <2>1 DEF EndGood, During, ConnInv
  <2>3. /\ n \in Nat /\ h \in Nat /\ b.message_counter \in Nat
        /\ h + Len(p.recvBuf) <= n + b.message_counter
    BY DEF EndGood, Diagnostics
  <2>4. Len(e.recvBuf) = Len(q.recvBuf)
    BY <1>1
  <2> DEFINE before == Len(p.recvBuf)
             after == Len(q.recvBuf)
             reported == Reported(k.reports)
             old == b.message_counter
             new == k.data.message_counter
  <2>5. after + old <= before + (reported + new)
    BY <1>3 DEF TotalOf
  <2>6. /\ before \in Nat /\ after \in Nat /\ reported \in Nat /\ old \in Nat
        /\ new \in Nat /\ n \in Nat /\ h \in Nat /\ h + before <= n + old
        /\ Len(e.recvBuf) = after
    BY <1>5, <2>2, <2>3, <2>4
  <2> HIDE DEF before, after, reported, old, new
  <2>7. n + reported \in Nat /\ h + after <= (n + reported) + new
    BY <2>5, <2>6, StillCounted
  <2> QED
    BY <2>6, <2>7 DEF after, reported, new
<1>8. /\ e.state = "Closed" => e.inbox = <<>> /\ k.data = NoDiagnostics
      /\ e.state = "Down" => e.server /\ e.ti = TMax
  BY <1>1, <1>4 DEF During, SameButQueues
<1>9. h \in Nat
  BY DEF EndGood
<1>10. EndGood(e, k.data, n + Reported(k.reports), h)
  BY <1>1, <1>5, <1>6, <1>7, <1>8, <1>9 DEF EndGood
<1> QED
  BY <1>5, <1>10 DEF k, e

-----------------------------------------------------------------------------
(* The calls.                                                              *)

(* A message arrives, and sradno_MessageReceivedNotification is called.    *)
LEMMA DuringNotified ==
  ASSUME NEW p, p \in Connection, NEW b, NEW t, Found(b, t), NEW q,
         During(p, q, b, t), q.state # "Closed", NEW m \in PDU
  PROVE  During(p, MessageReceivedNotification([q EXCEPT !.inbox = Append(@, m)], t), b, t)
<1> DEFINE r == [q EXCEPT !.inbox = Append(@, m)]
           u == [r EXCEPT !.pending = TRUE]
<1>1. /\ ConnInv(r) /\ SameButQueues(q, r)
      /\ r.inbox = Append(q.inbox, m) /\ q.inbox \in Seq(PDU)
      /\ r.recvBuf = q.recvBuf /\ r.calls = q.calls
  BY ArrivedKeeps DEF During
<1>2. MessageReceivedNotification(r, t) = ReceiveLoop(u, t)
  BY DEF MessageReceivedNotification
<1>3. Quiet(r, u)
  BY <1>1, PendingQuiet
<1> HIDE DEF r, u
<1>4. Confirmable(r)
  BY <1>1 DEF During, Confirmable, Caught, SameButQueues
<1>5. Accounts(p, r, b)
  BY <1>1 DEF During, Accounts, SameButQueues
<1>6. Timed(p, r, t)
  BY <1>1 DEF During, Timed, TimerAt, SetAt, SameButQueues
<1>7. During(p, r, b, t)
  BY <1>1, <1>4, <1>5, <1>6 DEF During, SameButQueues
<1>8. During(p, u, b, t)
  BY <1>3, <1>7, DuringQuiet
<1>9. During(p, ReceiveLoop(u, t), b, t)
  BY <1>8, DuringLoop
<1> QED
  BY <1>2, <1>9 DEF r

(* srapi_CheckTimings, after which the timer of no open connection has run *)
(* out.                                                                    *)
LEMMA DuringCheckTimings ==
  ASSUME NEW p, NEW b, NEW n, NEW h, EndGood(p, b, n, h),
         NEW t \in SeqNums
  PROVE  LET q == CheckTimings(p, t)
         IN  /\ During(p, q, b, t)
             /\ q.state \in OpenStates => Minus(t, q.ctsR) <= q.ti
<1> DEFINE r == ReceiveLoop(p, t)
           q == CheckTimers(r, t)
<1>1. p \in Connection /\ Found(b, t)
  BY DEF EndGood, ConnInv, Found
<1>2. During(p, r, b, t)
  BY <1>1, DuringSelf, DuringLoop
<1> HIDE DEF r
<1>3. \/ Closes(r, q)
      \/ Quiet(r, q) /\ (r.state \in OpenStates => Minus(t, r.ctsR) <= r.ti)
  BY <1>2, CheckTimersEffect DEF During
<1>4. CheckTimings(p, t) = q
  BY DEF CheckTimings, r
<1> HIDE DEF q
<1>5. CASE Closes(r, q)
  <2>1. During(p, q, b, t)
    BY <1>1, <1>2, <1>5, DuringCloses
  <2>2. q.state \notin OpenStates
    BY <1>5 DEF Closes, OpenStates
  <2> QED
    BY <1>4, <2>1, <2>2
<1>6. CASE Quiet(r, q) /\ (r.state \in OpenStates => Minus(t, r.ctsR) <= r.ti)
  <2>1. During(p, q, b, t)
    BY <1>1, <1>2, <1>6, DuringQuiet
  <2>2. q.state \in OpenStates => Minus(t, q.ctsR) <= q.ti
    BY <1>6 DEF Quiet, StaysOpen
  <2> QED
    BY <1>4, <2>1, <2>2
<1> QED
  BY <1>3, <1>5, <1>6

(* srapi_SendData, srapi_CloseConnection, and srapi_OpenConnection of a    *)
(* connection that is open.                                                *)
LEMMA DuringOtherCalls ==
  ASSUME NEW p, NEW b, NEW n, NEW h, EndGood(p, b, n, h), p.state # "Closed",
         NEW t \in SeqNums, NEW sn
  PROVE  /\ During(p, SendData(p, 0, t), b, t)
         /\ During(p, CloseConnectionCall(p, t), b, t)
         /\ During(p, OpenConnection(p, sn, t), b, t)
<1>1. ConnInv(p) /\ Found(b, t) /\ During(p, p, b, t)
  BY DuringSelf DEF EndGood, Found
<1>2. Closes(p, SendData(p, 0, t)) \/ Quiet(p, SendData(p, 0, t))
  BY <1>1, SendDataEffect
<1>3. Closes(p, CloseConnectionCall(p, t)) /\ Closes(p, OpenConnection(p, sn, t))
  BY <1>1, CloseCallCloses
<1> QED
  BY <1>1, <1>2, <1>3, DuringCloses, DuringQuiet

(* srapi_ReadData                                                          *)
LEMMA DuringRead ==
  ASSUME NEW p, NEW b, NEW n, NEW h, EndGood(p, b, n, h), p.recvBuf # <<>>,
         NEW t \in SeqNums
  PROVE  LET q == ReadData(p)
         IN  /\ EndGood(q, b, n, h + 1) /\ During(q, q, b, t)
             /\ q.state = p.state /\ q.ctsR = p.ctsR /\ q.ti = p.ti
<1> DEFINE q == ReadData(p)
<1>1. /\ ConnInv(q) /\ SameButQueues(p, q)
      /\ q.inbox = p.inbox /\ q.calls = p.calls /\ Len(q.recvBuf) = Len(p.recvBuf) - 1
  BY ReadDataKeeps DEF EndGood
<1> HIDE DEF q
<1>2. Len(p.recvBuf) \in Nat /\ b.message_counter \in Nat /\ n \in Nat /\ h \in Nat
  BY DEF EndGood, ConnInv, Connection, Diagnostics
<1>3. (h + 1) + Len(q.recvBuf) <= n + b.message_counter
  <2> DEFINE before == Len(p.recvBuf)
             after == Len(q.recvBuf)
             old == b.message_counter
  <2>1. h + before <= n + old
    BY DEF EndGood
  <2>2. after = before - 1 /\ before \in Nat /\ old \in Nat
    BY <1>1, <1>2
  <2> HIDE DEF before, after, old
  <2>3. (h + 1) + after <= n + old
    BY <1>2, <2>1, <2>2
  <2> QED
    BY <2>3 DEF after, old
<1>4. h + 1 \in Nat
  BY <1>2
<1>5. EndGood(q, b, n, h + 1)
  BY <1>1, <1>3, <1>4 DEF EndGood, SameButQueues, Confirmable, Caught
<1>6. During(q, q, b, t)
  BY <1>5, DuringSelf
<1>7. q.state = p.state /\ q.ctsR = p.ctsR /\ q.ti = p.ti
  BY <1>1 DEF SameButQueues
<1> QED
  BY <1>5, <1>6, <1>7 DEF q

(* srapi_OpenConnection starts a session of which nothing was received.    *)
LEMMA OpenedGood ==
  ASSUME NEW p, ConnInv(p), p.state = "Closed", p.calls = <<>>,
         NEW sn \in SeqNums, NEW t \in SeqNums
  PROVE  LET q == OpenConnection(p, sn, t)
             e == CallEnded(q)
         IN  /\ EndGood(e, NoDiagnostics, 0, 0)
             /\ e.state \in OpenStates => TimerAt(e, t)
             /\ e.state = IF p.server THEN "Down" ELSE "Start"
             /\ e.inbox = <<>>
             /\ q.calls = << [call |-> "Init"] >>
<1> DEFINE q == OpenConnection(p, sn, t)
           e == CallEnded(q)
<1>1. Opens(p, q, t)
  BY OpenConnectionOpens
<1> HIDE DEF q
<1>2. /\ ConnInv(e) /\ SameButQueues(q, e)
      /\ e.inbox = q.inbox /\ e.recvBuf = q.recvBuf /\ e.calls = <<>>
  BY <1>1, CallEndedKeeps DEF Opens
<1> HIDE DEF e
<1>3. Confirmable(e)
  BY <1>1, <1>2 DEF Opens, SameButQueues, Confirmable, Caught
<1>4. Len(e.recvBuf) = 0 /\ NoDiagnostics.message_counter = 0
  <2>1. Len(<<>>) = 0
    OBVIOUS
  <2> QED
    BY <1>1, <1>2, <2>1 DEF Opens, NoDiagnostics
<1>5. /\ e.state = "Closed" => e.inbox = <<>>
      /\ e.state = "Down" => e.server /\ e.ti = TMax
  BY <1>1, <1>2 DEF Opens, SameButQueues
<1>6. EndGood(e, NoDiagnostics, 0, 0)
  <2>1. 0 \in Nat /\ 0 + Len(e.recvBuf) <= 0 + NoDiagnostics.message_counter
    BY <1>4
  <2> QED
    BY <1>2, <1>3, <1>5, <2>1, NoDiagnosticsGood DEF EndGood
<1>7. /\ e.state \in OpenStates => TimerAt(e, t)
      /\ e.state = IF p.server THEN "Down" ELSE "Start"
      /\ e.inbox = <<>>
  BY <1>1, <1>2 DEF Opens, OpenStates, SameButQueues, TimerAt
<1>8. q.calls = << [call |-> "Init"] >>
  <2>1. \A e1 : Append(<<>>, e1) = << e1 >>
    OBVIOUS
  <2> QED
    BY <1>1, <2>1 DEF Opens
<1> QED
  BY <1>6, <1>7, <1>8 DEF q, e

-----------------------------------------------------------------------------
(* Time.                                                                   *)

(* What rasys_GetTimerValue returns when the time has advanced by n.       *)
TimeAt(n) == (StartTime + n) % SeqMod

(* The time is a number of the width of the timer.                         *)
LEMMA TimeType ==
  ASSUME NEW n \in Nat
  PROVE  TimeAt(n) \in SeqNums
<1>1. StartTime + n \in Int /\ SeqMod \in Nat /\ SeqMod > 0
  BY EndpointAssumption, SizesKnown DEF SeqNums
<1> QED
  BY <1>1, Quotient DEF TimeAt, SeqNums

(* The timer as it was set e ticks ago: its value is still their distance, *)
(* also if the time has wrapped around since.                              *)
LEMMA NoticedInTime ==
  ASSUME NEW p, NEW n \in Nat, NEW e \in Nat, e <= TMax + Granularity + Period,
         TimerAt(p, TimeAt(n)), Minus(TimeAt(n + e), p.ctsR) <= p.ti
  PROVE  e <= TMax + Granularity
<1> DEFINE u == TimeAt(n)
           v == TimeAt(n + e)
           M == SeqMod
<1>1. /\ M \in Nat /\ M > 0 /\ TMax \in Nat /\ Granularity \in 0 .. M - 1
      /\ Period \in Nat /\ 2 * TMax + Granularity + Period < M
  BY EndpointAssumption, SizesKnown
<1>2. u \in 0 .. M - 1 /\ v \in 0 .. M - 1
  BY TimeType DEF SeqNums
<1>3. Minus(v, u) = e
  <2> DEFINE a == StartTime + (n + e)
             b == StartTime + n
  <2>1. a \in Int /\ b \in Int /\ a - b = e
    BY EndpointAssumption, SizesKnown DEF SeqNums
  <2>2. (IF (a % M) >= (b % M) THEN (a % M) - (b % M) ELSE (a % M) - (b % M) + M)
          = IF a >= b THEN a - b ELSE a - b + M
    <3>1. a - b < M /\ b - a < M
      BY <1>1, <2>1
    <3>2. M \in Nat /\ M > 0 /\ a \in Int /\ b \in Int
      BY <1>1, <2>1
    <3> HIDE DEF a, b, M
    <3> QED
      BY <3>1, <3>2, RemainderDistance, Zenon
  <2>3. a >= b
    BY <2>1
  <2> QED
    BY <2>1, <2>2, <2>3 DEF Minus, TimeAt
<1> HIDE DEF u, v
<1>4. CASE p.ctsR = u /\ p.ti = TMax
  BY <1>1, <1>3, <1>4 DEF v
<1>5. CASE SetAt(p, u)
  <2>1. PICK r \in 0 .. TMax : p.ti = TMax - r /\ p.ctsR = Minus(Plus(u, Granularity), r)
    BY <1>5 DEF SetAt
  <2>2. ASSUME e > TMax + Granularity
        PROVE  FALSE
    <3> DEFINE x == Plus(u, Granularity)
               y == Minus(x, r)
    <3>1. (v = u + e \/ v = u + e - M)
      BY <1>1, <1>2, <1>3 DEF Minus
    <3>2. (x = u + Granularity \/ x = u + Granularity - M) /\ x \in 0 .. M - 1
      BY <1>1, <1>2 DEF Plus
    <3>3. r \in Nat /\ r <= TMax /\ r < M
      BY <1>1
    <3> HIDE DEF x
    <3>4. (y = x - r \/ y = x - r + M) /\ y \in 0 .. M - 1
      BY <1>1, <3>2, <3>3 DEF Minus
    <3> HIDE DEF y
    <3>5. Minus(v, y) <= TMax - r
      BY <2>1 DEF v, x, y
    <3>6. v >= y => v - y <= TMax - r
      BY <1>1, <1>2, <3>4, <3>5 DEF Minus
    <3>7. v < y => v - y + M <= TMax - r
      BY <1>1, <1>2, <3>4, <3>5 DEF Minus
    <3> DEFINE g == Granularity
    <3>8. g \in 0 .. M - 1 /\ e - g + r > TMax + r /\ e - g + r <= 2 * TMax + Period
          /\ e - g + r < M
      BY <1>1, <2>2, <3>3
    <3> HIDE DEF M, g
    <3> QED
      BY <1>1, <1>2, <3>1, <3>2, <3>3, <3>4, <3>6, <3>7, <3>8 DEF g
  <2> QED
    BY <1>1, <2>2
<1> QED
  BY <1>4, <1>5 DEF TimerAt, u

-----------------------------------------------------------------------------
(* The message that is due next, of whatever type, is a message.           *)
LEMMA DueType ==
  ASSUME NEW p \in Connection, NEW type \in MessageTypes, ticks \in Nat
  PROVE  Due(p, type) \in PDU
<1>1. now \in SeqNums
  BY TimeType DEF now, TimeAt
<1>2. /\ p.snR \in SeqNums /\ p.tsT \in SeqNums /\ p.snT \in SeqNums
      /\ Minus(p.snT, 1) \in SeqNums
  <2>1. p.snR \in SeqNums /\ p.tsT \in SeqNums /\ p.snT \in SeqNums
    BY DEF Connection
  <2> QED
    BY <2>1, SmallNumbers, PlusMinusType
<1>3. 0 \in SeqNums /\ PeerNumber \in SeqNums /\ PeerNSendMax \in Nat /\ 0 \in Nat
  BY EndpointAssumption, SmallNumbers
<1> QED
  BY <1>1, <1>2, <1>3 DEF Due, PDU

(* Whatever may arrive is a message.                                       *)
LEMMA ArrivingType ==
  ASSUME c \in Connection, ticks \in Nat
  PROVE  Arriving \subseteq PDU
<1>1. now \in SeqNums
  BY TimeType DEF now, TimeAt
<1>2. \A type \in MessageTypes : Due(c, type) \in PDU
  BY DueType
<1>3. ASSUME NEW m \in PDU
      PROVE  Variants(m) \subseteq PDU
  <2>1. /\ m.sn \in SeqNums /\ m.cs \in SeqNums /\ m.ts \in SeqNums /\ m.cts \in SeqNums
    BY DEF PDU
  <2>2. c.csR \in SeqNums /\ c.snT \in SeqNums /\ c.tsR \in SeqNums
    BY DEF Connection
  <2>3. LastSent \in SeqNums
    <3> DEFINE n == GetNumberOfMessagesToSend(c.sendBuf)
    <3>1. n \in 0 .. SendBufferSize
      <4>1. c.sendBuf \in SendBuffer
        BY DEF Connection
      <4> QED
        BY <4>1, SizesKnown DEF SendBuffer, GetNumberOfMessagesToSend
    <3> HIDE DEF n
    <3>2. 1 + n \in SeqNums
      BY <3>1, SizesKnown DEF SeqNums
    <3> QED
      BY <2>2, <3>2, PlusMinusType DEF LastSent, n
  <2>4. /\ Plus(m.sn, 1) \in SeqNums /\ Minus(m.sn, 1) \in SeqNums
        /\ Plus(c.snT, 2) \in SeqNums /\ Minus(c.tsR, 1) \in SeqNums
        /\ Minus(now, TMax + 1) \in SeqNums /\ Plus(now, Granularity) \in SeqNums
    <3>1. 1 \in SeqNums /\ 2 \in SeqNums /\ TMax + 1 \in SeqNums /\ Granularity \in SeqNums
      BY SizesKnown DEF SeqNums
    <3> QED
      BY <1>1, <2>1, <2>2, <3>1, PlusMinusType
  <2>5. /\ \A x \in SeqNums : /\ [m EXCEPT !.sn = x] \in PDU /\ [m EXCEPT !.cs = x] \in PDU
                              /\ [m EXCEPT !.ts = x] \in PDU /\ [m EXCEPT !.cts = x] \in PDU
        /\ [m EXCEPT !.version = FALSE] \in PDU
    BY DEF PDU
  <2>6. [m EXCEPT !.sn = Plus(@, 1)] = [m EXCEPT !.sn = Plus(m.sn, 1)]
        /\ [m EXCEPT !.sn = Minus(@, 1)] = [m EXCEPT !.sn = Minus(m.sn, 1)]
        /\ [m EXCEPT !.cs = IF m.type = "RetrReq" THEN c.csR ELSE @]
             \in {[m EXCEPT !.cs = c.csR], [m EXCEPT !.cs = m.cs]}
    BY DEF PDU
  <2> QED
    BY <2>1, <2>2, <2>3, <2>4, <2>5, <2>6 DEF Variants
<1>4. Damaged \subseteq PDU
  <2>1. Due(c, "Hb") \in PDU
    BY <1>2 DEF MessageTypes
  <2> QED
    BY <2>1 DEF Damaged, PDU
<1> QED
  BY <1>2, <1>3, <1>4 DEF Arriving

-----------------------------------------------------------------------------
(* The invariant.                                                          *)

(* The timer of an open connection was set at the peer's last sign of      *)
(* life, which is not long ago.                                            *)
SilenceInv ==
  c.state \in OpenStates =>
    /\ TimerAt(c, TimeAt(heard))
    /\ ticks - heard <= TMax + Granularity + (IF checked THEN 0 ELSE Period)

IInv ==
  /\ TypeOK
  /\ EndGood(c, d, counted, handed)
  /\ SilenceInv

(* What every action has to keep but the types of the bounded counters.    *)
CallInv ==
  /\ EndGood(c, d, counted, handed)
  /\ SilenceInv
  /\ heard \in 0 .. ticks

(* A call of the stack that found q, which is c but for its queues, and    *)
(* leaves p behind.                                                        *)
LEMMA BecomesGood ==
  ASSUME IInv, NEW q, NEW h, EndGood(q, d, counted, h),
         q.state = c.state, q.ctsR = c.ctsR, q.ti = c.ti,
         NEW p, During(q, p, d, now), Becomes(p),
         handed' = h, ticks' = ticks,
         checked' = checked \/ (p.state \in OpenStates => Minus(now, p.ctsR) <= p.ti)
  PROVE  CallInv'
<1> DEFINE k == AfterCalls(d, p.calls)
           alive == SignOfLife(p.calls) \/ (c.state = "Down" /\ p.state = "Start")
<1>1. /\ c' = CallEnded(p) /\ d' = k.data
      /\ counted' = counted + Reported(k.reports)
      /\ heard' = CASE p.state \in {"Closed", "Down"} -> 0
                   [] p.state \notin {"Closed", "Down"} /\ alive -> ticks
                   [] OTHER -> heard
  BY DEF Becomes, SignOfLife
<1>2. EndGood(c', d', counted', handed')
  BY <1>1, DuringEnds
<1>3. c'.state = p.state /\ c'.ctsR = p.ctsR /\ c'.ti = p.ti
  BY <1>1, CallEndedKeeps DEF During, SameButQueues
<1>4. /\ ticks \in Nat /\ heard \in Nat /\ heard <= ticks /\ heard \in 0 .. ticks
      /\ 0 \in 0 .. ticks /\ ticks \in 0 .. ticks
  BY EndpointAssumption DEF IInv, TypeOK
<1>5. p.state \in States
  BY DEF During, ConnInv, Connection
<1> HIDE DEF k
<1>6. heard' \in 0 .. ticks'
  <2>1. heard' \in {0, ticks, heard}
    BY <1>1
  <2> QED
    BY <1>4, <2>1
<1>7. SilenceInv'
  <2> SUFFICES ASSUME p.state \in OpenStates
               PROVE  /\ TimerAt(c', TimeAt(heard'))
                      /\ ticks - heard'
                           <= TMax + Granularity + (IF checked' THEN 0 ELSE Period)
    BY <1>3 DEF SilenceInv, TimeAt
  <2>0. p.state \notin {"Closed", "Down"} /\ p.state # "Closed" /\ p.state # "Down"
    BY DEF OpenStates
  <2>1. \A x : TimerAt(c', x) <=> TimerAt(p, x)
    BY <1>3 DEF TimerAt, SetAt
  <2>2. TMax \in Nat /\ Granularity \in Nat /\ Period \in Nat
    BY SizesKnown, EndpointAssumption
  <2>3. now = TimeAt(ticks)
    BY DEF now, TimeAt
  <2>4. CASE TimerAt(p, now)
               /\ (SignOfLife(p.calls) \/ (q.state = "Down" /\ p.server /\ p.state = "Start"))
    <3>1. alive
      BY <2>4
    <3>2. heard' = ticks
      BY <1>1, <2>0, <3>1
    <3>3. ticks - heard' <= TMax + Granularity + (IF checked' THEN 0 ELSE Period)
      BY <1>4, <2>2, <3>2
    <3> QED
      BY <2>1, <2>3, <2>4, <3>2, <3>3
  <2>5. CASE /\ q.state \in OpenStates /\ p.ctsR = q.ctsR /\ p.ti = q.ti
             /\ ~ SignOfLife(p.calls)
    <3>1. c.state \in OpenStates /\ c.state # "Down"
      BY <2>5 DEF OpenStates
    <3>2. ~ alive
      BY <2>5, <3>1
    <3>3. heard' = heard
      BY <1>1, <2>0, <3>2
    <3>4. /\ TimerAt(c, TimeAt(heard))
          /\ ticks - heard <= TMax + Granularity + (IF checked THEN 0 ELSE Period)
      BY <3>1 DEF IInv, SilenceInv
    <3>5. TimerAt(p, TimeAt(heard))
      BY <2>5, <3>4 DEF TimerAt, SetAt
    <3>6. ticks - heard <= TMax + Granularity + (IF checked' THEN 0 ELSE Period)
      <4>1. CASE checked' = checked
        BY <3>4, <4>1
      <4>2. CASE Minus(now, p.ctsR) <= p.ti
        <5> DEFINE e == ticks - heard
        <5>1. e \in Nat /\ heard + e = ticks /\ e <= TMax + Granularity + Period
          BY <1>4, <2>2, <3>4
        <5> HIDE DEF e
        <5>2. Minus(TimeAt(heard + e), p.ctsR) <= p.ti
          BY <2>3, <4>2, <5>1
        <5>3. e <= TMax + Granularity
          BY <1>4, <3>5, <5>1, <5>2, NoticedInTime
        <5>4. e <= TMax + Granularity + (IF checked' THEN 0 ELSE Period)
          BY <2>2, <5>1, <5>3
        <5> QED
          BY <5>4 DEF e
      <4> QED
        BY <4>1, <4>2
    <3> QED
      BY <2>1, <3>3, <3>5, <3>6
  <2> QED
    BY <2>4, <2>5 DEF During, Timed
<1> QED
  BY <1>2, <1>6, <1>7 DEF CallInv

-----------------------------------------------------------------------------
(* The initial states.                                                     *)

(* The handshake, message for message.                                     *)
LEMMA HandshakeSteps ==
  ASSUME NEW server \in BOOLEAN
  PROVE  LET after == DuringHandshake(server)
             messages == Handshake(server)
         IN  /\ after[0] = CallEnded(OpenConnection(
                   InitialConnection(server, Config.n_send_max), FirstNumber, now))
             /\ after[1] = Notified(after[0], Due(after[0], messages[1]))
             /\ server => after[2] = Notified(after[1], Due(after[1], messages[2]))
<1> DEFINE messages == Handshake(server)
           N == Len(messages)
           a == CallEnded(OpenConnection(
                   InitialConnection(server, Config.n_send_max), FirstNumber, now))
           Step(q, n) == Notified(q, Due(q, messages[n]))
           Value(f, n) == IF n = 0 THEN a ELSE Step(f[n - 1], n)
           after == CHOOSE f : f = [n \in 0 .. N |-> Value(f, n)]
           g == [n \in 0 .. N |-> IF n = 0 THEN a ELSE IF n = 1 THEN Step(a, 1)
                                  ELSE Step(Step(a, 1), 2)]
<1>1. DuringHandshake(server) = after
  BY DEF DuringHandshake
<1>2. N \in {1, 2} /\ (server => N = 2)
  <2>1. CASE server
    BY <2>1 DEF Handshake
  <2>2. CASE ~ server
    BY <2>2 DEF Handshake
  <2> QED
    BY <2>1, <2>2
<1> HIDE DEF N, a, Step
<1>3. g = [n \in 0 .. N |-> Value(g, n)]
  <2>1. ASSUME NEW n \in 0 .. N
        PROVE  g[n] = Value(g, n)
    <3>1. n \in {0, 1, 2} /\ 0 \in 0 .. N /\ 1 \in 0 .. N
      BY <1>2
    <3>2. CASE n = 0
      BY <3>1, <3>2
    <3>3. CASE n = 1
      BY <3>1, <3>3
    <3>4. CASE n = 2
      BY <3>1, <3>4
    <3> QED
      BY <3>1, <3>2, <3>3, <3>4
  <2> QED
    BY <2>1
<1>4. after = [n \in 0 .. N |-> Value(after, n)]
  <2> HIDE DEF g
  <2> QED
    BY <1>3
<1> HIDE DEF after
<1>5. after[0] = a
  <2>1. 0 \in 0 .. N
    BY <1>2
  <2> QED
    BY <1>4, <2>1
<1>6. after[1] = Step(after[0], 1)
  <2>1. 1 \in 0 .. N /\ 1 # 0 /\ 1 - 1 = 0
    BY <1>2
  <2>2. after[1] = Value(after, 1)
    BY <1>4, <2>1
  <2>3. after[1] = Step(after[1 - 1], 1)
    BY <2>1, <2>2
  <2> QED
    BY <2>1, <2>3
<1>7. server => after[2] = Step(after[1], 2)
  <2>1. /\ server => 2 \in 0 .. N
        /\ 2 # 0 /\ 2 - 1 = 1
    BY <1>2
  <2>2. server => after[2] = Value(after, 2)
    BY <1>4, <2>1
  <2>3. server => after[2] = Step(after[2 - 1], 2)
    BY <2>1, <2>2
  <2> QED
    BY <2>1, <2>3
<1> QED
  BY <1>1, <1>5, <1>6, <1>7 DEF a, Step

(* An iteration leaves the messages that wait, or none.                    *)
LEMMA GoesInbox ==
  ASSUME NEW q, NEW r, NEW t, Goes(q, r, t)
  PROVE  r.inbox \in {q.inbox, <<>>}
BY DEF Goes, Closes, Lives, Quiet, Starts

(* A server that waits does not close because of the first message, if it  *)
(* has the protocol version.                                               *)
LEMMA FirstMessageStays ==
  ASSUME NEW p, p \in Connection, NEW b, NEW t, Found(b, t), NEW q,
         During(p, q, b, t), q.state = "Down", q.inbox = <<>>,
         NEW m \in PDU, m.version
  PROVE  MessageReceivedNotification([q EXCEPT !.inbox = Append(@, m)], t).state # "Closed"
<1> DEFINE r == [q EXCEPT !.inbox = Append(@, m)]
           u == [r EXCEPT !.pending = TRUE]
           S == {x \in Connection : /\ ConnInv(x) /\ x.state # "Closed"
                                    /\ x.inbox = <<>> \/ (x.state = "Down" /\ x.inbox = << m >>)}
<1>1. ConnInv(r) /\ SameButQueues(q, r) /\ r.inbox = << m >>
  <2>1. ConnInv(r) /\ SameButQueues(q, r) /\ r.inbox = Append(q.inbox, m)
    BY ArrivedKeeps DEF During
  <2>2. Append(<<>>, m) = << m >>
    OBVIOUS
  <2> QED
    BY <2>1, <2>2
<1>2. MessageReceivedNotification(r, t) = ReceiveLoop(u, t)
  BY DEF MessageReceivedNotification
<1>3. Quiet(r, u)
  BY <1>1, PendingQuiet
<1> HIDE DEF r, u
<1>4. u \in S /\ ConnInv(u)
  <2>1. u.state = "Down" /\ u.inbox = << m >> /\ ConnInv(u) /\ u \in Connection
    BY <1>1, <1>3 DEF Quiet, StaysOpen, OpenStates, Continues, SameButQueues, ConnInv
  <2> QED
    BY <2>1
<1>5. KeptByIteration(S, t)
  <2> SUFFICES ASSUME NEW x \in S, ReceivingGoesOn(x)
               PROVE  ReceiveOne(x, t) \in S
    BY DEF KeptByIteration
  <2>1. ConnInv(x) /\ x.state # "Closed" /\ t \in SeqNums
    BY DEF Found
  <2>2. CASE x.inbox = <<>>
    <3> DEFINE y == ReceiveOne(x, t)
    <3>1. Quiet(x, y)
      BY <2>1, <2>2, PendingQuiet DEF ReceiveOne
    <3> HIDE DEF y
    <3>2. ConnInv(y) /\ y \in Connection /\ y.state # "Closed" /\ y.inbox = <<>>
      BY <2>1, <2>2, <3>1 DEF Quiet, Continues, StaysOpen, OpenStates, ConnInv
    <3>3. y \in S
      BY <3>2
    <3> QED
      BY <3>3 DEF y
  <2>3. CASE x.inbox # <<>>
    <3> DEFINE y == ReceiveOne(x, t)
    <3>1. x.state = "Down" /\ x.inbox = << m >>
      BY <2>3
    <3>2. Head(x.inbox) = m /\ Tail(x.inbox) = <<>>
      BY <3>1
    <3>3. PICK z, errors :
             /\ Reads(x, z, Head(x.inbox), errors)
             /\ y = z \/ Goes(z, y, t)
             /\ x.state = "Down" /\ Head(x.inbox).version => y.state # "Closed"
      BY <2>1, <2>3, ReceiveOneReads
    <3> HIDE DEF y
    <3>4. y.state # "Closed"
      BY <3>1, <3>2, <3>3
    <3>5. z.inbox = <<>> /\ ConnInv(z)
      BY <3>2, <3>3 DEF Reads
    <3>6. ConnInv(y) /\ y.inbox = <<>>
      <4>1. CASE y = z
        BY <3>5, <4>1
      <4>2. CASE Goes(z, y, t)
        <5>1. y.inbox = <<>>
          BY <3>5, <4>2, GoesInbox
        <5>2. ConnInv(y)
          BY <4>2 DEF Goes, Closes, Lives, Quiet, Starts, Continues
        <5> QED
          BY <5>1, <5>2
      <4> QED
        BY <3>3, <4>1, <4>2
    <3>7. y \in S
      BY <3>4, <3>6 DEF ConnInv
    <3> QED
      BY <3>7 DEF y
  <2> QED
    BY <2>2, <2>3
<1> HIDE DEF S
<1>6. ReceiveLoop(u, t) \in S
  BY <1>4, <1>5, LoopKeeps
<1>7. ReceiveLoop(u, t).state # "Closed"
  BY <1>6 DEF S
<1> QED
  BY <1>2, <1>7 DEF r

(* srcty_IsConfigurationValid leaves no smaller n_send_max.                *)
LEMMA SendMaxKnown == Config.n_send_max \in 2 .. MaxNSendMax
<1>1. /\ Config.n_send_max \in Limits.kMinNSendMax .. Limits.MaxNSendMax
      /\ Config.m_w_a < Config.n_send_max
  BY DiagnosticsAssumption DEF IsConfigurationValid
<1>2. Limits.kMinNSendMax \in Nat /\ Limits.MaxNSendMax \in Nat
  BY LimitsAssumption
<1>3. Config.m_w_a \in Nat \ {0} /\ Config.n_send_max <= MaxNSendMax
  BY EndpointAssumption, ConnectionAssumption
<1>4. MaxNSendMax \in Nat
  BY ConnectionAssumption
<1> QED
  BY <1>1, <1>2, <1>3, <1>4

(* The established connection a run starts from satisfies the invariant.   *)
LEMMA InitGood == Init => IInv
<1> SUFFICES ASSUME Init
             PROVE  IInv
  OBVIOUS
<1>1. /\ ticks = 0 /\ checked = FALSE /\ arrivals = 0 /\ data = 0 /\ opens = 1
      /\ heard = 0 /\ handed = 0 /\ misled = {}
  BY DEF Init
<1>2. PICK server \in BOOLEAN :
        LET after == DuringHandshake(server)
            p == after[Len(Handshake(server))]
            k == AfterCalls(NoDiagnostics, p.calls)
        IN  /\ c = CallEnded(p)
            /\ d = k.data /\ counted = Reported(k.reports)
  BY DEF Init
<1> DEFINE after == DuringHandshake(server)
           messages == Handshake(server)
           N == Len(messages)
           p == after[N]
           k == AfterCalls(NoDiagnostics, p.calls)
           first == after[0]
           m == Due(first, messages[1])
<1>3. /\ c = CallEnded(p) /\ d = k.data /\ counted = Reported(k.reports)
  BY <1>2
<1>4. /\ first = CallEnded(OpenConnection(
                   InitialConnection(server, Config.n_send_max), FirstNumber, now))
      /\ after[1] = Notified(first, m)
      /\ server => after[2] = Notified(after[1], Due(after[1], messages[2]))
  BY HandshakeSteps
<1>5. ticks \in Nat /\ now = TimeAt(0) /\ now \in SeqNums /\ 0 \in Nat
  BY <1>1, TimeType DEF now, TimeAt
<1>6. Found(NoDiagnostics, now)
  BY <1>5, NoDiagnosticsGood DEF Found
<1>7. /\ EndGood(first, NoDiagnostics, 0, 0)
      /\ first.state \in OpenStates => TimerAt(first, now)
      /\ first.state = IF server THEN "Down" ELSE "Start"
      /\ first.inbox = <<>>
  <2> DEFINE i == InitialConnection(server, Config.n_send_max)
  <2>1. Config.n_send_max \in 2 .. MaxNSendMax
    BY SendMaxKnown
  <2>2. /\ ConnInv(i) /\ i.state = "Closed" /\ i.calls = <<>>
        /\ i.server = server
    BY <2>1, InitialConnectionGood DEF InitialConnection
  <2>3. FirstNumber \in SeqNums
    BY EndpointAssumption
  <2> HIDE DEF i
  <2>4. LET q == OpenConnection(i, FirstNumber, now)
            e == CallEnded(q)
        IN  /\ EndGood(e, NoDiagnostics, 0, 0)
            /\ e.state \in OpenStates => TimerAt(e, now)
            /\ e.state = IF i.server THEN "Down" ELSE "Start"
            /\ e.inbox = <<>>
    BY <1>5, <2>2, <2>3, OpenedGood
  <2> QED
    BY <1>4, <2>2, <2>4 DEF i
<1> HIDE DEF after
<1>8. /\ N \in {1, 2} /\ DOMAIN messages = 1 .. N
      /\ server => N = 2 /\ messages[1] = "ConnReq" /\ messages[2] = "Hb"
      /\ ~ server => N = 1 /\ messages[1] = "ConnResp"
  <2>1. CASE server
    BY <2>1 DEF Handshake
  <2>2. CASE ~ server
    BY <2>2 DEF Handshake
  <2> QED
    BY <2>1, <2>2
<1> HIDE DEF messages
<1>9. m \in PDU /\ m.version
  <2>1. first \in Connection /\ messages[1] \in MessageTypes
    BY <1>7, <1>8 DEF EndGood, ConnInv, MessageTypes
  <2>2. m \in PDU
    BY <1>5, <2>1, DueType
  <2> QED
    BY <2>2 DEF Due, PDU
<1>10. first \in Connection /\ first.state # "Closed"
       /\ During(first, first, NoDiagnostics, now)
  BY <1>7, DuringSelf DEF EndGood, ConnInv
<1> HIDE DEF m, first
<1>11. During(first, after[1], NoDiagnostics, now)
  <2>1. During(first, Notified(first, m), NoDiagnostics, now)
    BY <1>6, <1>9, <1>10, DuringNotified DEF Notified
  <2> QED
    BY <1>4, <2>1 DEF m
<1>12. During(first, p, NoDiagnostics, now)
  <2>1. CASE ~ server
    BY <1>8, <1>11, <2>1
  <2>2. CASE server
    <3> DEFINE second == Due(after[1], messages[2])
    <3>2. second \in PDU
      <4>1. after[1] \in Connection /\ messages[2] \in MessageTypes
        BY <1>8, <1>11, <2>2 DEF During, ConnInv, MessageTypes
      <4> QED
        BY <1>5, <4>1, DueType
    <3>3. after[1].state # "Closed"
      <4>1. first.state = "Down" /\ first.inbox = <<>>
        BY <1>7, <2>2
      <4>2. MessageReceivedNotification([first EXCEPT !.inbox = Append(@, m)], now).state
              # "Closed"
        BY <1>6, <1>9, <1>10, <4>1, FirstMessageStays
      <4> QED
        BY <1>4, <4>2 DEF Notified, m
    <3> HIDE DEF second
    <3>4. During(first, Notified(after[1], second), NoDiagnostics, now)
      BY <1>6, <1>10, <1>11, <3>2, <3>3, DuringNotified DEF Notified
    <3>6. p = Notified(after[1], second)
      BY <1>4, <1>8, <2>2 DEF second
    <3> QED
      BY <3>4, <3>6
  <2> QED
    BY <2>1, <2>2
<1> HIDE DEF p
<1>13. EndGood(c, d, counted, handed)
  <2>1. EndGood(CallEnded(p), k.data, 0 + Reported(k.reports), 0)
    BY <1>7, <1>12, DuringEnds
  <2>2. counted \in Nat /\ 0 + counted = counted
    BY <1>3, <1>7, <1>12, DuringEnds
  <2> QED
    BY <1>1, <1>3, <2>1, <2>2
<1>14. SilenceInv
  <2>1. /\ ConnInv(p) /\ SameButQueues(p, c)
    BY <1>3, <1>12, CallEndedKeeps DEF During
  <2>2. ASSUME p.state \in OpenStates
        PROVE  TimerAt(p, now)
    <3>1. Timed(first, p, now)
      BY <1>12 DEF During
    <3>2. CASE first.state \in OpenStates /\ p.ctsR = first.ctsR /\ p.ti = first.ti
      BY <1>7, <3>2 DEF TimerAt, SetAt
    <3> QED
      BY <2>2, <3>1, <3>2 DEF Timed
  <2>3. 0 - 0 <= TMax + Granularity + Period
    BY SizesKnown, EndpointAssumption
  <2>4. c.state \in OpenStates => TimerAt(c, now)
    BY <2>1, <2>2 DEF SameButQueues, TimerAt, SetAt
  <2> QED
    BY <1>1, <1>5, <2>3, <2>4 DEF SilenceInv
<1>15. TypeOK
  <2>1. c \in Connection /\ d \in Diagnostics /\ counted \in Nat /\ handed \in Nat
    BY <1>13 DEF EndGood, ConnInv
  <2>2. 0 \in 0 .. MaxTicks /\ 0 \in 0 .. MaxArrivals /\ 0 \in 0 .. MaxData /\ 1 \in 0 .. MaxOpens
        /\ 0 \in 0 .. 0
    BY EndpointAssumption
  <2> QED
    BY <1>1, <1>12, <2>1, <2>2 DEF TypeOK
<1> QED
  BY <1>13, <1>14, <1>15 DEF IInv

-----------------------------------------------------------------------------
(* The steps.                                                              *)

(* The types of the bounded counters are kept by each action.              *)
Counters ==
  /\ ticks \in 0 .. MaxTicks /\ checked \in BOOLEAN
  /\ arrivals \in 0 .. MaxArrivals /\ data \in 0 .. MaxData /\ opens \in 0 .. MaxOpens
  /\ misled \subseteq Errors

(* What a call leaves behind, with counters in range, satisfies IInv.      *)
LEMMA CallKeeps ==
  ASSUME CallInv', Counters'
  PROVE  IInv'
<1>1. c' \in Connection /\ d' \in Diagnostics /\ counted' \in Nat /\ handed' \in Nat
  BY DEF CallInv, EndGood, ConnInv
<1>2. TypeOK'
  BY <1>1 DEF TypeOK, CallInv, Counters
<1> QED
  BY <1>2 DEF IInv, CallInv

(* Before each step.                                                       *)
LEMMA BeforeStep ==
  ASSUME IInv
  PROVE  /\ Counters /\ ticks \in Nat /\ now \in SeqNums
         /\ Found(d, now) /\ c \in Connection /\ ConnInv(c)
         /\ EndGood(c, d, counted, handed)
         /\ During(c, c, d, now)
<1>1. Counters /\ ticks \in Nat
  BY EndpointAssumption DEF IInv, TypeOK, Counters
<1>2. now \in SeqNums
  BY <1>1, TimeType DEF now, TimeAt
<1>3. EndGood(c, d, counted, handed)
  BY DEF IInv
<1> QED
  BY <1>1, <1>2, <1>3, DuringSelf DEF EndGood, Found, ConnInv

(* srapi_OpenConnection of a closed connection keeps the invariant.        *)
LEMMA OpenKeeps ==
  ASSUME IInv, Open
  PROVE  IInv'
<1> DEFINE p == OpenConnection(c, FirstNumber, now)
           init == [call |-> "Init"]
<1>1. /\ c.state = "Closed" /\ opens < MaxOpens
      /\ c' = CallEnded(p) /\ d' = AfterCalls(d, p.calls).data
      /\ opens' = opens + 1
      /\ heard' = ticks /\ counted' = 0 /\ handed' = 0 /\ misled' = {}
      /\ ticks' = ticks /\ checked' = checked /\ arrivals' = arrivals /\ data' = data
  BY DEF Open
<1>2. /\ Counters /\ ticks \in Nat /\ now \in SeqNums /\ ConnInv(c)
      /\ d \in Diagnostics /\ IsConsistent(d) /\ c.calls = <<>> /\ FirstNumber \in SeqNums
  BY BeforeStep, EndpointAssumption DEF EndGood
<1>3. /\ EndGood(c', NoDiagnostics, 0, 0)
      /\ c'.state \in OpenStates => TimerAt(c', now)
      /\ p.calls = << init >>
  BY <1>1, <1>2, OpenedGood
<1> HIDE DEF p
<1>4. d' = NoDiagnostics
  <2>1. <<>> \in Seq(DiagnosticCall) /\ DOMAIN <<>> = {} /\ Append(<<>>, init) = << init >>
    OBVIOUS
  <2>2. init \in DiagnosticCall /\ init.call = "Init" /\ init.call \in CallNames
    BY DEF DiagnosticCall, CallNames
  <2> HIDE DEF init
  <2>3. \A i \in DOMAIN <<>> : <<>>[i].call \in CallNames
    BY <2>1
  <2>4. AfterCalls(d, Append(<<>>, init)) = AfterCall(AfterCalls(d, <<>>), init)
    BY <1>2, <2>1, <2>2, <2>3, AfterCallsAppend
  <2>5. AfterCall(AfterCalls(d, <<>>), init).data = NoDiagnostics
    BY <2>2 DEF AfterCall, Kept, InitConnectionDiagnostics
  <2> QED
    BY <1>1, <1>3, <2>1, <2>4, <2>5
<1>5. EndGood(c', d', counted', handed')
  BY <1>1, <1>3, <1>4
<1>6. SilenceInv'
  <2>1. now = TimeAt(ticks)
    BY DEF now, TimeAt
  <2>2. ticks - ticks <= TMax + Granularity + (IF checked THEN 0 ELSE Period)
    BY <1>2, SizesKnown, EndpointAssumption
  <2> QED
    BY <1>1, <1>3, <2>1, <2>2 DEF SilenceInv, TimeAt
<1>7. CallInv'
  <2>1. heard' \in 0 .. ticks'
    BY <1>1, <1>2
  <2> QED
    BY <1>5, <1>6, <2>1 DEF CallInv
<1>8. Counters'
  <2>1. opens + 1 \in 0 .. MaxOpens
    BY <1>1, <1>2, EndpointAssumption DEF Counters
  <2> QED
    BY <1>1, <1>2, <2>1 DEF Counters
<1> QED
  BY <1>7, <1>8, CallKeeps

(* Opening a connection that is open, which closes it, keeps it.           *)
LEMMA OpenAgainKeeps ==
  ASSUME IInv, OpenAgain
  PROVE  IInv'
<1> DEFINE p == OpenConnection(c, FirstNumber, now)
<1>1. /\ c.state # "Closed" /\ opens < MaxOpens /\ Becomes(p) /\ opens' = opens + 1
      /\ ticks' = ticks /\ checked' = checked /\ arrivals' = arrivals /\ data' = data
      /\ handed' = handed /\ misled' = misled
  BY DEF OpenAgain
<1>2. During(c, p, d, now) /\ EndGood(c, d, counted, handed) /\ Counters
  BY <1>1, BeforeStep, DuringOtherCalls
<1> HIDE DEF p
<1>3. CallInv'
  BY <1>1, <1>2, BecomesGood
<1>4. Counters'
  <2>1. opens + 1 \in 0 .. MaxOpens
    BY <1>1, <1>2, EndpointAssumption DEF Counters
  <2> QED
    BY <1>1, <1>2, <2>1 DEF Counters
<1> QED
  BY <1>3, <1>4, CallKeeps

(* srapi_CloseConnection keeps the invariant.                              *)
LEMMA CloseKeeps ==
  ASSUME IInv, Close
  PROVE  IInv'
<1> DEFINE p == CloseConnectionCall(c, now)
<1>1. /\ c.state # "Closed" /\ Becomes(p) /\ opens' = opens
      /\ ticks' = ticks /\ checked' = checked /\ arrivals' = arrivals /\ data' = data
      /\ handed' = handed /\ misled' = misled
  BY DEF Close, counters
<1>2. During(c, p, d, now) /\ EndGood(c, d, counted, handed) /\ Counters
  BY <1>1, BeforeStep, DuringOtherCalls
<1> HIDE DEF p
<1>3. CallInv'
  BY <1>1, <1>2, BecomesGood
<1>4. Counters'
  BY <1>1, <1>2 DEF Counters
<1> QED
  BY <1>3, <1>4, CallKeeps

(* srapi_SendData keeps the invariant.                                     *)
LEMMA SendKeeps ==
  ASSUME IInv, Send
  PROVE  IInv'
<1> DEFINE p == SendData(c, 0, now)
<1>1. /\ c.state # "Closed" /\ data < MaxData /\ Becomes(p) /\ data' = data + 1
      /\ ticks' = ticks /\ checked' = checked /\ arrivals' = arrivals /\ opens' = opens
      /\ handed' = handed /\ misled' = misled
  BY DEF Send, SendDataTakes
<1>2. During(c, p, d, now) /\ EndGood(c, d, counted, handed) /\ Counters
  BY <1>1, BeforeStep, DuringOtherCalls
<1> HIDE DEF p
<1>3. CallInv'
  BY <1>1, <1>2, BecomesGood
<1>4. Counters'
  <2>1. data + 1 \in 0 .. MaxData
    BY <1>1, <1>2, EndpointAssumption DEF Counters
  <2> QED
    BY <1>1, <1>2, <2>1 DEF Counters
<1> QED
  BY <1>3, <1>4, CallKeeps

(* srapi_ReadData keeps the invariant.                                     *)
LEMMA ReadKeeps ==
  ASSUME IInv, Read
  PROVE  IInv'
<1> DEFINE p == ReadData(c)
<1>1. /\ c.recvBuf # <<>> /\ Becomes(p) /\ handed' = handed + 1
      /\ ticks' = ticks /\ checked' = checked /\ arrivals' = arrivals /\ data' = data
      /\ opens' = opens /\ misled' = misled
  BY DEF Read, counters
<1>2. /\ EndGood(p, d, counted, handed + 1) /\ During(p, p, d, now)
      /\ p.state = c.state /\ p.ctsR = c.ctsR /\ p.ti = c.ti /\ Counters
  BY <1>1, BeforeStep, DuringRead
<1> HIDE DEF p
<1>3. CallInv'
  BY <1>1, <1>2, BecomesGood
<1>4. Counters'
  BY <1>1, <1>2 DEF Counters
<1> QED
  BY <1>3, <1>4, CallKeeps

(* A message that arrives, whatever it is, keeps the invariant.            *)
LEMMA ArriveKeeps ==
  ASSUME IInv, Arrive
  PROVE  IInv'
<1>1. /\ c.state # "Closed" /\ arrivals < MaxArrivals /\ arrivals' = arrivals + 1
      /\ ticks' = ticks /\ checked' = checked /\ data' = data
      /\ opens' = opens /\ handed' = handed
  BY DEF Arrive, Receive
<1>2. PICK m \in Arriving : Becomes(Notified(c, m)) /\ misled' = misled \cup Misleads(m)
  BY DEF Arrive, Receive
<1> DEFINE p == Notified(c, m)
<1>3. /\ Counters /\ Found(d, now) /\ c \in Connection
      /\ EndGood(c, d, counted, handed) /\ During(c, c, d, now)
  BY BeforeStep
<1>4. m \in PDU
  BY <1>2, BeforeStep, ArrivingType
<1>5. During(c, p, d, now)
  BY <1>1, <1>2, <1>3, <1>4, DuringNotified DEF Notified
<1> HIDE DEF p
<1>6. CallInv'
  <2>1. Becomes(p)
    BY <1>2 DEF p
  <2> QED
    BY <1>1, <1>3, <1>5, <2>1, BecomesGood
<1>7. Counters'
  <2>1. arrivals + 1 \in 0 .. MaxArrivals
    BY <1>1, <1>3, EndpointAssumption DEF Counters
  <2>2. Misleads(m) \subseteq Errors
    BY DEF Misleads, Errors
  <2>3. misled' \subseteq Errors
    BY <1>2, <1>3, <2>2 DEF Counters
  <2> QED
    BY <1>1, <1>3, <2>1, <2>3 DEF Counters
<1> QED
  BY <1>6, <1>7, CallKeeps

(* srapi_CheckTimings keeps the invariant.                                 *)
LEMMA CallCheckTimingsKeeps ==
  ASSUME IInv, CallCheckTimings
  PROVE  IInv'
<1> DEFINE p == CheckTimings(c, now)
<1>1. /\ Becomes(p) /\ checked' = TRUE
      /\ ticks' = ticks /\ arrivals' = arrivals /\ data' = data /\ opens' = opens
      /\ handed' = handed /\ misled' = misled
  BY DEF CallCheckTimings, counters
<1>2. /\ During(c, p, d, now) /\ EndGood(c, d, counted, handed) /\ Counters
      /\ p.state \in OpenStates => Minus(now, p.ctsR) <= p.ti
  BY BeforeStep, DuringCheckTimings
<1> HIDE DEF p
<1>3. CallInv'
  BY <1>1, <1>2, BecomesGood
<1>4. Counters'
  BY <1>1, <1>2 DEF Counters
<1> QED
  BY <1>3, <1>4, CallKeeps

(* Time that goes on keeps the invariant, after a call that checked it.    *)
LEMMA TickKeeps ==
  ASSUME IInv, Tick
  PROVE  IInv'
<1>1. /\ checked /\ ticks + Period <= MaxTicks /\ ticks' = ticks + Period
      /\ checked' = FALSE
      /\ c' = c /\ d' = d /\ arrivals' = arrivals /\ data' = data /\ opens' = opens
      /\ heard' = heard /\ counted' = counted /\ handed' = handed
      /\ misled' = misled
  BY DEF Tick, counters
<1>2. /\ Counters /\ EndGood(c, d, counted, handed) /\ ticks \in Nat
      /\ heard \in 0 .. ticks
  BY BeforeStep DEF IInv, TypeOK
<1>3. /\ Period \in Nat /\ MaxTicks \in Nat /\ TMax \in Nat /\ Granularity \in Nat
  BY EndpointAssumption, SizesKnown
<1>4. EndGood(c', d', counted', handed')
  BY <1>1, <1>2
<1>5. SilenceInv'
  <2>1. c.state \in OpenStates => ticks - heard <= TMax + Granularity + 0
    BY <1>1 DEF IInv, SilenceInv
  <2>2. c.state \in OpenStates => (ticks + Period) - heard <= TMax + Granularity + Period
    BY <1>2, <1>3, <2>1
  <2>3. c.state \in OpenStates => TimerAt(c, TimeAt(heard))
    BY DEF IInv, SilenceInv
  <2> QED
    BY <1>1, <2>2, <2>3 DEF SilenceInv, TimeAt
<1>6. CallInv'
  <2>1. heard' \in 0 .. ticks'
    BY <1>1, <1>2, <1>3
  <2> QED
    BY <1>4, <1>5, <2>1 DEF CallInv
<1>7. Counters'
  <2>1. ticks + Period \in 0 .. MaxTicks
    BY <1>1, <1>2, <1>3
  <2> QED
    BY <1>1, <1>2, <2>1 DEF Counters
<1> QED
  BY <1>6, <1>7, CallKeeps

(* A step that changes nothing keeps the invariant.                        *)
LEMMA StutterKeeps ==
  ASSUME IInv, UNCHANGED vars
  PROVE  IInv'
<1>1. /\ c' = c /\ d' = d /\ ticks' = ticks /\ checked' = checked /\ arrivals' = arrivals
      /\ data' = data /\ opens' = opens /\ heard' = heard
      /\ counted' = counted /\ handed' = handed /\ misled' = misled
  BY DEF vars, counters
<1>2. TypeOK'
  BY <1>1 DEF IInv, TypeOK
<1>3. EndGood(c', d', counted', handed')
  BY <1>1 DEF IInv
<1>4. SilenceInv'
  BY <1>1 DEF IInv, SilenceInv, TimeAt
<1> QED
  BY <1>2, <1>3, <1>4 DEF IInv

-----------------------------------------------------------------------------

(* The invariant holds.                                                    *)
THEOREM EndpointInvariance == Spec => []IInv
<1>1. IInv /\ [Next]_vars => IInv'
  BY OpenKeeps, OpenAgainKeeps, CloseKeeps, SendKeeps, ReadKeeps, ArriveKeeps,
     CallCheckTimingsKeeps, TickKeeps, StutterKeeps DEF Next
<1> QED
  BY <1>1, InitGood, PTL DEF Spec

(* Whatever arrives and whatever the application calls, the variables keep *)
(* their types: no buffer exceeds its size, and each number stays in range.*)
THEOREM EndpointTypeCorrect == Spec => []TypeOK
<1>1. IInv => TypeOK
  BY DEF IInv
<1> QED
  BY <1>1, EndpointInvariance, PTL

(* The messages in the send buffer are numbered without a gap, whatever    *)
(* was retransmitted, confirmed or sent (srsend, srcor_HandleRetrReq).     *)
THEOREM NumbersStayWithoutGap == Spec => []NumbersWithoutGap
<1>1. IInv => NumbersWithoutGap
  BY DEF IInv, EndGood, ConnInv, Gapless, NumbersWithoutGap
<1> QED
  BY <1>1, EndpointInvariance, PTL

(* An open end confirms the last message it processed, whatever was        *)
(* ignored or rejected since: a peer never drops what was not processed    *)
(* from its send buffer (srcor_ProcessReceivedMessage).                    *)
THEOREM OnlyProcessedIsConfirmed == Spec => []ConfirmsLastProcessed
<1>1. IInv => ConfirmsLastProcessed
  BY DEF IInv, EndGood, Confirmable, Caught, ConfirmsLastProcessed
<1> QED
  BY <1>1, EndpointInvariance, PTL

(* A connection whose peer fell silent is closed by the first call of      *)
(* srapi_CheckTimings after t_max and the granularity of the timer.        *)
THEOREM SilentPeerIsNoticed == Spec => []SilenceIsNoticed
<1>1. IInv => SilenceIsNoticed
  <2> SUFFICES ASSUME IInv, checked, c.state \notin {"Closed", "Down"}
               PROVE  ticks - heard <= TMax + Granularity
    BY DEF SilenceIsNoticed
  <2>1. c.state \in OpenStates
    BY BeforeStep DEF Connection, OpenStates
  <2>2. ticks - heard <= TMax + Granularity + 0
    BY <2>1 DEF IInv, SilenceInv
  <2> QED
    BY <2>2, SizesKnown
<1> QED
  BY <1>1, EndpointInvariance, PTL

(* The diagnostics add up over a session, however its messages, errors and *)
(* windows follow each other.                                              *)
THEOREM EndpointDiagnosticsAddUp == Spec => []DiagnosticsAddUp
<1>1. IInv => DiagnosticsAddUp
  BY DEF IInv, EndGood, DiagnosticsAddUp
<1> QED
  BY <1>1, EndpointInvariance, PTL

(* The assertion of srrece_AddToBuffer never fails: a message is received  *)
(* only if there is room for its data.                                     *)
THEOREM ReceivedDataFits ==
  Spec => [](Len(c.recvBuf) <= c.nSendMax /\ c.fatal # "ReceiveBufferFull")
<1>1. IInv => Len(c.recvBuf) <= c.nSendMax /\ c.fatal # "ReceiveBufferFull"
  BY DEF IInv, EndGood, ConnInv
<1> QED
  BY <1>1, EndpointInvariance, PTL
=============================================================================

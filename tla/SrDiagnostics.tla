--------------------------- MODULE SrDiagnostics ---------------------------
(***************************************************************************)
(* The diagnostics of a connection (srdia): error counters, and how the    *)
(* round trip delay and the alive time of its messages are distributed.    *)
(* They are handed to the application after NDiagWindow messages and when  *)
(* the connection closes (srnot_SrDiagnosticNotification), and start anew. *)
(***************************************************************************)
EXTENDS SrConfiguration

CONSTANT Config  \* the configuration the layer was initialised with

ASSUME DiagnosticsAssumption == IsConfigurationValid(Config)

Bins == 1 .. 5
NDiagWindow == Config.n_diag_window
Intervals == Config.diag_timing_distr_intervals

Diagnostics ==
  [ message_counter : Nat, ec_safety : Nat, ec_address : Nat, ec_type : Nat,
    ec_sn : Nat, ec_csn : Nat,
    t_rtd_distribution : [Bins -> Nat], t_alive_distribution : [Bins -> Nat] ]

NoDiagnostics ==
  [ message_counter |-> 0, ec_safety |-> 0, ec_address |-> 0, ec_type |-> 0,
    ec_sn |-> 0, ec_csn |-> 0,
    t_rtd_distribution |-> [b \in Bins |-> 0],
    t_alive_distribution |-> [b \in Bins |-> 0] ]

(* A plausible slip: only the message counter starts anew.                 *)
InitConnectionDiagnosticsKeeping(d) == [d EXCEPT !.message_counter = 0]

(* srdia_InitConnectionDiagnostics                                         *)
InitConnectionDiagnostics(d) == NoDiagnostics

(* The interval a time belongs to: up to T1, T2, T3, T4, or above.         *)
BinOf(intervals, time) ==
  CASE time <= intervals[1] -> 1
    [] intervals[1] < time /\ time <= intervals[2] -> 2
    [] intervals[2] < time /\ time <= intervals[3] -> 3
    [] intervals[3] < time /\ time <= intervals[4] -> 4
    [] OTHER -> 5

AddTimeToTimingDistribution(distribution, time) ==
  [distribution EXCEPT ![BinOf(Intervals, time)] = @ + 1]

(* srdia_Inc...Counter                                                     *)
Counted(d, error) ==
  CASE error = "SafetyCode"     -> [d EXCEPT !.ec_safety = @ + 1]
    [] error = "Address"        -> [d EXCEPT !.ec_address = @ + 1]
    [] error = "Type"           -> [d EXCEPT !.ec_type = @ + 1]
    [] error = "SequenceNumber" -> [d EXCEPT !.ec_sn = @ + 1]
    [] error = "ConfirmedSequenceNumber" -> [d EXCEPT !.ec_csn = @ + 1]

(* The diagnostics of a connection, and the notifications of this call.    *)
Kept(d, reports) == [data |-> d, reports |-> reports]

(* srdia_SendDiagnosticNotification                                        *)
SendDiagnosticNotification(k) ==
  Kept(InitConnectionDiagnostics(k.data), Append(k.reports, k.data))

(* srdia_UpdateConnectionDiagnostics                                       *)
UpdateConnectionDiagnostics(k, rtd, alive) ==
  LET d == [k.data EXCEPT
              !.t_rtd_distribution = AddTimeToTimingDistribution(@, rtd),
              !.t_alive_distribution = AddTimeToTimingDistribution(@, alive),
              !.message_counter = @ + 1]
      updated == Kept(d, k.reports)
  IN  IF d.message_counter >= NDiagWindow
        THEN SendDiagnosticNotification(updated) ELSE updated

(* One call of srdia.                                                      *)
AfterCall(k, c) ==
  CASE c.call = "Init"   -> Kept(InitConnectionDiagnostics(k.data), k.reports)
    [] c.call = "Notify" -> SendDiagnosticNotification(k)
    [] c.call = "Update" -> UpdateConnectionDiagnostics(k, c.rtd, c.alive)
    [] OTHER -> Kept(Counted(k.data, c.call), k.reports)

(* The calls of srdia that a call of the stack makes, in their order.      *)
AfterCalls(d, calls) ==
  LET after[n \in 0 .. Len(calls)] ==
        IF n = 0 THEN Kept(d, <<>>) ELSE AfterCall(after[n - 1], calls[n])
  IN  after[Len(calls)]

-----------------------------------------------------------------------------

InIntervals(distribution) ==
  distribution[1] + distribution[2] + distribution[3] + distribution[4]
    + distribution[5]

(* Each message of the window is in one interval of both distributions,    *)
(* and the window is not full.                                             *)
IsConsistent(d) ==
  /\ d.message_counter < NDiagWindow
  /\ InIntervals(d.t_rtd_distribution) = d.message_counter
  /\ InIntervals(d.t_alive_distribution) = d.message_counter
=============================================================================

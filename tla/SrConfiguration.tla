-------------------------- MODULE SrConfiguration --------------------------
(***************************************************************************)
(* The configuration of the safety and retransmission layer (srcty), the   *)
(* check it has to pass (srcor_IsConfigurationValid), and the search for   *)
(* the connection two identifiers belong to (srcor_GetConnectionId).       *)
(***************************************************************************)
EXTENDS Integers, Sequences

CONSTANT Limits  \* the srcty_kMin... and srcty_kMax... constants, and RADEF_...

ASSUME LimitsAssumption ==
  Limits \in [kMinTMax : Nat, kMaxTMax : Nat, kMinTHeartbeat : Nat,
              kMaxTHeartbeat : Nat, kMinMWA : Nat, kMaxMWA : Nat,
              kMinNSendMax : Nat, MaxNSendMax : Nat, kMinNDiagWindow : Nat \ {0},
              kMaxNDiagWindow : Nat, MaxConnections : Nat]

(* The limits of the source.                                               *)
SourceLimits ==
  [ kMinTMax |-> 750, kMaxTMax |-> 2000, kMinTHeartbeat |-> 300,
    kMaxTHeartbeat |-> 750, kMinMWA |-> 1, kMaxMWA |-> 19, kMinNSendMax |-> 2,
    MaxNSendMax |-> 20, kMinNDiagWindow |-> 100, kMaxNDiagWindow |-> 10000,
    MaxConnections |-> 2 ]

kNMaxPacket == 1
SafetyCodeTypes == 1 .. 3  \* none, the lower half of the MD4, the MD4

ConnectionConfiguration ==
  [connection_id : Nat, sender_id : Nat, receiver_id : Nat]

(* The connections are the first number_of_connections of the array, and   *)
(* numbered from 1 here.  What full value ranges are valid for is left out.*)
SafetyRetransmissionConfiguration ==
  [ t_max : Nat, t_h : Nat, safety_code_type : Nat, m_w_a : Nat,
    n_send_max : Nat, n_max_packet : Nat, n_diag_window : Nat,
    connection_configurations : Seq(ConnectionConfiguration),
    diag_timing_distr_intervals : [1 .. 4 -> Nat] ]

(* srdia_AreDiagnosticTimingIntervalsValid                                 *)
AreDiagnosticTimingIntervalsValid(t_max, intervals) ==
  /\ intervals[1] # 0
  /\ \A i \in 1 .. 3 : intervals[i] < intervals[i + 1]
  /\ intervals[4] < t_max

(* CheckConnectionConfigurations                                           *)
CheckConnectionConfigurations(configurations) ==
  \A i \in DOMAIN configurations :
    /\ configurations[i].connection_id = i - 1
    /\ configurations[i].sender_id # configurations[i].receiver_id

(* srcor_IsConfigurationValid                                              *)
IsConfigurationValid(cfg) ==
  /\ cfg.t_max \in Limits.kMinTMax .. Limits.kMaxTMax
  /\ cfg.t_h \in Limits.kMinTHeartbeat .. Limits.kMaxTHeartbeat
  /\ cfg.safety_code_type % 65536 \in SafetyCodeTypes
  /\ cfg.m_w_a \in Limits.kMinMWA .. Limits.kMaxMWA
  /\ cfg.n_send_max \in Limits.kMinNSendMax .. Limits.MaxNSendMax
  /\ cfg.m_w_a < cfg.n_send_max
  /\ cfg.n_max_packet = kNMaxPacket
  /\ cfg.n_diag_window \in Limits.kMinNDiagWindow .. Limits.kMaxNDiagWindow
  /\ Len(cfg.connection_configurations) \in 1 .. Limits.MaxConnections
  /\ AreDiagnosticTimingIntervalsValid(cfg.t_max, cfg.diag_timing_distr_intervals)
  /\ CheckConnectionConfigurations(cfg.connection_configurations)

(* The configuration that comes with the stack (srcfg).                    *)
safety_retransmission_configuration ==
  [ t_max |-> 750, t_h |-> 300, safety_code_type |-> 2, m_w_a |-> 10,
    n_send_max |-> 20, n_max_packet |-> 1, n_diag_window |-> 5000,
    connection_configurations |->
      << [connection_id |-> 0, sender_id |-> 97, receiver_id |-> 98],
         [connection_id |-> 1, sender_id |-> 1, receiver_id |-> 3] >>,
    diag_timing_distr_intervals |-> <<150, 300, 450, 600>> ]

-----------------------------------------------------------------------------

(* The connections that have these identifiers.                            *)
ConnectionsOf(cfg, sender, receiver) ==
  {i \in DOMAIN cfg.connection_configurations :
     /\ cfg.connection_configurations[i].sender_id = sender
     /\ cfg.connection_configurations[i].receiver_id = receiver}

(* srcor_GetConnectionId finds a connection, and which one: the first.     *)
IsConnectionKnown(cfg, sender, receiver) == ConnectionsOf(cfg, sender, receiver) # {}
GetConnectionId(cfg, sender, receiver) ==
  LET found == ConnectionsOf(cfg, sender, receiver)
      first == CHOOSE i \in found : \A j \in found : i <= j
  IN  cfg.connection_configurations[first].connection_id
=============================================================================

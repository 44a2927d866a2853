---------------------------- MODULE MCSrEndpoint ----------------------------
EXTENDS SrEndpoint

MCLimits ==
  [ kMinTMax |-> 1, kMaxTMax |-> 10, kMinTHeartbeat |-> 1, kMaxTHeartbeat |-> 5,
    kMinMWA |-> 1, kMaxMWA |-> 19, kMinNSendMax |-> 2, MaxNSendMax |-> 8,
    kMinNDiagWindow |-> 1, kMaxNDiagWindow |-> 10, MaxConnections |-> 1 ]
MCIntervals == <<1, 2, 3, 4>>
MCConfig ==
  [ t_max |-> 5, t_h |-> 2, safety_code_type |-> 2, m_w_a |-> 1, n_send_max |-> 2,
    n_max_packet |-> 1, n_diag_window |-> 2,
    connection_configurations |->
      << [connection_id |-> 0, sender_id |-> 97, receiver_id |-> 98] >>,
    diag_timing_distr_intervals |-> MCIntervals ]
=============================================================================

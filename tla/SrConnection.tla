---------------------------- MODULE SrConnection ----------------------------
(***************************************************************************)
(* One RaSTA connection of the safety and retransmission layer (SafRetL):  *)
(* the data srcor, srstm, srsend and srrece keep for it, and the handlers  *)
(* of sr_api, sr_adapter_notifications and sr_state_machine, as operators  *)
(* from a connection to the connection the handler leaves behind.  `now'   *)
(* is what rasys_GetTimerValue returns in the call.                        *)
(***************************************************************************)
EXTENDS SrSendBuffer

CONSTANTS
  TMax,            \* t_max, in ticks
  TH,              \* t_h, in ticks
  Granularity,     \* rasys_GetTimerGranularity
  MWA,             \* m_w_a
  SnRangeFactor,   \* the factor 10 of CheckSequenceNumberRange
  MaxNSendMax      \* RADEF_MAX_N_SEND_MAX

kMinFreeEntriesSendBufferForRetr == 3
kMinFreeEntriesReceivedBufferForReceive == 1

ASSUME ConnectionAssumption ==
  /\ TMax \in Nat \ {0} /\ TMax < Half
  /\ TH \in Nat \ {0} /\ Granularity \in SeqNums
  /\ MWA \in Nat \ {0} /\ MWA < MaxNSendMax
  /\ SnRangeFactor \in Nat \ {0}
  /\ MaxNSendMax \in Nat /\ SnRangeFactor * MaxNSendMax < Half
  /\ SendBufferSize = MaxNSendMax

States == {"Closed", "Down", "Start", "Up", "RetransRequest", "RetransRunning"}

DiscReasons == {"NotInUse", "UserRequest", "UnexpectedMessage", "SequenceNumberError",
  "Timeout", "ServiceNotAllowed", "ProtocolVersionError", "RetransmissionFailed",
  "ProtocolSequenceError"}

Errors == {"None", "SendBufferFull", "ReceiveBufferFull", "InvalidSequenceNumber",
  "InternalError", "InvalidParameter"}

(* A message on its way.  check tells what GeneralMessageCheck finds: all  *)
(* in order, a wrong size, safety code or type, or the identifiers of      *)
(* other ends; version is the outcome of srcor_IsProtocolVersionAccepted.  *)
PDU == [type : MessageTypes, sn : SeqNums, cs : SeqNums, ts : SeqNums,
        cts : SeqNums, payload : Nat,
        check : {"Ok", "Size", "SafetyCode", "Type", "Foreign"},
        version : BOOLEAN]

(* srmsg_CheckMessage finds nothing wrong: the header is read.             *)
Readable(m) == m.check \in {"Ok", "Foreign"}

(* A call of sr_diagnostics: an error counter, the times of a message      *)
(* (Update), the end of a session (Notify) or the start of one (Init).     *)
DiagnosticCall ==
  [call : {"SafetyCode", "Address", "Type", "SequenceNumber",
           "ConfirmedSequenceNumber", "Notify", "Init"}]
    \cup [call : {"Update"}, rtd : SeqNums, alive : SeqNums]

Connection ==
  [ server   : BOOLEAN,         \* srcor_IsConnRoleServer
    nSendMax : 2 .. MaxNSendMax,  \* n_send_max, the size of the received buffer
    state    : States,          \* srstm_connection_states
    reason   : DiscReasons,     \* of the last connection state notification
    snT      : SeqNums,         \* sequence_number_tx
    snR      : SeqNums,         \* sequence_number_rx
    csT      : SeqNums,         \* confirmed_sequence_number_tx
    lastCsT  : SeqNums,         \* last_send_confirmed_sequence_number_tx
    csR      : SeqNums,         \* confirmed_sequence_number_rx
    tsR      : SeqNums,         \* time_stamp_rx
    tsT      : SeqNums,         \* time_stamp_tx
    ctsR     : SeqNums,         \* confirmed_time_stamp_rx
    ti       : 0 .. TMax,       \* timer_t_i
    opposite : Nat,             \* opposite_receive_buffer_size
    pending  : BOOLEAN,         \* received_data_pending
    input    : BOOLEAN,         \* input_buffer.message_in_buffer
    inputSn  : SeqNums,         \* sequence_number of the header in input_buffer
    foreign  : BOOLEAN,         \* that header names other ends
    temp     : BOOLEAN,         \* temporary_send_buffer.message_in_buffer
    sendBuf  : SendBuffer,      \* srsend_send_buffers
    recvBuf  : Seq(Nat),        \* srrece_received_buffers
    inbox    : Seq(PDU),        \* what the redundancy channel has received
    out      : Seq(PDU),        \* handed to sradin_SendMessage in this call
    calls    : Seq(DiagnosticCall),  \* of sr_diagnostics in this call
    fatal    : Errors ]         \* rasys_FatalError was called with this

(* The connection after srcor_Init and srstm_Init.  The header in the input *)
(* buffer is zero, and sender and receiver are not the same: it is foreign. *)
InitialConnection(server, nSendMax) ==
  [ server |-> server, nSendMax |-> nSendMax, state |-> "Closed",
    reason |-> "NotInUse", snT |-> 0, snR |-> 0, csT |-> 0, lastCsT |-> 0,
    csR |-> 0, tsR |-> 0, tsT |-> 0, ctsR |-> 0, ti |-> 0,
    opposite |-> nSendMax, pending |-> FALSE, input |-> FALSE, inputSn |-> 0,
    foreign |-> TRUE, temp |-> FALSE, sendBuf |-> EmptyBuffer, recvBuf |-> <<>>, inbox |-> <<>>,
    out |-> <<>>, calls |-> <<>>, fatal |-> "None" ]

(* raas_AssertTrue: the first failed assertion stops the program.          *)
Require(c, condition, error) ==
  IF condition \/ c.fatal # "None" THEN c ELSE [c EXCEPT !.fatal = error]

(* UpdateConnectionState and UpdateConnectionStateWithDiscReason           *)
UpdateConnectionState(c, state) ==
  IF state = c.state THEN c ELSE [c EXCEPT !.state = state, !.reason = "NotInUse"]

(* The call ends: what it sent and told sr_diagnostics is taken over.      *)
CallEnded(c) == [c EXCEPT !.out = <<>>, !.calls = <<>>]

Diagnose(c, call) == [c EXCEPT !.calls = Append(@, [call |-> call])]

TimeoutRelated == {"Hb", "Data", "RetrData"}

-----------------------------------------------------------------------------
(* Sending (srcor).                                                        *)

Min2(m, n) == IF m <= n THEN m ELSE n

(* How many messages of the send buffer are sent once flow control stops   *)
(* srcor_SendPendingMessages.                                              *)
SentWithFlowControl(c) ==
  IF c.opposite > c.sendBuf.sent
    THEN Min2(GetUsedBufferEntries(c.sendBuf), c.opposite) ELSE c.sendBuf.sent

(* A message of the send buffer as srmsg_UpdateMessageHeader completes it. *)
Completed(m, cs, now) ==
  [type |-> m.type, sn |-> m.sn, cs |-> cs, ts |-> now, cts |-> m.cts,
   payload |-> m.payload, check |-> "Ok", version |-> TRUE]

(* sradin_SendMessage: a redundancy channel that is not open refuses.      *)
SradinSend(c, pdus) ==
  IF c.state = "Closed" THEN c ELSE [c EXCEPT !.out = @ \o pdus]

(* srcor_SendPendingMessages.  A connection request is the first message   *)
(* of its buffer, and clears CS_T.                                         *)
SendPendingMessages(c, now) ==
  LET b  == c.sendBuf
      n  == SentWithFlowControl(c) - b.sent
      cs == IF n > 0 /\ b.msgs[b.sent + 1].type = "ConnReq" THEN 0 ELSE c.csT
  IN  IF n = 0 THEN c
      ELSE SradinSend([c EXCEPT !.sendBuf.sent = @ + n, !.csT = cs,
                                !.lastCsT = cs, !.tsT = now],
                      [i \in 1 .. n |-> Completed(b.msgs[b.sent + i], cs, now)])

(* The next message, with the number GetCurrentSequenceNumberAndIncrement- *)
(* Number gives it.                                                        *)
NewMessage(c, type, payload) ==
  [type |-> type, sn |-> c.snT, cts |-> c.tsR, payload |-> payload]

(* The core of srcor_Send{Data,ConnReq,ConnResp,Hb,RetrReq}Message.        *)
SendMessage(c, type, payload, now) ==
  LET full == GetFreeBufferEntries(c.sendBuf) = 0
      added == [c EXCEPT !.snT = Plus(@, 1),
                         !.sendBuf.msgs = Append(@, NewMessage(c, type, payload))]
  IN  IF full THEN Require(c, FALSE, "SendBufferFull")
      ELSE SendPendingMessages(added, now)

SendHbMessage(c, now) == SendMessage(c, "Hb", 0, now)
SendRetrReqMessage(c, now) == SendMessage(c, "RetrReq", 0, now)
SendConnReqMessage(c, now) ==
  SendMessage([c EXCEPT !.tsR = 0], "ConnReq", c.nSendMax, now)
SendConnRespMessage(c, now) == SendMessage(c, "ConnResp", c.nSendMax, now)
SendDataMessage(c, payload, now) ==
  SendMessage([Require(c, c.temp, "InternalError") EXCEPT !.temp = FALSE],
              "Data", payload, now)

(* srcor_SendDiscReqMessage: past the send buffer, which is emptied.       *)
SendDiscReqMessage(c, now) ==
  [SradinSend(c, <<Completed(NewMessage(c, "DiscReq", 0), c.csT, now)>>) EXCEPT
     !.snT = Plus(@, 1), !.sendBuf = EmptyBuffer]

(* A plausible slip: whether the header is that of a message which passed  *)
(* its checks is not asked.                                                *)
UpdateConfirmedTxAlways(c) == [c EXCEPT !.csT = c.inputSn, !.input = FALSE]

(* srcor_UpdateConfirmedTxSequenceNumber                                   *)
UpdateConfirmedTx(c) ==
  IF c.input THEN [c EXCEPT !.csT = c.inputSn, !.input = FALSE] ELSE c

(* srcor_CloseRedundancyChannel: the redundancy channel forgets what it    *)
(* received, and the diagnostics of the session are handed over.           *)
ChannelClosed(c) == Diagnose([c EXCEPT !.inbox = <<>>], "Notify")

(* CloseConnection of the state machine.                                   *)
CloseConnection(c, reason, incoming, now) ==
  LET noted == IF incoming THEN UpdateConfirmedTx(c) ELSE c
  IN  [ChannelClosed(SendDiscReqMessage(noted, now)) EXCEPT
         !.state = "Closed", !.reason = reason]

(* CloseRedundancyChannel of the state machine.                            *)
CloseRedundancyChannel(c, incoming) ==
  LET noted == IF incoming THEN UpdateConfirmedTx(c) ELSE c
  IN  UpdateConnectionState(ChannelClosed(noted), "Closed")

(* A plausible slip: the numbers given in the buffer are not saved back.   *)
HandleRetrReqForgettingNumbers(c) ==
  [c EXCEPT !.sendBuf = PrepareBufferForRetr(@, c.snT, c.tsR), !.snT = Plus(@, 1)]

(* srcor_HandleRetrReq                                                     *)
HandleRetrReq(c) ==
  LET b == c.sendBuf
      new == PrepareBufferForRetr(b, c.snT, c.tsR)
      ok == FollowsConfirmed(b, c.csR)
      checked == Require(Require(Require(Require(c,
                   ok, "InvalidSequenceNumber"),
                   CanRetransmit(b), "InternalError"),
                   RetransmissionFits(b), "SendBufferFull"),
                   GetFreeBufferEntries(b) > 0, "InternalError")
  IN  [checked EXCEPT !.sendBuf = new, !.snT = Plus(@, Len(new.msgs))]

-----------------------------------------------------------------------------
(* Receiving (srcor_ReceiveMessage).                                       *)

(* CheckSequenceNumberRange                                                *)
SequenceNumberInRange(c, m) ==
  \/ m.type \in {"ConnReq", "ConnResp", "RetrResp"}
  \/ Minus(m.sn, c.snR) <= SnRangeFactor * c.nSendMax

(* CheckConfirmedSequenceNumber                                            *)
ConfirmedSequenceNumberOk(c, m) ==
  CASE m.type = "ConnReq"  -> m.cs = 0
    [] m.type = "ConnResp" -> m.cs = Minus(c.snT, 1)
    [] OTHER -> Minus(m.cs, c.csR) <= Minus(c.snT, Minus(c.csR, 1))

(* CheckTimeStamp                                                          *)
TimeStampOk(c, m) ==
  m.type \in TimeoutRelated => Minus(m.ts, c.tsR) <= TMax - 1

(* The message raises an event of the state machine.                       *)
Accepted(c, m) ==
  /\ m.check = "Ok"
  /\ SequenceNumberInRange(c, m)
  /\ ConfirmedSequenceNumberOk(c, m)
  /\ TimeStampOk(c, m)

(* Plausible slips: a type is missing among those that are checked.        *)
InSequenceButData(c, m) == m.type \in {"RetrReq", "Hb", "RetrData"} => m.sn = c.snR
InSequenceButRetrData(c, m) == m.type \in {"RetrReq", "Hb", "Data"} => m.sn = c.snR

(* CheckSequenceNumber                                                     *)
InSequence(c, m) ==
  m.type \in {"RetrReq", "Hb", "Data", "RetrData"} => m.sn = c.snR

(* CheckConfirmedTimeStamp                                                 *)
ConfirmedTimeStampOk(c, m) ==
  m.type \in TimeoutRelated => Minus(m.cts, c.ctsR) <= TMax - 1

(* What GeneralMessageCheck counts.  The identifiers are checked whatever  *)
(* srmsg_CheckMessage found: in the header of an earlier message, if this  *)
(* one was not read.                                                       *)
GeneralErrors(c, m) ==
  (IF m.check \in {"SafetyCode", "Type"} THEN << m.check >> ELSE <<>>)
    \o (IF m.check = "Foreign" \/ (~ Readable(m) /\ c.foreign)
          THEN << "Address" >> ELSE <<>>)

(* The error counters a received message adds to, in the order of the      *)
(* checks, each of which ends them if it fails but for the last one.       *)
ErrorsOf(c, m) ==
  CASE m.check # "Ok" -> GeneralErrors(c, m)
    [] m.check = "Ok" /\ SequenceNumberInRange(c, m)
         /\ ~ ConfirmedSequenceNumberOk(c, m) -> << "ConfirmedSequenceNumber" >>
    [] Accepted(c, m) /\ ~ InSequence(c, m) -> << "SequenceNumber" >>
    [] OTHER -> <<>>

-----------------------------------------------------------------------------
(* Regular processing of a message (srcor_ProcessReceivedMessage).         *)

(* t_rtd of CalculateTimeliness.                                           *)
RoundTripDelay(m, now) == Minus(Plus(now, Granularity), m.cts)

(* A plausible slip: the message's own time stamp is taken for the one it  *)
(* confirms.                                                               *)
TimelinessByTimeStamp(m, now) ==
  m.type \in TimeoutRelated => Minus(Plus(now, Granularity), m.ts) <= TMax

(* The outcome of CalculateTimeliness.                                     *)
TimelinessRespected(m, now) ==
  m.type \in TimeoutRelated => RoundTripDelay(m, now) <= TMax

(* ReceivedFlowControlCheck: too many messages of the opposite side are    *)
(* not confirmed.                                                          *)
ReceivedFlowControlCheck(c, m, now) ==
  IF \/ m.type \notin {"Hb", "RetrResp", "Data", "RetrData"}
     \/ Minus(c.csT, c.lastCsT) < MWA
    THEN c
    ELSE IF GetNumberOfMessagesToSend(c.sendBuf) = 0
           THEN SendHbMessage(c, now) ELSE SendPendingMessages(c, now)

(* The numbers and time stamps of the message are taken over.              *)
NotedHeader(c, m, now) ==
  [c EXCEPT
    !.ti   = IF m.type \in TimeoutRelated THEN TMax - RoundTripDelay(m, now) ELSE @,
    !.snR  = Plus(m.sn, 1),
    !.csT  = m.sn,
    !.csR  = IF m.type = "ConnReq" THEN Minus(c.snT, 1) ELSE m.cs,
    !.tsR  = m.ts,
    !.ctsR = CASE m.type \in TimeoutRelated -> m.cts
               [] m.type = "ConnReq" -> now
               [] OTHER -> @,
    !.sendBuf = IF m.type # "ConnReq" /\ m.cs # c.csR
                  THEN RemoveFromBuffer(@, m.cs) ELSE @]

(* The payload of the message is used: the size of the opposite received   *)
(* buffer, or data for the layer above (srrece_AddToBuffer).               *)
TakenPayload(c, m) ==
  CASE m.type \in {"ConnReq", "ConnResp"} -> [c EXCEPT !.opposite = m.payload]
    [] m.type \in {"Data", "RetrData"} ->
         [Require(c, Len(c.recvBuf) < c.nSendMax, "ReceiveBufferFull") EXCEPT
            !.recvBuf = Append(@, m.payload)]
    [] OTHER -> c

(* ProcessReceivedMessage of the state machine: a message that is too old  *)
(* closes the connection.  srdia_UpdateConnectionDiagnostics asserts that  *)
(* t_alive is at most t_max.                                               *)
ProcessReceivedMessage(c, m, now) ==
  IF ~ TimelinessRespected(m, now)
    THEN CloseConnection([c EXCEPT !.ti = 0, !.input = FALSE], "Timeout", TRUE, now)
    ELSE LET p == ReceivedFlowControlCheck(
                    TakenPayload(NotedHeader(c, m, now), m), m, now)
             times == [call |-> "Update", rtd |-> RoundTripDelay(m, now),
                       alive |-> Minus(now, c.ctsR)]
         IN  IF m.type \notin TimeoutRelated THEN [p EXCEPT !.input = FALSE]
             ELSE [Require(p, times.alive <= TMax, "InvalidParameter") EXCEPT
                     !.input = FALSE, !.calls = Append(@, times)]

(* What follows regular processing, if the message was not too old.        *)
Unless(p, q) == IF p.state = "Closed" THEN p ELSE q
=============================================================================

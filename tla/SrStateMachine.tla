--------------------------- MODULE SrStateMachine ---------------------------
(***************************************************************************)
(* The connection state machine of the safety and retransmission layer     *)
(* (srstm), and the calls of srapi and sradno that raise its events.       *)
(***************************************************************************)
EXTENDS SrConnection

-----------------------------------------------------------------------------
(* Events that received messages raise.                                    *)

Retransmits(c, m) == IsSequenceNumberInBuffer(c.sendBuf, Plus(m.cs, 1))

(* A plausible slip: what is confirmed stays in the send buffer.           *)
UpdateConfirmedRxKeeping(c, m) ==
  IF c.input THEN [c EXCEPT !.csR = m.cs, !.input = FALSE] ELSE c

(* srcor_UpdateConfirmedRxSequenceNumber                                   *)
UpdateConfirmedRx(c, m) ==
  IF c.input
    THEN [c EXCEPT !.csR = m.cs, !.sendBuf = RemoveFromBuffer(@, m.cs), !.input = FALSE]
    ELSE c

(* StartRetransmission                                                     *)
StartRetransmission(c, m, requested, now) ==
  LET answered == HandleRetrReq(UpdateConfirmedRx(c, m))
  IN  UpdateConnectionState(
        IF requested THEN SendRetrReqMessage(answered, now) ELSE answered,
        "RetransRequest")

(* A plausible slip: the message behind the gap is confirmed.              *)
RequestRetransmissionConfirming(c, now) ==
  UpdateConnectionState(SendRetrReqMessage(UpdateConfirmedTx(c), now), "RetransRequest")

(* A message out of sequence is discarded and a retransmission requested.  *)
RequestRetransmission(c, now) ==
  UpdateConnectionState(SendRetrReqMessage([c EXCEPT !.input = FALSE], now),
                        "RetransRequest")

(* A retransmission request that is processed regularly.                   *)
AnswerRetrReq(c, m, now) ==
  LET p == ProcessReceivedMessage(c, m, now) IN Unless(p, HandleRetrReq(p))

(* A heartbeat or data whose numbers are in sequence, and the state after. *)
ProcessInSequence(c, m, state, now) ==
  LET p == ProcessReceivedMessage(c, m, now)
  IN  IF ConfirmedTimeStampOk(c, m)
        THEN Unless(p, UpdateConnectionState(p, state))
        ELSE CloseConnection(c, "ProtocolSequenceError", TRUE, now)

(* A plausible slip: only data, no heartbeat, ends the retransmission.     *)
StateAfterOnlyData(m) == IF m.type = "Data" THEN "Up" ELSE "RetransRunning"

(* The state after a message of a running retransmission.                  *)
StateAfter(m) == IF m.type = "RetrData" THEN "RetransRunning" ELSE "Up"

DownEvents(c, m, now) ==
  CASE m.type # "ConnReq" -> c
    [] m.type = "ConnReq" /\ m.version ->
         UpdateConnectionState(
           SendConnRespMessage(ProcessReceivedMessage(c, m, now), now), "Start")
    [] OTHER -> CloseConnection(c, "ProtocolVersionError", TRUE, now)

StartEvents(c, m, now) ==
  CASE m.type = "DiscReq" -> CloseRedundancyChannel(c, TRUE)
    [] m.type = "ConnResp" /\ ~ c.server ->
         IF m.version
           THEN UpdateConnectionState(
                  SendHbMessage(ProcessReceivedMessage(c, m, now), now), "Up")
           ELSE CloseConnection(c, "ProtocolVersionError", TRUE, now)
    [] m.type = "Hb" /\ c.server ->
         IF InSequence(c, m)
           THEN ProcessInSequence(c, m, "Up", now)
           ELSE CloseConnection(c, "SequenceNumberError", TRUE, now)
    [] OTHER -> CloseConnection(c, "UnexpectedMessage", TRUE, now)

UpEvents(c, m, now) ==
  CASE m.type = "DiscReq" -> CloseRedundancyChannel(c, TRUE)
    [] m.type = "RetrReq" ->
         CASE ~ Retransmits(c, m) -> CloseConnection(c, "RetransmissionFailed", TRUE, now)
           [] Retransmits(c, m) /\ InSequence(c, m) -> AnswerRetrReq(c, m, now)
           [] OTHER -> StartRetransmission(c, m, TRUE, now)
    [] m.type \in {"Hb", "Data"} ->
         IF InSequence(c, m) THEN ProcessInSequence(c, m, "Up", now)
         ELSE RequestRetransmission(c, now)
    [] OTHER -> CloseConnection(c, "UnexpectedMessage", TRUE, now)

RetransRequestEvents(c, m, now) ==
  CASE m.type = "DiscReq" -> CloseRedundancyChannel(c, TRUE)
    [] m.type = "RetrReq" ->
         CASE ~ Retransmits(c, m) -> CloseConnection(c, "RetransmissionFailed", TRUE, now)
           [] Retransmits(c, m) /\ InSequence(c, m) -> AnswerRetrReq(c, m, now)
           [] OTHER -> StartRetransmission(c, m, FALSE, now)
    [] m.type = "RetrResp" ->
         UpdateConnectionState(ProcessReceivedMessage(c, m, now), "RetransRunning")
    [] m.type \in TimeoutRelated -> c
    [] OTHER -> CloseConnection(c, "UnexpectedMessage", TRUE, now)

RetransRunningEvents(c, m, now) ==
  CASE m.type = "DiscReq" -> CloseRedundancyChannel(c, TRUE)
    [] m.type = "RetrReq" /\ ~ InSequence(c, m) ->
         IF Retransmits(c, m) THEN StartRetransmission(c, m, TRUE, now)
         ELSE CloseConnection(c, "RetransmissionFailed", TRUE, now)
    [] m.type \in TimeoutRelated ->
         IF InSequence(c, m)
           THEN ProcessInSequence(c, m, StateAfter(m), now)
           ELSE RequestRetransmission(c, now)
    [] OTHER -> CloseConnection(c, "UnexpectedMessage", TRUE, now)

(* srstm_ProcessConnectionStateMachine for the event of a message.         *)
ProcessMessageEvent(c, m, now) ==
  CASE c.state = "Closed"         -> c
    [] c.state = "Down"           -> DownEvents(c, m, now)
    [] c.state = "Start"          -> StartEvents(c, m, now)
    [] c.state = "Up"             -> UpEvents(c, m, now)
    [] c.state = "RetransRequest" -> RetransRequestEvents(c, m, now)
    [] c.state = "RetransRunning" -> RetransRunningEvents(c, m, now)

-----------------------------------------------------------------------------
(* The receive loop of sradno_MessageReceivedNotification and of           *)
(* srapi_CheckTimings.                                                     *)

(* A plausible slip: room in the received buffer is not asked for.         *)
ReceivingGoesOnBlindly(c) ==
  c.pending /\ GetFreeBufferEntries(c.sendBuf) >= kMinFreeEntriesSendBufferForRetr

(* Its condition: srcor_IsReceivedMsgPendingAndBuffersNotFull.             *)
ReceivingGoesOn(c) ==
  /\ c.pending
  /\ c.nSendMax - Len(c.recvBuf) >= kMinFreeEntriesReceivedBufferForReceive
  /\ GetFreeBufferEntries(c.sendBuf) >= kMinFreeEntriesSendBufferForRetr

(* One iteration: srcor_ReceiveMessage, and the event it raises, if any.   *)
(* The header of a readable message stays in the input buffer.             *)
ReceiveOne(c, now) ==
  IF c.inbox = <<>> THEN [c EXCEPT !.pending = FALSE]
  ELSE LET m == Head(c.inbox)
           errors == ErrorsOf(c, m)
           read == [c EXCEPT
             !.inbox = Tail(@),
             !.inputSn = IF Readable(m) THEN m.sn ELSE @,
             !.foreign = IF Readable(m) THEN m.check = "Foreign" ELSE @,
             !.calls = @ \o [i \in DOMAIN errors |-> [call |-> errors[i]]]]
       IN  IF Accepted(c, m)
             THEN ProcessMessageEvent([read EXCEPT !.input = TRUE], m, now)
             ELSE read

(* The whole loop: it takes at most one iteration more than there are      *)
(* messages, the one that finds none left.                                 *)
ReceiveLoop(c, now) ==
  LET after[n \in 0 .. Len(c.inbox) + 1] ==
        IF n = 0 THEN c
        ELSE LET p == after[n - 1] IN IF ReceivingGoesOn(p) THEN ReceiveOne(p, now) ELSE p
  IN  after[Len(c.inbox) + 1]

(* srcor_IsMessageTimeout and srcor_IsHeartbeatInterval                    *)
IsMessageTimeout(c, now) == Minus(now, c.ctsR) > c.ti
IsHeartbeatInterval(c, now) == Minus(now, c.tsT) >= TH

(* Event Timeout.                                                          *)
TimeoutEvent(c, now) ==
  IF c.state \in {"Closed", "Down"} THEN c ELSE CloseConnection(c, "Timeout", TRUE, now)

(* Event SendHb.                                                           *)
SendHbEvent(c, now) ==
  IF c.state \in {"Closed", "Down"} \/ (c.state = "Start" /\ ~ c.server)
    THEN c ELSE SendHbMessage(c, now)

(* sradno_MessageReceivedNotification                                      *)
MessageReceivedNotification(c, now) == ReceiveLoop([c EXCEPT !.pending = TRUE], now)

(* A plausible slip: the time-out is checked only if no heartbeat is due.  *)
CheckTimersHeartbeatFirst(c, now) ==
  LET s == SendPendingMessages(c, now)
  IN  CASE IsHeartbeatInterval(s, now)
             /\ GetNumberOfMessagesToSend(s.sendBuf) = 0 -> SendHbEvent(s, now)
        [] ~ IsHeartbeatInterval(s, now) /\ IsMessageTimeout(s, now) -> TimeoutEvent(s, now)
        [] OTHER -> s

(* srapi_CheckTimings after its receive loop.                              *)
CheckTimers(c, now) ==
  LET s == SendPendingMessages(c, now)
  IN  CASE IsMessageTimeout(s, now) -> TimeoutEvent(s, now)
        [] ~ IsMessageTimeout(s, now) /\ IsHeartbeatInterval(s, now)
             /\ GetNumberOfMessagesToSend(s.sendBuf) = 0 -> SendHbEvent(s, now)
        [] OTHER -> s

(* srapi_CheckTimings                                                      *)
CheckTimings(c, now) == CheckTimers(ReceiveLoop(c, now), now)

-----------------------------------------------------------------------------
(* Calls of the application (srapi).                                       *)

(* A plausible slip: received data of the last session is kept.            *)
InitRaStaConnDataKeepingReceived(c, sn, now) ==
  [c EXCEPT
    !.snT = sn, !.snR = 0, !.csT = 0, !.lastCsT = 0, !.csR = 0,
    !.tsR = 0, !.tsT = 0, !.ctsR = IF c.server THEN 0 ELSE now, !.ti = TMax,
    !.opposite = c.nSendMax, !.pending = FALSE, !.input = FALSE, !.temp = FALSE,
    !.sendBuf = EmptyBuffer, !.inbox = <<>>, !.calls = Append(@, [call |-> "Init"])]

(* srcor_InitRaStaConnData, sn being the random number.                    *)
InitRaStaConnData(c, sn, now) ==
  [c EXCEPT
    !.snT = sn, !.snR = 0, !.csT = 0, !.lastCsT = 0, !.csR = 0,
    !.tsR = 0, !.tsT = 0, !.ctsR = IF c.server THEN 0 ELSE now, !.ti = TMax,
    !.opposite = c.nSendMax, !.pending = FALSE, !.input = FALSE, !.temp = FALSE,
    !.sendBuf = EmptyBuffer, !.recvBuf = <<>>, !.inbox = <<>>,
    !.calls = Append(@, [call |-> "Init"])]

(* srapi_OpenConnection                                                    *)
OpenConnection(c, sn, now) ==
  LET ready == UpdateConnectionState(InitRaStaConnData(c, sn, now),
                                     IF c.server THEN "Down" ELSE "Start")
  IN  CASE c.state = "Closed" -> IF c.server THEN ready ELSE SendConnReqMessage(ready, now)
        [] c.state = "Down"   -> CloseRedundancyChannel(c, FALSE)
        [] OTHER -> CloseConnection(c, "ServiceNotAllowed", FALSE, now)

(* srapi_CloseConnection                                                   *)
CloseConnectionCall(c, now) ==
  CASE c.state = "Closed" -> c
    [] c.state = "Down"   -> CloseRedundancyChannel(c, FALSE)
    [] OTHER -> CloseConnection(c, "UserRequest", FALSE, now)

(* srapi_SendData takes the data: it returns neither                       *)
(* kInvalidOperationInCurrentState nor kSendBufferFull.                    *)
SendDataTakes(c) == c.state # "Closed" /\ GetFreeBufferEntries(c.sendBuf) > 0

(* srapi_SendData, if it takes the data.                                   *)
SendData(c, payload, now) ==
  LET written == [Require(c, ~ c.temp, "InternalError") EXCEPT !.temp = TRUE]
  IN  CASE c.state = "Down"  -> CloseRedundancyChannel(written, FALSE)
        [] c.state = "Start" -> CloseConnection(written, "ServiceNotAllowed", FALSE, now)
        [] OTHER -> SendDataMessage(written, payload, now)

(* srapi_ReadData, if there is data.                                       *)
ReadData(c) == [c EXCEPT !.recvBuf = Tail(@)]
=============================================================================

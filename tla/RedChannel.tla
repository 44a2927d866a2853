---------------------------- MODULE RedChannel ----------------------------
(***************************************************************************)
(* One redundancy channel of the redundancy layer (RedL): the data the     *)
(* modules redstm, redcor, reddfq, redrbf and redint keep for it, and      *)
(* every operation on it, as operators from a channel to the channel the   *)
(* operation leaves behind.  The state machines of RedEndpoint and         *)
(* RedLink are built from them.                                            *)
(***************************************************************************)
EXTENDS SequenceNumbers, FiniteSets, Sequences, Functions

CONSTANTS
  DeferQueueSize,  \* n_defer_queue_size of the configuration
  RangeFactor,     \* kSequenceNumberRangeCheckFactor
  RxBufferSize,    \* RADEF_MAX_N_SEND_MAX, the size of the received buffer
  TSeq,            \* t_seq of the configuration, in ticks
  NumTransports,   \* num_transport_channels of the configuration
  Payloads         \* what a PDU carries for the layer above

ASSUME RedChannelAssumption ==
  /\ DeferQueueSize \in Nat \ {0}
  /\ RangeFactor \in Nat \ {0}
  /\ RxBufferSize \in Nat \ {0}
  /\ TSeq \in Nat
  /\ NumTransports \in Nat \ {0}
  /\ RangeFactor * DeferQueueSize + 1 < Half

Transports == 0 .. NumTransports - 1
Window == RangeFactor * DeferQueueSize

(* A message as redtri_ReadMessage returns it.  crcOk is the outcome of    *)
(* redmsg_CheckMessageCrc.                                                 *)
PDU == [seq : SeqNums, payload : Payloads, crcOk : BOOLEAN]

(* An entry of the defer queue.  age is the time since received_timestamp, *)
(* counted only as far as reddfq_IsTimeout can tell ages apart.            *)
DeferEntry == [seq : SeqNums, payload : Payloads, age : 0 .. TSeq + 1]

Channel ==
  [ state      : {"Closed", "Up"},            \* redstm_redundancy_channel_states
    seqRx      : SeqNums,                     \* seq_rx
    seqTx      : SeqNums,                     \* seq_tx
    deferQueue : SUBSET DeferEntry,           \* reddfq_defer_queues
    rxBuffer   : Seq(Payloads),               \* redrbf_received_buffers
    pending    : [Transports -> BOOLEAN],     \* received_data_pending
    pollIndex  : Transports,                  \* tr_channel_polling_read_indices
    fatal      : BOOLEAN ]                    \* rasys_FatalError was called

(* The channel after redint_Init.                                          *)
InitialChannel ==
  [ state |-> "Closed", seqRx |-> 0, seqTx |-> 0, deferQueue |-> {},
    rxBuffer |-> <<>>, pending |-> [t \in Transports |-> FALSE],
    pollIndex |-> 0, fatal |-> FALSE ]

-----------------------------------------------------------------------------
(* Received buffer (redrbf).                                               *)

(* redrbf_GetFreeBufferEntries                                             *)
FreeBufferEntries(c) == RxBufferSize - Len(c.rxBuffer)

(* redrbf_AddToBuffer for a sequence of payloads, one after the other: the *)
(* first that finds the buffer full is a fatal error.                      *)
AddToBuffer(c, payloads) ==
  IF Len(payloads) <= FreeBufferEntries(c)
    THEN [c EXCEPT !.rxBuffer = @ \o payloads]
    ELSE [c EXCEPT !.fatal = TRUE]

(* redrbf_ReadFromBuffer on a buffer that is not empty.                    *)
ReadFromBuffer(c) == [c EXCEPT !.rxBuffer = Tail(@)]

-----------------------------------------------------------------------------
(* Defer queue (reddfq).                                                   *)

UsedEntries(c) == Cardinality(c.deferQueue)

Contains(queue, seq) == \E e \in queue : e.seq = seq

(* reddfq_GetMessage: the entry with this sequence number.                 *)
Entry(queue, seq) == CHOOSE e \in queue : e.seq = seq

(* reddfq_AddMessage: a message that finds no free entry is dropped.       *)
AddMessage(queue, pdu) ==
  IF Cardinality(queue) < DeferQueueSize
    THEN queue \cup {[seq |-> pdu.seq, payload |-> pdu.payload, age |-> 0]}
    ELSE queue

IsTimeout(queue) == \E e \in queue : e.age > TSeq

(* reddfq_GetOldestSequenceNumber of a queue that is not empty.            *)
OldestSequenceNumber(queue) ==
  (CHOOSE e \in queue :
     \A f \in queue : ~ IsSequenceNumberOlder(f.seq, e.seq)).seq

(* The age of every deferred message after a tick of the timer.            *)
AgeDeferQueue(c) ==
  [c EXCEPT !.deferQueue =
     {[e EXCEPT !.age = IF @ > TSeq THEN @ ELSE @ + 1] : e \in @}]

-----------------------------------------------------------------------------
(* Core (redcor).                                                          *)

(* redcor_InitRedundancyChannelData                                        *)
InitRedundancyChannelData(c) ==
  [c EXCEPT !.seqRx = 0, !.seqTx = 0, !.deferQueue = {}, !.rxBuffer = <<>>,
            !.pending = [t \in Transports |-> FALSE]]

(* How many messages of the queue follow each other without a gap from     *)
(* seq on: how often the loop of DeliverDeferQueue runs.                   *)
RunLength(queue, seq) ==
  CHOOSE n \in 0 .. Cardinality(queue) :
    /\ ~ Contains(queue, Plus(seq, n))
    /\ \A i \in 0 .. n - 1 : Contains(queue, Plus(seq, i))

Run(queue, seq) ==
  [i \in 1 .. RunLength(queue, seq) |-> Entry(queue, Plus(seq, i - 1))]

(* A plausible slip: a delivered message stays in the queue.               *)
DeliverDeferQueueKeeping(c) ==
  LET run == Run(c.deferQueue, c.seqRx)
  IN  [AddToBuffer(c, [i \in DOMAIN run |-> run[i].payload]) EXCEPT
         !.seqRx = Plus(@, Len(run))]

(* DeliverDeferQueue: deliver the queue as long as messages are in         *)
(* sequence.                                                               *)
DeliverDeferQueue(c) ==
  LET run == Run(c.deferQueue, c.seqRx)
  IN  [AddToBuffer(c, [i \in DOMAIN run |-> run[i].payload]) EXCEPT
         !.deferQueue = @ \ Range(run),
         !.seqRx = Plus(@, Len(run))]

(* redcor_DeferQueueTimeout: give the missing messages up and go on with   *)
(* the oldest one that is there.                                           *)
DeferQueueTimeout(c) ==
  DeliverDeferQueue([c EXCEPT !.seqRx = OldestSequenceNumber(c.deferQueue)])

(* AddMessageToReceivedBufferAndDeliverDeferQueue                          *)
DeliverInSequence(c, pdu) ==
  DeliverDeferQueue([AddToBuffer(c, <<pdu.payload>>) EXCEPT
                       !.seqRx = Plus(@, 1)])

(* SeqPdu <= SeqRx + 10 * N_deferQueueSize, in unsigned arithmetic.        *)
InWindow(c, pdu) ==
  IsSequenceNumberOlder(pdu.seq, Plus(c.seqRx, Window + 1))

(* Before anything was sent or received only the first PDU is accepted.    *)
IgnoredAtStart(c, pdu) == c.seqRx = 0 /\ c.seqTx = 0 /\ pdu.seq # 0

(* A plausible slip: the test for an older sequence number is left out, so *)
(* that only the window test protects the queue.                           *)
ProcessReceivedMessageNoOlder(c, pdu) ==
  CASE ~ pdu.crcOk \/ IgnoredAtStart(c, pdu) -> c
    [] OTHER ->
       IF pdu.seq = c.seqRx THEN DeliverInSequence(c, pdu)
       ELSE IF InWindow(c, pdu) /\ ~ Contains(c.deferQueue, pdu.seq)
       THEN [c EXCEPT !.deferQueue = AddMessage(@, pdu)]
       ELSE c

(* redcor_ProcessReceivedMessage.  Diagnostics are RedDiagnostics' part.   *)
ProcessReceivedMessage(c, pdu) ==
  CASE ~ pdu.crcOk \/ IgnoredAtStart(c, pdu) -> c
    [] OTHER ->
       IF IsSequenceNumberOlder(pdu.seq, c.seqRx) THEN c
       ELSE IF pdu.seq = c.seqRx THEN DeliverInSequence(c, pdu)
       ELSE IF InWindow(c, pdu) /\ ~ Contains(c.deferQueue, pdu.seq)
       THEN [c EXCEPT !.deferQueue = AddMessage(@, pdu)]
       ELSE c

(* redcor_SendMessage: seq_tx of the PDU sent, and the channel afterwards. *)
SendMessage(c) == [c EXCEPT !.seqTx = Plus(@, 1)]

-----------------------------------------------------------------------------
(* State machine (redstm) and interface (redint, redtrn).                  *)

(* redint_OpenRedundancyChannel: the poll index is reset in either state.  *)
OpenRedundancyChannel(c) ==
  IF c.state = "Closed"
    THEN [InitRedundancyChannelData(c) EXCEPT !.state = "Up", !.pollIndex = 0]
    ELSE [c EXCEPT !.pollIndex = 0]

(* redint_CloseRedundancyChannel                                           *)
CloseRedundancyChannel(c) ==
  IF c.state = "Up"
    THEN [InitRedundancyChannelData(c) EXCEPT !.state = "Closed"]
    ELSE c

(* Event ReceiveData of the state machine.                                 *)
ReceiveData(c, pdu) ==
  IF c.state = "Up" THEN ProcessReceivedMessage(c, pdu) ELSE c

(* A plausible slip: room for this message, but not for the deferred ones  *)
(* it may release.                                                         *)
RoomForOneMessage(c) == FreeBufferEntries(c) > 0

(* A plausible slip: "greater or equal" for "greater".                     *)
RoomOffByOne(c) == FreeBufferEntries(c) >= UsedEntries(c)

(* Room is kept in the received buffer for every deferred message.         *)
RoomToReceive(c) == FreeBufferEntries(c) > UsedEntries(c)

IsMessagePending(c) == \E t \in Transports : c.pending[t]

(* A plausible slip: the pending flag is not set when there is no room.    *)
NotifiedChannelNoFlag(c, t, queue) ==
  CASE c.state = "Up" /\ RoomToReceive(c) /\ queue # <<>> ->
         ReceiveData(c, Head(queue))
    [] OTHER -> [c EXCEPT !.pending[t] = FALSE]

(* redtrn_MessageReceivedNotification, queue being what the transport      *)
(* channel t holds: the channel afterwards.                                *)
NotifiedChannel(c, t, queue) ==
  CASE c.state = "Up" /\ RoomToReceive(c) /\ queue # <<>> ->
         ReceiveData(c, Head(queue))
    [] c.state = "Up" /\ ~ RoomToReceive(c) -> [c EXCEPT !.pending[t] = TRUE]
    [] c.state = "Closed" /\ queue # <<>> -> c
    [] OTHER -> [c EXCEPT !.pending[t] = FALSE]

(* ... and whether it read a message from the transport channel.           *)
NotificationReads(c, queue) ==
  queue # <<>> /\ (c.state = "Up" => RoomToReceive(c))

(* The loop condition of ReceivedMessagesPolling.                          *)
PollingGoesOn(c) == RoomToReceive(c) /\ IsMessagePending(c)

(* A plausible slip: the flag of an empty transport channel stays set.     *)
PolledChannelKeepsFlag(c, queue) ==
  LET t == c.pollIndex
  IN  [IF c.pending[t] /\ queue # <<>> THEN ReceiveData(c, Head(queue)) ELSE c
         EXCEPT !.pollIndex = IF t + 1 = NumTransports THEN 0 ELSE t + 1]

(* A plausible slip: the index wraps around one transport channel too late. *)
PolledChannelWrapsLate(c, queue) ==
  LET t == c.pollIndex
      received == CASE ~ c.pending[t] -> c
                    [] c.pending[t] /\ queue = <<>> -> [c EXCEPT !.pending[t] = FALSE]
                    [] OTHER -> ReceiveData(c, Head(queue))
  IN  [received EXCEPT !.pollIndex = IF t + 1 > NumTransports THEN 0 ELSE t + 1]

(* One iteration of that loop: the transport channel at the poll index is  *)
(* read if its flag is set, and the index moves on.                        *)
PolledChannel(c, queue) ==
  LET t == c.pollIndex
      received == CASE ~ c.pending[t] -> c
                    [] c.pending[t] /\ queue = <<>> -> [c EXCEPT !.pending[t] = FALSE]
                    [] OTHER -> ReceiveData(c, Head(queue))
  IN  [received EXCEPT !.pollIndex = IF t + 1 = NumTransports THEN 0 ELSE t + 1]

PollReads(c, queue) == c.pending[c.pollIndex] /\ queue # <<>>

(* A plausible slip: the timeout of the defer queue is not looked at.      *)
CheckDeferTimeoutNever(c) == c

(* The end of redint_CheckTimings for a channel that is up.                *)
CheckDeferTimeout(c) ==
  IF IsTimeout(c.deferQueue) THEN DeferQueueTimeout(c) ELSE c

(* DiscardMessages empties the transport channels in order until no flag   *)
(* is left: those up to the last one whose flag is set.                    *)
Discarded(c) == {t \in Transports : \E u \in Transports : t <= u /\ c.pending[u]}

DiscardMessages(c) == [c EXCEPT !.pending = [t \in Transports |-> FALSE]]
=============================================================================

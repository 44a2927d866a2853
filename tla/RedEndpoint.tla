---------------------------- MODULE RedEndpoint ----------------------------
(***************************************************************************)
(* A redundancy channel in an environment that does what it likes: any PDU *)
(* arrives on any transport channel at any time, in any order, corrupted   *)
(* or not, and the adapter calls the interface functions in any order.     *)
(* What holds here holds for every peer and every network.                 *)
(*                                                                         *)
(* The layer runs on a single-threaded system without interrupts (user     *)
(* manual, chapter 3.2), so a call is one step, except redint_CheckTimings *)
(* of an open channel, whose polling loop is one step per iteration        *)
(* (polling = TRUE while it runs).                                         *)
(***************************************************************************)
EXTENDS RedChannel

CONSTANTS
  Arrivals,           \* the PDUs the environment chooses from
  TransportQueueSize  \* bound on the messages a transport channel holds, and
                      \* on the notifications it owes

ASSUME EndpointAssumption ==
  /\ Arrivals \subseteq PDU
  /\ TransportQueueSize \in Nat \ {0}

VARIABLES
  ch,         \* the redundancy channel
  transport,  \* received messages the transport channels hold, oldest first
  notices,    \* notifications each transport channel still owes
  polling     \* redint_CheckTimings is in its polling loop

vars == <<ch, transport, notices, polling>>

TypeOK ==
  /\ ch \in Channel
  /\ transport \in [Transports -> Seq(PDU)]
  /\ notices \in [Transports -> Nat]
  /\ polling \in BOOLEAN

Init ==
  /\ ch = InitialChannel
  /\ transport = [t \in Transports |-> <<>>]
  /\ notices = [t \in Transports |-> 0]
  /\ polling = FALSE

(* The next call can be made: no other one is running.                     *)
Idle == ~ polling /\ ~ ch.fatal

Open ==
  /\ Idle
  /\ ch' = OpenRedundancyChannel(ch)
  /\ UNCHANGED <<transport, notices, polling>>

Close ==
  /\ Idle
  /\ ch' = CloseRedundancyChannel(ch)
  /\ UNCHANGED <<transport, notices, polling>>

(* redint_SendMessage of a channel that is up.                             *)
Send ==
  /\ Idle
  /\ ch.state = "Up"
  /\ ch' = SendMessage(ch)
  /\ UNCHANGED <<transport, notices, polling>>

(* redint_ReadMessage, in either state; without a message nothing changes. *)
Read ==
  /\ Idle
  /\ ch.rxBuffer # <<>>
  /\ ch' = ReadFromBuffer(ch)
  /\ UNCHANGED <<transport, notices, polling>>

(* A PDU arrives on a transport channel, which owes a notification for it. *)
Arrive(t, pdu) ==
  /\ Idle
  /\ Len(transport[t]) < TransportQueueSize
  /\ notices[t] < TransportQueueSize
  /\ transport' = [transport EXCEPT ![t] = Append(@, pdu)]
  /\ notices' = [notices EXCEPT ![t] = @ + 1]
  /\ UNCHANGED <<ch, polling>>

(* redtrn_MessageReceivedNotification                                      *)
Notify(t) ==
  /\ Idle
  /\ notices[t] > 0
  /\ notices' = [notices EXCEPT ![t] = @ - 1]
  /\ ch' = NotifiedChannel(ch, t, transport[t])
  /\ transport' = IF NotificationReads(ch, transport[t])
                    THEN [transport EXCEPT ![t] = Tail(@)] ELSE transport
  /\ UNCHANGED polling

(* redint_CheckTimings of a channel that is not up.                        *)
CheckTimingsClosed ==
  /\ Idle
  /\ ch.state = "Closed"
  /\ ch' = DiscardMessages(ch)
  /\ transport' = [t \in Transports |->
                     IF t \in Discarded(ch) THEN <<>> ELSE transport[t]]
  /\ UNCHANGED <<notices, polling>>

(* redint_CheckTimings of a channel that is up: it starts to poll, ...     *)
CheckTimingsUp ==
  /\ Idle
  /\ ch.state = "Up"
  /\ polling' = TRUE
  /\ UNCHANGED <<ch, transport, notices>>

(* ... polls, ...                                                          *)
Poll ==
  /\ polling /\ ~ ch.fatal
  /\ PollingGoesOn(ch)
  /\ LET t == ch.pollIndex
     IN  /\ ch' = PolledChannel(ch, transport[t])
         /\ transport' = IF PollReads(ch, transport[t])
                           THEN [transport EXCEPT ![t] = Tail(@)] ELSE transport
  /\ UNCHANGED <<notices, polling>>

(* ... and looks for a timeout of the defer queue.                         *)
PollEnd ==
  /\ polling /\ ~ ch.fatal
  /\ ~ PollingGoesOn(ch)
  /\ ch' = CheckDeferTimeout(ch)
  /\ polling' = FALSE
  /\ UNCHANGED <<transport, notices>>

(* Time passes.                                                            *)
Tick ==
  /\ Idle
  /\ ch.deferQueue # {}
  /\ ch' = AgeDeferQueue(ch)
  /\ UNCHANGED <<transport, notices, polling>>

Next ==
  \/ Open
  \/ Close
  \/ Send
  \/ Read
  \/ \E t \in Transports, pdu \in Arrivals : Arrive(t, pdu)
  \/ \E t \in Transports : Notify(t)
  \/ CheckTimingsClosed
  \/ CheckTimingsUp
  \/ Poll
  \/ PollEnd
  \/ Tick

Spec == Init /\ [][Next]_vars

-----------------------------------------------------------------------------
(* Whatever arrives in whatever order, the received buffer has room for    *)
(* every message of the defer queue: DeliverDeferQueue, which does not ask *)
(* for room, never finds the buffer full.                                  *)
RoomForDeferred == FreeBufferEntries(ch) >= UsedEntries(ch)

(* redrbf_AddToBuffer never ends in its fatal error kReceiveBufferFull.    *)
NoBufferOverflow == ~ ch.fatal

(* Between two calls the defer queue holds only messages that are still to *)
(* come, at most Window ahead of the next one expected, and none of them   *)
(* twice: nothing in it could have been delivered, and nothing in it is    *)
(* left behind by a step of seq_rx.                                        *)
DeferQueueAhead ==
  /\ \A e \in ch.deferQueue : Minus(e.seq, ch.seqRx) \in 1 .. Window
  /\ \A e, f \in ch.deferQueue : e.seq = f.seq => e = f

(* "Discard all received messages, while the redundancy channel is not in  *)
(* up state" (redint_red_interface.c:262): redint_CheckTimings of a closed *)
(* channel discards every message that was notified already.  It does not: *)
(* closing the channel clears the pending flags DiscardMessages goes by.   *)
ClosedChannelDrained ==
  Idle /\ ch.state = "Closed" =>
    \A t \in Transports :
      Len(transport[t]) > notices[t] => t \in Discarded(ch)
=============================================================================

------------------------------ MODULE RedLink ------------------------------
(***************************************************************************)
(* A redundancy channel and the messages its peer sends it.  The peer      *)
(* numbers its PDUs with seq_tx and sends each of them on every transport  *)
(* channel (redcor_SendMessage); each transport channel loses, duplicates, *)
(* corrupts and reorders them on its own.                                  *)
(*                                                                         *)
(* The channel is opened once and stays open.  The calls are those of      *)
(* RedEndpoint.                                                            *)
(***************************************************************************)
EXTENDS RedEndpoint

CONSTANTS
  MaxSent,   \* bound: how many messages the peer sends
  MaxAhead,  \* the peer stops when it is this many messages ahead: the flow
             \* control of the layer above (n_send_max)
  Lifetime   \* a copy is read from its transport channel, or lost, before the
             \* peer has sent more than this many messages after it

ASSUME LinkAssumption ==
  /\ MaxSent \in Nat /\ MaxAhead \in Nat /\ Lifetime \in Nat
  /\ Payloads = 0 .. MaxSent - 1
  /\ MaxAhead <= SeqMod
  /\ Lifetime + Window + 1 < SeqMod

VARIABLES
  sent,    \* how many messages the peer sent; the n-th has payload n - 1
  highest  \* the last payload that entered the received buffer, or -1

linkVars == <<vars, sent, highest>>

LinkInit ==
  /\ Init
  /\ sent = 0
  /\ highest = -1

(* redmsg_CreateMessage with the peer's seq_tx, which wraps around.        *)
PeerPDU(n, ok) == [seq |-> n % SeqMod, payload |-> n, crcOk |-> ok]

(* How many messages the peer sent after the one with payload n.           *)
Later(n) == sent - 1 - n

PeerSend ==
  /\ Idle
  /\ sent < MaxSent
  /\ sent - highest <= MaxAhead
  /\ \A t \in Transports : \A i \in DOMAIN transport[t] :
       Later(transport[t][i].payload) < Lifetime
  /\ sent' = sent + 1
  /\ UNCHANGED <<vars, highest>>

(* A copy that is not too old arrives, intact or not.                      *)
LinkArrive(t) ==
  \E n \in {m \in 0 .. sent - 1 : Later(m) <= Lifetime}, ok \in BOOLEAN :
    Arrive(t, PeerPDU(n, ok))

(* The upper layer answers at most once, which is what IgnoredAtStart      *)
(* depends on.                                                             *)
LinkSend == ch.seqTx = 0 /\ Send

(* The last payload handed over after a step that made the buffer grow.    *)
NoteHandOver ==
  highest' = IF Len(ch'.rxBuffer) > Len(ch.rxBuffer)
               THEN ch'.rxBuffer[Len(ch'.rxBuffer)] ELSE highest

Step(A) == A /\ NoteHandOver /\ UNCHANGED sent

LinkNext ==
  \/ PeerSend
  \/ Step(ch.state = "Closed" /\ Open)
  \/ Step(LinkSend)
  \/ Step(Read)
  \/ \E t \in Transports : Step(LinkArrive(t))
  \/ \E t \in Transports : Step(Notify(t))
  \/ Step(CheckTimingsClosed)
  \/ Step(CheckTimingsUp)
  \/ Step(Poll)
  \/ Step(PollEnd)
  \/ Step(Tick)

LinkSpec == LinkInit /\ [][LinkNext]_linkVars

(* What a running system does by itself: a call made runs to its end, the  *)
(* adapter calls redint_CheckTimings periodically, a transport channel     *)
(* notifies every message, the layer above reads, and time goes on.        *)
(* Nothing is assumed of the network.                                      *)
LinkFairness ==
  /\ WF_linkVars(Step(Poll)) /\ WF_linkVars(Step(PollEnd))
  /\ WF_linkVars(Step(CheckTimingsUp))
  /\ \A t \in Transports : SF_linkVars(Step(Notify(t)))
  /\ SF_linkVars(Step(Read))
  /\ SF_linkVars(Step(Tick))

LinkFairSpec == LinkSpec /\ LinkFairness

-----------------------------------------------------------------------------
(* The layer above gets the peer's messages in the order they were sent,   *)
(* none twice, through loss, duplication and reordering on every transport *)
(* channel and through a wrap-around of the sequence numbers.              *)
Promise == INSTANCE OrderedDelivery WITH buffer <- ch.rxBuffer
DeliversInOrder == Promise!Spec

(* While the channel stays open no message is forgotten in a transport     *)
(* channel: one whose notification has come and gone is covered by the     *)
(* pending flag, so the next redint_CheckTimings reads it.                 *)
NothingForgotten ==
  Idle /\ ch.state = "Up" =>
    \A t \in Transports :
      Len(transport[t]) > notices[t] => ch.pending[t]

(* The polling loop of redint_CheckTimings ends whatever the transport     *)
(* channels hold: each iteration empties a queue or takes a flag away.     *)
PollingEnds == polling ~> ~ polling

(* No message waits in the defer queue for ever: it is handed over, at the *)
(* latest when the messages before it are given up.                        *)
DeferredGoesOn ==
  \A n \in Payloads :
    (\E e \in ch.deferQueue : e.payload = n) ~> highest >= n

(* What a transport channel received is read, also when it had to be left  *)
(* there for want of room.                                                 *)
ArrivedIsRead ==
  \A t \in Transports : transport[t] # <<>> ~> transport[t] = <<>>
=============================================================================

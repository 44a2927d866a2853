--------------------------- MODULE RedLink_proofs ---------------------------
(***************************************************************************)
(* The safety of a redundancy channel, and that it hands over what its     *)
(* peer sends in the order in which it was sent (OrderedDelivery), whatever*)
(* the transport channels lose, repeat, corrupt and reorder: for every     *)
(* width of the sequence numbers, every size of the defer queue and the    *)
(* received buffer, every number of transport channels and of messages.    *)
(***************************************************************************)
EXTENDS RedLink, RedChannel_proofs

-----------------------------------------------------------------------------
(* A channel by itself (RedEndpoint).                                      *)

(* The inductive invariant.  The wanted invariants are not inductive by    *)
(* themselves: that DeliverDeferQueue finds room depends on how many       *)
(* messages it delivers, which depends on where the queue lies.            *)
IInv == TypeOK /\ ChannelInv(ch)

(* The channel redint_Init leaves behind satisfies the invariant.          *)
LEMMA InitIInv == Init => IInv
<1> SUFFICES ASSUME Init
             PROVE  IInv
  OBVIOUS
<1>1. ChannelInv(ch)
  BY InitialChannelInv DEF Init
<1>2. TypeOK
  <2>1. ch \in Channel
    BY <1>1 DEF ChannelInv, Sound
  <2>2. transport \in [Transports -> Seq(PDU)]
    BY EmptySeq DEF Init
  <2> QED
    BY <2>1, <2>2 DEF Init, TypeOK
<1> QED
  BY <1>1, <1>2 DEF IInv

(* A step leaves the invariant true when its channel keeps ChannelInv and  *)
(* the rest its type.                                                      *)
LEMMA IInvFromParts ==
  ASSUME ChannelInv(ch'), transport' \in [Transports -> Seq(PDU)],
         notices' \in [Transports -> Nat], polling' \in BOOLEAN
  PROVE  IInv'
BY DEF IInv, TypeOK, ChannelInv, Sound, QueueFrom

(* A message that arrives on a transport channel, whatever it holds.       *)
LEMMA ArriveIInv ==
  ASSUME IInv, NEW t \in Transports, NEW pdu \in PDU, Arrive(t, pdu)
  PROVE  IInv'
<1>1. /\ ChannelInv(ch) /\ ch \in Channel
      /\ transport \in [Transports -> Seq(PDU)]
      /\ notices \in [Transports -> Nat] /\ polling \in BOOLEAN
  BY DEF IInv, TypeOK
<1>2. Append(transport[t], pdu) \in Seq(PDU)
  BY <1>1
<1>3. transport' \in [Transports -> Seq(PDU)]
  BY <1>1, <1>2 DEF Arrive
<1>4. notices' \in [Transports -> Nat]
  BY <1>1 DEF Arrive
<1> QED
  BY <1>1, <1>3, <1>4, IInvFromParts DEF Arrive

(* Every call of the interface and every tick keeps it.                    *)
LEMMA CallsIInv ==
  ASSUME IInv,
         \/ Open \/ Close \/ Send \/ Read \/ CheckTimingsClosed \/ CheckTimingsUp
         \/ Poll \/ PollEnd \/ Tick \/ \E t \in Transports : Notify(t)
  PROVE  IInv'
<1> USE DEF Idle
<1>0. /\ ChannelInv(ch) /\ ch \in Channel
      /\ transport \in [Transports -> Seq(PDU)]
      /\ notices \in [Transports -> Nat] /\ polling \in BOOLEAN
  BY DEF IInv, TypeOK
<1>1. CASE Open
  BY <1>0, <1>1, OpenCloseKeeps, IInvFromParts DEF Open
<1>2. CASE Close
  BY <1>0, <1>2, OpenCloseKeeps, IInvFromParts DEF Close
<1>3. CASE Send
  BY <1>0, <1>3, SendKeeps, IInvFromParts DEF Send
<1>4. CASE Read
  BY <1>0, <1>4, ReadKeeps, IInvFromParts DEF Read
<1>5. ASSUME NEW t \in Transports, Notify(t)
      PROVE  IInv'
  <2>1. transport[t] \in Seq(PDU)
    BY <1>0
  <2>2. ChannelInv(ch')
    BY <1>0, <1>5, <2>1, NotifiedKeeps DEF Notify
  <2>3. transport[t] # <<>> => Tail(transport[t]) \in Seq(PDU)
    BY <2>1, HeadTailProperties
  <2>4. transport' \in [Transports -> Seq(PDU)]
    BY <1>0, <1>5, <2>3 DEF Notify, NotificationReads
  <2>5. notices' \in [Transports -> Nat]
    BY <1>0, <1>5 DEF Notify
  <2> QED
    BY <1>0, <1>5, <2>2, <2>4, <2>5, IInvFromParts DEF Notify
<1>6. CASE CheckTimingsClosed
  <2>1. transport' \in [Transports -> Seq(PDU)]
    BY <1>0, <1>6, EmptySeq DEF CheckTimingsClosed
  <2> QED
    BY <1>0, <1>6, <2>1, CheckTimingsKeeps, IInvFromParts DEF CheckTimingsClosed
<1>7. CASE CheckTimingsUp
  BY <1>0, <1>7, IInvFromParts DEF CheckTimingsUp
<1>8. CASE Poll
  <2>1. ch.pollIndex \in Transports /\ transport[ch.pollIndex] \in Seq(PDU)
    BY <1>0 DEF Channel
  <2>2. ChannelInv(ch')
    BY <1>0, <1>8, <2>1, PolledKeeps DEF Poll
  <2>3. transport[ch.pollIndex] # <<>> => Tail(transport[ch.pollIndex]) \in Seq(PDU)
    BY <2>1, HeadTailProperties
  <2>4. transport' \in [Transports -> Seq(PDU)]
    BY <1>0, <1>8, <2>3 DEF Poll, PollReads
  <2> QED
    BY <1>0, <1>8, <2>2, <2>4, IInvFromParts DEF Poll
<1>9. CASE PollEnd
  BY <1>0, <1>9, CheckTimingsKeeps, IInvFromParts DEF PollEnd
<1>10. CASE Tick
  BY <1>0, <1>10, AgeKeeps, IInvFromParts DEF Tick
<1> QED
  BY <1>1, <1>2, <1>3, <1>4, <1>5, <1>6, <1>7, <1>8, <1>9, <1>10

(* Every step keeps it.                                                    *)
LEMMA NextIInv == IInv /\ [Next]_vars => IInv'
<1> SUFFICES ASSUME IInv, [Next]_vars
             PROVE  IInv'
  OBVIOUS
<1>1. ASSUME NEW t \in Transports, NEW pdu \in Arrivals, Arrive(t, pdu)
      PROVE  IInv'
  BY <1>1, EndpointAssumption, ArriveIInv
<1>2. CASE UNCHANGED vars
  BY <1>2, IInvFromParts DEF vars, IInv, TypeOK
<1> QED
  BY <1>1, <1>2, CallsIInv DEF Next

(* It holds in every state of every behaviour.                             *)
THEOREM Invariance == Spec => []IInv
<1> QED
  BY InitIInv, NextIInv, PTL DEF Spec

(* Every variable keeps its type: in particular the received buffer, the   *)
(* defer queue and the sequence numbers stay within their C arrays and     *)
(* integers.                                                               *)
THEOREM TypeCorrect == Spec => []TypeOK
<1>1. IInv => TypeOK
  BY DEF IInv
<1> QED
  BY <1>1, Invariance, PTL

(* There is always room in the received buffer for the whole defer queue:  *)
(* RoomToReceive, asked before a message is processed, is enough for       *)
(* every later DeliverDeferQueue, which does not ask.                      *)
THEOREM RoomForDeferredAlways == Spec => []RoomForDeferred
<1>1. IInv => RoomForDeferred
  BY DEF IInv, ChannelInv, Sound, RoomForDeferred
<1> QED
  BY <1>1, Invariance, PTL

(* redrbf_AddToBuffer never ends in its fatal error.                       *)
THEOREM NeverOverflows == Spec => []NoBufferOverflow
<1>1. IInv => NoBufferOverflow
  BY DEF IInv, ChannelInv, Sound, NoBufferOverflow
<1> QED
  BY <1>1, Invariance, PTL

(* The defer queue lies strictly ahead of seq_rx and within the window,    *)
(* without duplicates, also across the wrap-around of sequence numbers.    *)
THEOREM DeferQueueAlwaysAhead == Spec => []DeferQueueAhead
<1>1. IInv => DeferQueueAhead
  BY DEF IInv, ChannelInv, QueueFrom, DeferQueueAhead
<1> QED
  BY <1>1, Invariance, PTL

-----------------------------------------------------------------------------
(* A channel and the peer it hears (RedLink).                              *)

(* Sequence numbers are those of the messages: seq_rx is that of the       *)
(* message after the last one handed over, and the defer queue holds some  *)
(* of the messages from there to the end of what was sent.                 *)
Numbered(c, last, end) ==
  /\ c.seqRx = (last + 1) % SeqMod
  /\ \A e \in c.deferQueue :
       e.seq = e.payload % SeqMod /\ e.payload \in last + 1 .. end - 1

(* A copy of one of the messages sent, not too old.                        *)
FromPeer(m, end) ==
  /\ m.payload \in 0 .. end - 1
  /\ m.seq = m.payload % SeqMod
  /\ end - 1 - m.payload <= Lifetime

(* How far the messages are counted.                                       *)
Ahead(last, end) ==
  /\ end \in 0 .. MaxSent
  /\ last \in -1 .. end - 1
  /\ end - last <= MaxAhead + 1

NumbersInv ==
  /\ Ahead(highest, sent)
  /\ Numbered(ch, highest, sent)
  /\ \A t \in Transports : \A i \in DOMAIN transport[t] :
       FromPeer(transport[t][i], sent)

(* The link is opened once: before that nothing was handed over.           *)
ClosedInv ==
  ch.state = "Closed" => highest = -1 /\ ch.rxBuffer = <<>> /\ ~ polling

(* A message without a notification is one that was notified while there   *)
(* was no room, and is flagged.                                            *)
FlagInv ==
  \A t \in Transports :
    Len(transport[t]) > notices[t] => ch.state = "Up" /\ ch.pending[t]

LinkInv == IInv /\ NumbersInv /\ ClosedInv /\ FlagInv

-----------------------------------------------------------------------------
(* Numbers and their remainders.                                           *)

(* A remainder is a sequence number.                                       *)
LEMMA RemainderRange == \A n \in Int : n % SeqMod \in SeqNums
BY HalfAssumption DEF SeqNums, SeqMod

(* Two messages less than SeqMod apart: the distance of their sequence     *)
(* numbers is that of the messages.                                        *)
LEMMA ModDistance ==
  ASSUME NEW a \in Int, NEW b \in Int, a - b < SeqMod, b - a < SeqMod
  PROVE  Minus(a % SeqMod, b % SeqMod) = IF a >= b THEN a - b ELSE a - b + SeqMod
<1>1. SeqMod \in Nat /\ SeqMod > 0
  BY HalfAssumption DEF SeqMod
<1> QED
  BY <1>1, RemainderDistance DEF Minus

(* Messages less than SeqMod apart differ in their sequence numbers.       *)
LEMMA ModInjective ==
  ASSUME NEW a \in Int, NEW b \in Int, a - b < SeqMod, b - a < SeqMod,
         a % SeqMod = b % SeqMod
  PROVE  a = b
<1>1. a % SeqMod \in SeqNums /\ SeqMod \in Nat
  BY RemainderRange, HalfAssumption DEF SeqMod
<1>2. Minus(a % SeqMod, b % SeqMod) = 0
  BY <1>1 DEF Minus, SeqNums
<1>3. (IF a >= b THEN a - b ELSE a - b + SeqMod) = 0
  BY <1>2, ModDistance, Zenon
<1> QED
  BY <1>1, <1>3

(* The sequence number n messages later.                                   *)
LEMMA ModPlus ==
  ASSUME NEW a \in Int, NEW n \in SeqNums
  PROVE  Plus(a % SeqMod, n) = (a + n) % SeqMod
<1>1. /\ SeqMod \in Nat /\ n \in Int /\ 0 <= n /\ n < SeqMod
      /\ a + n \in Int
  BY HalfAssumption DEF SeqNums, SeqMod
<1>2. a % SeqMod \in SeqNums /\ (a + n) % SeqMod \in SeqNums
  BY <1>1, RemainderRange
<1>3. Minus((a + n) % SeqMod, a % SeqMod) = n
  <2>1. (a + n) - a < SeqMod /\ a - (a + n) < SeqMod /\ a + n >= a /\ (a + n) - a = n
    BY <1>1
  <2> QED
    BY <2>1, <1>1, ModDistance
<1> QED
  BY <1>1, <1>2, <1>3, PlusMinus DEF SeqNums

-----------------------------------------------------------------------------
(* What the operations of the channel hand over.                           *)

(* The channel d comes from c and hands over the n messages after last.    *)
HandsOver(c, d, last, n, end) ==
  /\ d.rxBuffer = c.rxBuffer \o [i \in 1 .. n |-> last + i]
  /\ Numbered(d, last + n, end)

(* Nothing is handed over.                                                 *)
HandsNothingOver(c, d, last, end) ==
  d.rxBuffer = c.rxBuffer /\ Numbered(d, last, end)

(* The messages from first on, after some are given up.                    *)
Delivers(c, d, last, end) ==
  \/ HandsNothingOver(c, d, last, end)
  \/ \E first \in last + 1 .. end - 1 : \E n \in 1 .. end - first :
       HandsOver(c, d, first - 1, n, end)

(* DeliverDeferQueue delivers the messages that follow the last one.       *)
LEMMA RunIsNext ==
  ASSUME NEW c, Deliverable(c), NEW last \in Int, NEW end \in Int,
         -1 <= last, end - last <= MaxAhead + 1, Numbered(c, last, end)
  PROVE  /\ RunLength(c.deferQueue, c.seqRx) \in Nat
         /\ last + RunLength(c.deferQueue, c.seqRx) < end \/ RunLength(c.deferQueue, c.seqRx) = 0
         /\ HandsOver(c, DeliverDeferQueue(c), last, RunLength(c.deferQueue, c.seqRx), end)
<1> DEFINE q == c.deferQueue
           n == RunLength(q, c.seqRx)
           run == Run(q, c.seqRx)
           d == DeliverDeferQueue(c)
<1>1. /\ c \in Channel /\ q \in SUBSET DeferEntry /\ IsFiniteSet(q)
      /\ c.seqRx \in SeqNums /\ QueueFrom(q, c.seqRx, 0)
      /\ \A e \in q : e.seq = e.payload % SeqMod /\ e.payload \in last + 1 .. end - 1
      /\ c.seqRx = (last + 1) % SeqMod
      /\ SeqMod \in Nat /\ MaxAhead \in Nat /\ MaxAhead <= SeqMod
  BY LinkAssumption, HalfAssumption DEF Deliverable, Sound, Channel, Numbered, SeqMod
<1>2. /\ n \in 0 .. Window + 1
      /\ ~ Contains(q, Plus(c.seqRx, n))
      /\ \A i \in 0 .. n - 1 : Contains(q, Plus(c.seqRx, i))
      /\ QueueFrom(q \ Range(run), Plus(c.seqRx, n), 1)
      /\ Window + 1 < SeqMod /\ Window \in Nat
  BY <1>1, RunLengthFound, RunDelivered, WindowBound DEF SeqMod
<1>3. run = [i \in 1 .. n |-> Entry(q, Plus(c.seqRx, i - 1))]
  BY DEF Run
<1>4. n \in Nat /\ n \in SeqNums
  BY <1>1, <1>2 DEF SeqNums
<1> HIDE DEF n, run
<1>5. ASSUME NEW i \in 1 .. n
      PROVE  run[i] \in q /\ run[i].payload = last + i
  <2>1. i - 1 \in 0 .. n - 1 /\ i - 1 \in SeqNums /\ last + 1 + (i - 1) = last + i
        /\ last + i \in Int /\ i \in Nat /\ 1 <= i
    BY <1>1, <1>2, <1>4 DEF SeqNums
  <2>2. run[i] \in q /\ run[i].seq = Plus(c.seqRx, i - 1)
    BY <1>2, <1>3, <2>1, EntryFound
  <2>3. Plus(c.seqRx, i - 1) = (last + i) % SeqMod
    <3>1. last + 1 \in Int
      OBVIOUS
    <3>2. Plus((last + 1) % SeqMod, i - 1) = (last + 1 + (i - 1)) % SeqMod
      BY <2>1, <3>1, ModPlus
    <3> QED
      BY <1>1, <2>1, <3>2
  <2> DEFINE p == run[i].payload
  <2>4. p % SeqMod = (last + i) % SeqMod /\ p \in last + 1 .. end - 1
    BY <1>1, <2>2, <2>3
  <2>5. p \in Int /\ p - (last + i) < SeqMod /\ (last + i) - p < SeqMod
    <3>1. i <= SeqMod
      BY <1>1, <1>2, <2>1
    <3> QED
      BY <1>1, <2>1, <2>4, <3>1
  <2> HIDE DEF p
  <2>6. p = last + i
    BY <2>1, <2>4, <2>5, ModInjective
  <2> QED
    BY <2>2, <2>6 DEF p
<1>6. last + n < end \/ n = 0
  <2> SUFFICES ASSUME n # 0
               PROVE  last + n < end
    OBVIOUS
  <2>1. n \in 1 .. n
    BY <1>4
  <2>2. last + n \in last + 1 .. end - 1
    BY <1>1, <1>5, <2>1
  <2> QED
    BY <1>4, <2>2
<1>7. Delivered(c) = [i \in 1 .. n |-> last + i]
  BY <1>5 DEF Delivered, n, run
<1>8. d = [c EXCEPT !.rxBuffer = c.rxBuffer \o Delivered(c), !.deferQueue = q \ Range(run),
                    !.seqRx = Plus(c.seqRx, n)]
  BY DeliverDeferQueueEffect DEF n, run
<1> HIDE DEF d
<1>9. /\ d.rxBuffer = c.rxBuffer \o [i \in 1 .. n |-> last + i]
      /\ d.deferQueue = q \ Range(run)
      /\ d.seqRx = Plus(c.seqRx, n)
  BY <1>1, <1>7, <1>8 DEF Channel
<1>10. d.seqRx = (last + n + 1) % SeqMod
  <2>1. last + 1 + n = last + n + 1 /\ last + 1 \in Int
    BY <1>4
  <2> QED
    BY <1>1, <1>4, <1>9, <2>1, ModPlus
<1>11. ASSUME NEW e \in d.deferQueue
       PROVE  e.payload \in last + n + 1 .. end - 1
  <2>1. /\ e \in q /\ e \notin Range(run) /\ e.payload \in last + 1 .. end - 1
        /\ e.seq = e.payload % SeqMod
    BY <1>1, <1>9
  <2> SUFFICES ASSUME e.payload <= last + n
               PROVE  FALSE
    BY <2>1, <1>4
  <2> DEFINE i == e.payload - last
  <2>2. i \in 1 .. n
    BY <2>1, <1>4
  <2>3. run[i] \in q /\ run[i].payload = e.payload
    BY <1>5, <2>1, <2>2
  <2>4. run[i].seq = e.seq
    BY <1>1, <2>1, <2>3
  <2>5. run[i] = e
    BY <1>1, <2>1, <2>3, <2>4 DEF QueueFrom
  <2>6. run[i] \in Range(run)
    BY <1>3, <2>2 DEF Range
  <2> QED
    BY <2>1, <2>5, <2>6
<1>12. Numbered(d, last + n, end)
  BY <1>1, <1>9, <1>10, <1>11 DEF Numbered
<1> QED
  BY <1>4, <1>6, <1>9, <1>12 DEF HandsOver, d, n

(* Where the messages of the defer queue lie, seen from seq_rx.            *)
LEMMA DeferredDistance ==
  ASSUME NEW c, NEW last, NEW end, Ahead(last, end), Numbered(c, last, end),
         NEW e \in c.deferQueue
  PROVE  /\ e.payload \in last + 1 .. end - 1
         /\ Minus(e.seq, c.seqRx) = e.payload - (last + 1)
<1>1. /\ SeqMod \in Nat /\ MaxAhead \in Nat /\ MaxAhead <= SeqMod /\ SeqMod > 0
      /\ last \in Int /\ end \in Int /\ end - last <= MaxAhead + 1 /\ last + 1 \in Int
  BY LinkAssumption, HalfAssumption DEF Ahead, SeqMod
<1>2. /\ e.payload \in last + 1 .. end - 1 /\ e.seq = e.payload % SeqMod
      /\ c.seqRx = (last + 1) % SeqMod
  BY DEF Numbered
<1>3. /\ e.payload \in Int /\ e.payload >= last + 1
      /\ e.payload - (last + 1) < SeqMod /\ (last + 1) - e.payload < SeqMod
  BY <1>1, <1>2
<1>4. Minus(e.payload % SeqMod, (last + 1) % SeqMod) = e.payload - (last + 1)
  BY <1>1, <1>3, ModDistance
<1> QED
  BY <1>2, <1>4

(* redcor_DeferQueueTimeout gives up the messages before the oldest one    *)
(* that is there, and hands that one over with those that follow it.       *)
LEMMA TimeoutDelivers ==
  ASSUME NEW c, ChannelInv(c), c.deferQueue # {}, NEW last, NEW end,
         Ahead(last, end), Numbered(c, last, end)
  PROVE  Delivers(c, DeferQueueTimeout(c), last, end)
<1> DEFINE b == [c EXCEPT !.seqRx = OldestSequenceNumber(c.deferQueue)]
           n == RunLength(b.deferQueue, b.seqRx)
<1>1. PICK old \in c.deferQueue :
        /\ OldestSequenceNumber(c.deferQueue) = old.seq
        /\ \A e \in c.deferQueue : Minus(old.seq, c.seqRx) <= Minus(e.seq, c.seqRx)
  BY OldestFound
<1> DEFINE first == old.payload
<1>2. /\ SeqMod \in Nat /\ MaxAhead \in Nat
      /\ last \in Int /\ end \in Int /\ -1 <= last /\ end - last <= MaxAhead + 1
      /\ first \in last + 1 .. end - 1 /\ old.seq = first % SeqMod
  BY LinkAssumption, HalfAssumption DEF Ahead, SeqMod, Numbered
<1>3. /\ c \in Channel /\ old.seq \in SeqNums
  BY DEF ChannelInv, Sound, Channel, DeferEntry
<1>4. b = [c EXCEPT !.seqRx = old.seq] /\ Deliverable(b)
  BY <1>1, DeliverableFromOldest
<1>5. b.deferQueue = c.deferQueue /\ b.seqRx = old.seq /\ b.rxBuffer = c.rxBuffer
  BY <1>3, <1>4 DEF Channel
<1> HIDE DEF b
<1>6. ASSUME NEW e \in c.deferQueue
      PROVE  e.payload \in first .. end - 1 /\ e.seq = e.payload % SeqMod
  <2>1. /\ e.payload \in last + 1 .. end - 1
        /\ Minus(e.seq, c.seqRx) = e.payload - (last + 1)
        /\ Minus(old.seq, c.seqRx) = first - (last + 1)
        /\ e.seq = e.payload % SeqMod
    BY DeferredDistance DEF Numbered
  <2>2. Minus(old.seq, c.seqRx) <= Minus(e.seq, c.seqRx)
    BY <1>1
  <2> HIDE DEF first
  <2>3. first - (last + 1) <= e.payload - (last + 1)
    BY <2>1, <2>2
  <2>4. e.payload \in first .. end - 1
    BY <1>2, <2>1, <2>3
  <2> QED
    BY <2>1, <2>4
<1>7. Numbered(b, first - 1, end)
  <2>1. first - 1 + 1 = first
    BY <1>2
  <2> QED
    BY <1>2, <1>5, <1>6, <2>1 DEF Numbered
<1>8. first - 1 \in Int /\ -1 <= first - 1 /\ end - (first - 1) <= MaxAhead + 1
  BY <1>2
<1> HIDE DEF first
<1>9. /\ n \in Nat
      /\ first - 1 + n < end \/ n = 0
      /\ HandsOver(b, DeliverDeferQueue(b), first - 1, n, end)
  BY <1>2, <1>4, <1>7, <1>8, RunIsNext
<1>10. n # 0
  <2> SUFFICES ASSUME n = 0
               PROVE  FALSE
    OBVIOUS
  <2>1. ~ Contains(b.deferQueue, Plus(b.seqRx, 0))
    <3>1. /\ b.deferQueue \in SUBSET DeferEntry /\ IsFiniteSet(b.deferQueue)
          /\ b.seqRx \in SeqNums /\ QueueFrom(b.deferQueue, b.seqRx, 0)
      BY <1>4 DEF Deliverable, Sound, Channel
    <3>2. ~ Contains(b.deferQueue, Plus(b.seqRx, n))
      BY <3>1, RunLengthFound
    <3> QED
      BY <3>2
  <2>2. Plus(b.seqRx, 0) = old.seq
    BY <1>3, <1>5, HalfAssumption DEF Plus, SeqNums, SeqMod
  <2> QED
    BY <1>5, <2>1, <2>2 DEF Contains
<1>11. n \in 1 .. end - first
  BY <1>2, <1>9, <1>10
<1>12. DeferQueueTimeout(c) = DeliverDeferQueue(b)
  BY DEF DeferQueueTimeout, b
<1>13. HandsOver(c, DeferQueueTimeout(c), first - 1, n, end)
  BY <1>5, <1>9, <1>12 DEF HandsOver
<1> QED
  BY <1>2, <1>11, <1>13 DEF Delivers

(* Appending sequences of messages one after the other.                    *)
LEMMA ConcatNumbers ==
  \A r \in Seq(Int) : \A s \in Seq(Int) : \A t \in Seq(Int) :
    (r \o s) \o t = r \o (s \o t)
OBVIOUS

(* The message after the last one handed over is handed over, with those   *)
(* of the defer queue that follow it.                                      *)
LEMMA InSequenceDelivers ==
  ASSUME NEW c, ChannelInv(c), RoomToReceive(c), NEW last, NEW end,
         Ahead(last, end), Numbered(c, last, end),
         NEW pdu \in PDU, pdu.payload = last + 1, last + 1 < end
  PROVE  Delivers(c, DeliverInSequence(c, pdu), last, end)
<1> DEFINE b == [AddToBuffer(c, <<pdu.payload>>) EXCEPT !.seqRx = Plus(@, 1)]
           n == RunLength(b.deferQueue, b.seqRx)
           d == DeliverDeferQueue(b)
<1>1. /\ SeqMod \in Nat /\ 1 \in SeqNums /\ 0 \in SeqNums /\ MaxAhead \in Nat
      /\ last \in Int /\ end \in Int /\ -1 <= last /\ end - last <= MaxAhead + 1
      /\ end \in Nat /\ last + 1 \in Int
  BY LinkAssumption, HalfAssumption DEF Ahead, SeqMod, SeqNums
<1>2. /\ c \in Channel /\ c.rxBuffer \in Seq(Payloads) /\ Len(c.rxBuffer) \in Nat
      /\ last + 1 \in Payloads
  BY LenProperties DEF ChannelInv, Sound, Channel, PDU
<1>3. /\ Deliverable(b)
      /\ b = [c EXCEPT !.rxBuffer = c.rxBuffer \o <<last + 1>>, !.seqRx = Plus(c.seqRx, 1)]
  BY DeliverableInSequence
<1>4. /\ b.deferQueue = c.deferQueue /\ b.seqRx = Plus(c.seqRx, 1)
      /\ b.rxBuffer = c.rxBuffer \o <<last + 1>>
  BY <1>2, <1>3 DEF Channel
<1>5. DeliverInSequence(c, pdu) = d
  BY DEF DeliverInSequence
<1> HIDE DEF b
<1>6. ASSUME NEW e \in c.deferQueue
      PROVE  e.payload \in last + 2 .. end - 1 /\ e.seq = e.payload % SeqMod
  <2>1. /\ e.payload \in last + 1 .. end - 1
        /\ Minus(e.seq, c.seqRx) = e.payload - (last + 1)
        /\ e.seq = e.payload % SeqMod
    BY DeferredDistance DEF Numbered
  <2>2. Minus(e.seq, c.seqRx) \in 1 .. Window /\ Window \in Nat
    BY WindowBound DEF ChannelInv, QueueFrom
  <2>3. e.payload \in last + 2 .. end - 1
    BY <1>1, <2>1, <2>2
  <2> QED
    BY <2>1, <2>3
<1>7. Numbered(b, last + 1, end)
  <2>1. Plus(c.seqRx, 1) = (last + 1 + 1) % SeqMod
    <3>1. c.seqRx = (last + 1) % SeqMod
      BY DEF Numbered
    <3> QED
      BY <1>1, <3>1, ModPlus
  <2>2. last + 1 + 1 = last + 2
    BY <1>1
  <2> QED
    BY <1>4, <1>6, <2>1, <2>2 DEF Numbered
<1>8. /\ n \in Nat
      /\ last + 1 + n < end \/ n = 0
      /\ HandsOver(b, d, last + 1, n, end)
  <2>1. -1 <= last + 1 /\ end - (last + 1) <= MaxAhead + 1
    BY <1>1
  <2> QED
    BY <1>1, <1>3, <1>7, <2>1, RunIsNext
<1> HIDE DEF n, d
<1>9. d.rxBuffer = c.rxBuffer \o [i \in 1 .. n + 1 |-> last + i]
  <2> DEFINE tail == [i \in 1 .. n |-> last + 1 + i]
             all == [i \in 1 .. n + 1 |-> last + i]
  <2>1. d.rxBuffer = (c.rxBuffer \o <<last + 1>>) \o tail
    BY <1>4, <1>8 DEF HandsOver
  <2>2. tail \in Seq(Int) /\ Len(tail) = n /\ all \in Seq(Int) /\ Len(all) = n + 1
    BY <1>1, <1>8
  <2>3. <<last + 1>> \in Seq(Int) /\ Len(<<last + 1>>) = 1 /\ <<last + 1>>[1] = last + 1
    BY <1>1
  <2>4. /\ <<last + 1>> \o tail \in Seq(Int)
        /\ Len(<<last + 1>> \o tail) = n + 1
        /\ \A i \in 1 .. n + 1 : (<<last + 1>> \o tail)[i] =
              IF i <= 1 THEN <<last + 1>>[i] ELSE tail[i - 1]
    <3> HIDE DEF tail
    <3>1. 1 + n = n + 1
      BY <1>8
    <3> QED
      BY <2>2, <2>3, <3>1, ConcatProperties
  <2>5. <<last + 1>> \o tail = all
    <3>1. ASSUME NEW i \in 1 .. n + 1
          PROVE  (<<last + 1>> \o tail)[i] = all[i]
      <4>1. CASE i = 1
        BY <4>1, <2>3, <2>4
      <4>2. CASE i # 1
        <5>1. i - 1 \in 1 .. n /\ ~ (i <= 1) /\ last + 1 + (i - 1) = last + i
          BY <1>1, <1>8, <4>2
        <5> QED
          BY <2>4, <5>1
      <4> QED
        BY <4>1, <4>2
    <3> HIDE DEF tail, all
    <3> QED
      BY <2>2, <2>4, <3>1, SeqEqual
  <2>6. c.rxBuffer \in Seq(Int)
    BY <1>2, LinkAssumption, SeqMonotonic
  <2>7. (c.rxBuffer \o <<last + 1>>) \o tail = c.rxBuffer \o (<<last + 1>> \o tail)
    <3> DEFINE one == <<last + 1>>
    <3>1. one \in Seq(Int)
      BY <2>3
    <3> HIDE DEF tail, one
    <3>2. tail \in Seq(Int)
      BY <2>2
    <3>3. (c.rxBuffer \o one) \o tail = c.rxBuffer \o (one \o tail)
      BY <2>6, <3>1, <3>2, ConcatNumbers, Zenon
    <3> QED
      BY <3>3 DEF one
  <2> QED
    BY <2>1, <2>5, <2>7
<1>10. Numbered(d, last + (n + 1), end)
  <2>1. last + 1 + n = last + (n + 1)
    BY <1>1, <1>8
  <2> QED
    BY <1>8, <2>1 DEF HandsOver
<1> DEFINE first == last + 1
           m == n + 1
<1>11. first \in last + 1 .. end - 1 /\ m \in 1 .. end - first /\ first - 1 = last
  BY <1>1, <1>8
<1>12. HandsOver(c, d, last, m, end)
  BY <1>9, <1>10 DEF HandsOver
<1> HIDE DEF first, m
<1>13. HandsOver(c, d, first - 1, m, end)
  BY <1>11, <1>12, Zenon
<1> QED
  BY <1>5, <1>11, <1>13, Zenon DEF Delivers

(* Where a copy that is not too old lies, seen from seq_rx: those of the   *)
(* messages handed over already seem so far ahead that they are outside    *)
(* the window.                                                             *)
LEMMA CopyDistance ==
  ASSUME NEW last, NEW end, Ahead(last, end), NEW n \in 0 .. end - 1,
         end - 1 - n <= Lifetime
  PROVE  /\ n - (last + 1) < SeqMod /\ (last + 1) - n < SeqMod
         /\ Minus(n % SeqMod, (last + 1) % SeqMod) \in 0 .. Window => n >= last + 1
<1>1. /\ SeqMod \in Nat /\ MaxAhead \in Nat /\ MaxAhead <= SeqMod
      /\ Lifetime \in Nat /\ Window \in Nat /\ Lifetime + Window + 1 < SeqMod
      /\ last \in Int /\ end \in Int /\ -1 <= last /\ last <= end - 1
      /\ end - last <= MaxAhead + 1
      /\ n \in Int /\ last + 1 \in Int
  BY LinkAssumption, HalfAssumption, WindowBound DEF Ahead, SeqMod
<1>2. n - (last + 1) < SeqMod /\ (last + 1) - n < SeqMod
  BY <1>1
<1>3. Minus(n % SeqMod, (last + 1) % SeqMod)
        = IF n >= last + 1 THEN n - (last + 1) ELSE n - (last + 1) + SeqMod
  BY <1>1, <1>2, ModDistance
<1>4. ASSUME n < last + 1
      PROVE  n - (last + 1) + SeqMod > Window
  BY <1>1, <1>4
<1> QED
  BY <1>1, <1>2, <1>3, <1>4

(* A message that is read is handed over, deferred or ignored.             *)
LEMMA ReceiveDelivers ==
  ASSUME NEW c, ChannelInv(c), RoomToReceive(c), NEW last, NEW end,
         Ahead(last, end), Numbered(c, last, end),
         NEW pdu \in PDU, FromPeer(pdu, end)
  PROVE  Delivers(c, ReceiveData(c, pdu), last, end)
<1> DEFINE deferred == [c EXCEPT !.deferQueue = AddMessage(c.deferQueue, pdu)]
           d == ReceiveData(c, pdu)
<1>1. /\ c \in Channel /\ c.seqRx \in SeqNums /\ pdu.seq \in SeqNums
      /\ last \in Int /\ end \in Int /\ pdu.payload \in Int
  BY DEF ChannelInv, Sound, Channel, PDU, Ahead, FromPeer
<1>2. /\ c.seqRx = (last + 1) % SeqMod
      /\ pdu.payload \in 0 .. end - 1 /\ pdu.seq = pdu.payload % SeqMod
      /\ end - 1 - pdu.payload <= Lifetime
  BY DEF Numbered, FromPeer
<1>3. /\ pdu.payload - (last + 1) < SeqMod /\ (last + 1) - pdu.payload < SeqMod
      /\ Minus(pdu.seq, c.seqRx) \in 0 .. Window => pdu.payload >= last + 1
  BY <1>2, CopyDistance
<1>4. \/ d = c
      \/ pdu.seq = c.seqRx /\ d = DeliverInSequence(c, pdu)
      \/ /\ d = deferred
         /\ ~ IsSequenceNumberOlder(pdu.seq, c.seqRx)
         /\ pdu.seq # c.seqRx
         /\ InWindow(c, pdu)
  BY DEF ReceiveData, ProcessReceivedMessage
<1> HIDE DEF d
<1>5. CASE d = c
  BY <1>5 DEF Delivers, HandsNothingOver, d
<1>6. CASE pdu.seq = c.seqRx /\ d = DeliverInSequence(c, pdu)
  <2>1. last + 1 \in Int
    BY <1>1
  <2>2. pdu.payload = last + 1
    BY <1>1, <1>2, <1>3, <1>6, <2>1, ModInjective
  <2>3. last + 1 < end
    BY <1>1, <1>2, <2>2
  <2> QED
    BY <1>6, <2>2, <2>3, InSequenceDelivers DEF d
<1>7. CASE /\ d = deferred
           /\ ~ IsSequenceNumberOlder(pdu.seq, c.seqRx)
           /\ pdu.seq # c.seqRx
           /\ InWindow(c, pdu)
  <2>1. Minus(pdu.seq, c.seqRx) \in 1 .. Window
    BY <1>1, <1>7, WindowTest DEF InWindow
  <2>2. pdu.payload \in last + 1 .. end - 1
    BY <1>1, <1>2, <1>3, <2>1, WindowBound
  <2>3. /\ d.deferQueue = AddMessage(c.deferQueue, pdu)
        /\ d.rxBuffer = c.rxBuffer /\ d.seqRx = c.seqRx
    BY <1>1, <1>7 DEF Channel
  <2>4. \A e \in d.deferQueue :
          e.seq = e.payload % SeqMod /\ e.payload \in last + 1 .. end - 1
    <3> TAKE e \in d.deferQueue
    <3>1. e \in c.deferQueue \/ (e.seq = pdu.seq /\ e.payload = pdu.payload)
      BY <2>3 DEF AddMessage
    <3> QED
      BY <1>2, <2>2, <3>1 DEF Numbered
  <2> QED
    BY <1>2, <2>3, <2>4 DEF Delivers, HandsNothingOver, Numbered, d
<1> QED
  BY <1>4, <1>5, <1>6, <1>7

(* Only the received buffer, the defer queue and seq_rx matter.            *)
LEMMA SameDelivery ==
  ASSUME NEW c, NEW d, NEW e, NEW last, NEW end, Delivers(c, d, last, end),
         e.rxBuffer = d.rxBuffer, e.deferQueue = d.deferQueue, e.seqRx = d.seqRx
  PROVE  Delivers(c, e, last, end)
BY DEF Delivers, HandsNothingOver, HandsOver, Numbered

(* Receiving a message changes neither the state nor the flags.            *)
LEMMA ReceiveKeepsFlags ==
  ASSUME NEW c \in Channel, NEW pdu
  PROVE  /\ ReceiveData(c, pdu).state = c.state
         /\ ReceiveData(c, pdu).pending = c.pending
BY DEF ReceiveData, ProcessReceivedMessage, DeliverInSequence, DeliverDeferQueue,
       AddToBuffer, Channel

(* A notification sets the flag when the message cannot be read for want   *)
(* of room, and clears it when there is none to be read.                   *)
LEMMA NotifiedFlags ==
  ASSUME NEW c \in Channel, NEW t \in Transports, NEW queue
  PROVE  /\ NotifiedChannel(c, t, queue).state = c.state
         /\ \A u \in Transports :
              \/ NotifiedChannel(c, t, queue).pending[u] = c.pending[u]
              \/ u = t /\ queue = <<>>
              \/ u = t /\ c.state = "Up" /\ NotifiedChannel(c, t, queue).pending[u]
         /\ ~ NotificationReads(c, queue) /\ queue # <<>> =>
              c.state = "Up" /\ NotifiedChannel(c, t, queue).pending[t]
<1> DEFINE d == NotifiedChannel(c, t, queue)
<1>1. CASE c.state = "Up" /\ RoomToReceive(c) /\ queue # <<>>
  <2>1. d = ReceiveData(c, Head(queue))
    BY <1>1 DEF NotifiedChannel
  <2>2. NotificationReads(c, queue)
    BY <1>1 DEF NotificationReads
  <2> QED
    BY <2>1, <2>2, ReceiveKeepsFlags
<1>2. CASE c.state = "Up" /\ ~ RoomToReceive(c)
  <2>1. d = [c EXCEPT !.pending[t] = TRUE]
    BY <1>2 DEF NotifiedChannel
  <2>2. d.state = c.state /\ d.pending = [c.pending EXCEPT ![t] = TRUE]
    BY <2>1 DEF Channel
  <2> HIDE DEF d
  <2>3. d.pending[t] /\ \A u \in Transports : u # t => d.pending[u] = c.pending[u]
    BY <2>2 DEF Channel
  <2> QED
    BY <1>2, <2>2, <2>3 DEF d
<1>3. CASE c.state = "Closed" /\ queue # <<>>
  BY <1>3 DEF NotifiedChannel, NotificationReads
<1>4. CASE queue = <<>> /\ ~ (c.state = "Up" /\ ~ RoomToReceive(c))
  <2>1. d = [c EXCEPT !.pending[t] = FALSE]
    BY <1>4 DEF NotifiedChannel
  <2>2. d.state = c.state /\ d.pending = [c.pending EXCEPT ![t] = FALSE]
    BY <2>1 DEF Channel
  <2> HIDE DEF d
  <2>3. \A u \in Transports : u # t => d.pending[u] = c.pending[u]
    BY <2>2 DEF Channel
  <2> QED
    BY <1>4, <2>2, <2>3 DEF d, NotificationReads
<1> QED
  BY <1>1, <1>2, <1>3, <1>4 DEF Channel

(* The polling loop clears the flag of an empty transport channel only.    *)
LEMMA PolledFlags ==
  ASSUME NEW c \in Channel, NEW queue
  PROVE  /\ PolledChannel(c, queue).state = c.state
         /\ \A u \in Transports :
              \/ PolledChannel(c, queue).pending[u] = c.pending[u]
              \/ u = c.pollIndex /\ queue = <<>>
<1> DEFINE t == c.pollIndex
           next == IF t + 1 = NumTransports THEN 0 ELSE t + 1
           cleared == [c EXCEPT !.pending[t] = FALSE]
           read == ReceiveData(c, Head(queue))
           d == PolledChannel(c, queue)
<1> USE DEF PolledChannel
<1>1. CASE ~ c.pending[t]
  BY <1>1 DEF Channel
<1>2. CASE c.pending[t] /\ queue = <<>>
  <2>1. d = [cleared EXCEPT !.pollIndex = next]
    BY <1>2
  <2>2. d.state = c.state /\ d.pending = [c.pending EXCEPT ![t] = FALSE]
    BY <2>1 DEF Channel
  <2> HIDE DEF d
  <2>3. \A u \in Transports : u # t => d.pending[u] = c.pending[u]
    BY <2>2 DEF Channel
  <2> QED
    BY <1>2, <2>2, <2>3 DEF d
<1>3. CASE c.pending[t] /\ queue # <<>>
  <2>1. d = [read EXCEPT !.pollIndex = next]
    BY <1>3
  <2> HIDE DEF d, read
  <2>2. d.state = read.state /\ d.pending = read.pending
    BY <2>1
  <2> QED
    BY <2>2, ReceiveKeepsFlags DEF d, read
<1> QED
  BY <1>1, <1>2, <1>3

(* Neither does the timeout of the defer queue.                            *)
LEMMA TimeoutKeepsFlags ==
  ASSUME NEW c \in Channel
  PROVE  /\ CheckDeferTimeout(c).state = c.state
         /\ CheckDeferTimeout(c).pending = c.pending
BY DEF CheckDeferTimeout, DeferQueueTimeout, DeliverDeferQueue, AddToBuffer, Channel

(* redtrn_MessageReceivedNotification                                      *)
LEMMA NotifiedDelivers ==
  ASSUME NEW c, ChannelInv(c), NEW last, NEW end,
         Ahead(last, end), Numbered(c, last, end),
         NEW t \in Transports, NEW queue \in Seq(PDU),
         \A i \in DOMAIN queue : FromPeer(queue[i], end)
  PROVE  Delivers(c, NotifiedChannel(c, t, queue), last, end)
<1> DEFINE d == NotifiedChannel(c, t, queue)
<1>1. c \in Channel
  BY DEF ChannelInv, Sound
<1>2. CASE RoomToReceive(c) /\ queue # <<>> /\ d = ReceiveData(c, Head(queue))
  <2>1. Head(queue) \in PDU /\ FromPeer(Head(queue), end)
    <3>1. 1 \in DOMAIN queue /\ Head(queue) = queue[1]
      BY <1>2
    <3> QED
      BY <3>1
  <2> QED
    BY <1>2, <2>1, ReceiveDelivers
<1>3. CASE d = c
  BY <1>3 DEF Delivers, HandsNothingOver
<1>4. ASSUME NEW v, d = [c EXCEPT !.pending[t] = v]
      PROVE  Delivers(c, d, last, end)
  <2>1. d.rxBuffer = c.rxBuffer /\ d.deferQueue = c.deferQueue /\ d.seqRx = c.seqRx
    BY <1>1, <1>4 DEF Channel
  <2> HIDE DEF d
  <2> QED
    BY <2>1 DEF Delivers, HandsNothingOver, Numbered
<1> QED
  BY <1>2, <1>3, <1>4 DEF NotifiedChannel

(* One iteration of the polling loop.                                      *)
LEMMA PolledDelivers ==
  ASSUME NEW c, ChannelInv(c), PollingGoesOn(c), NEW last, NEW end,
         Ahead(last, end), Numbered(c, last, end), NEW queue \in Seq(PDU),
         \A i \in DOMAIN queue : FromPeer(queue[i], end)
  PROVE  Delivers(c, PolledChannel(c, queue), last, end)
<1> DEFINE t == c.pollIndex
           next == IF t + 1 = NumTransports THEN 0 ELSE t + 1
           received == CASE ~ c.pending[t] -> c
                         [] c.pending[t] /\ queue = <<>> -> [c EXCEPT !.pending[t] = FALSE]
                         [] OTHER -> ReceiveData(c, Head(queue))
           cleared == [c EXCEPT !.pending[t] = FALSE]
           d == PolledChannel(c, queue)
<1>1. c \in Channel
  BY DEF ChannelInv, Sound
<1>2. d = [received EXCEPT !.pollIndex = next]
  BY DEF PolledChannel
<1>3. Delivers(c, received, last, end) /\ received \in Channel
  <2>1. CASE received = c
    BY <1>1, <2>1 DEF Delivers, HandsNothingOver
  <2>2. CASE received = cleared
    <3>1. /\ cleared.rxBuffer = c.rxBuffer /\ cleared.deferQueue = c.deferQueue
          /\ cleared.seqRx = c.seqRx /\ cleared \in Channel
      BY <1>1 DEF Channel
    <3> HIDE DEF cleared, received
    <3>2. Delivers(c, cleared, last, end)
      BY <3>1 DEF Delivers, HandsNothingOver, Numbered
    <3> QED
      BY <2>2, <3>1, <3>2
  <2>3. CASE queue # <<>> /\ received = ReceiveData(c, Head(queue))
    <3>1. 1 \in DOMAIN queue /\ Head(queue) = queue[1] /\ Head(queue) \in PDU
      BY <2>3
    <3>2. FromPeer(Head(queue), end)
      BY <3>1
    <3>3. ChannelInv(received)
      BY <2>3, <3>1, ReceiveDataKeeps DEF PollingGoesOn
    <3> QED
      BY <2>3, <3>1, <3>2, <3>3, ReceiveDelivers DEF PollingGoesOn, ChannelInv, Sound
  <2> QED
    BY <2>1, <2>2, <2>3
<1> HIDE DEF received, d
<1>4. d.rxBuffer = received.rxBuffer /\ d.deferQueue = received.deferQueue
      /\ d.seqRx = received.seqRx
  BY <1>2, <1>3 DEF Channel
<1> QED
  BY <1>3, <1>4, SameDelivery DEF d

(* The timeout of the defer queue at the end of redint_CheckTimings.       *)
LEMMA CheckTimeoutDelivers ==
  ASSUME NEW c, ChannelInv(c), NEW last, NEW end,
         Ahead(last, end), Numbered(c, last, end)
  PROVE  Delivers(c, CheckDeferTimeout(c), last, end)
<1>1. CASE CheckDeferTimeout(c) = c
  BY <1>1 DEF Delivers, HandsNothingOver
<1>2. CASE c.deferQueue # {} /\ CheckDeferTimeout(c) = DeferQueueTimeout(c)
  BY <1>2, TimeoutDelivers
<1> QED
  BY <1>1, <1>2 DEF CheckDeferTimeout, IsTimeout

(* The other operations hand nothing over.                                 *)
LEMMA OthersDeliverNothing ==
  ASSUME NEW c, ChannelInv(c), NEW last, NEW end, Numbered(c, last, end)
  PROVE  /\ Delivers(c, SendMessage(c), last, end)
         /\ Delivers(c, DiscardMessages(c), last, end)
         /\ Delivers(c, AgeDeferQueue(c), last, end)
<1> DEFINE a == SendMessage(c)
           b == DiscardMessages(c)
           d == AgeDeferQueue(c)
<1>1. c \in Channel
  BY DEF ChannelInv, Sound
<1>2. /\ a.rxBuffer = c.rxBuffer /\ a.deferQueue = c.deferQueue /\ a.seqRx = c.seqRx
      /\ b.rxBuffer = c.rxBuffer /\ b.deferQueue = c.deferQueue /\ b.seqRx = c.seqRx
      /\ d.rxBuffer = c.rxBuffer /\ d.seqRx = c.seqRx
  BY <1>1 DEF Channel, SendMessage, DiscardMessages, AgeDeferQueue
<1>3. ASSUME NEW e \in d.deferQueue
      PROVE  \E f \in c.deferQueue : e.seq = f.seq /\ e.payload = f.payload
  <2>1. PICK f \in c.deferQueue : e = [f EXCEPT !.age = IF @ > TSeq THEN @ ELSE @ + 1]
    BY <1>1 DEF AgeDeferQueue, Channel
  <2>2. f \in DeferEntry
    BY <1>1 DEF Channel
  <2> QED
    BY <2>1, <2>2 DEF DeferEntry
<1> HIDE DEF a, b, d
<1>4. Numbered(d, last, end)
  BY <1>2, <1>3 DEF Numbered
<1> QED
  BY <1>2, <1>4 DEF Delivers, HandsNothingOver, Numbered, a, b, d

-----------------------------------------------------------------------------
(* The invariant.                                                          *)

(* What the history variable highest notes after a step.                   *)
Noted(c, d, last) ==
  IF Len(d.rxBuffer) > Len(c.rxBuffer) THEN d.rxBuffer[Len(d.rxBuffer)] ELSE last

(* It is the last message handed over, if any was.                         *)
LEMMA NotedIsLast ==
  ASSUME NEW c, c.rxBuffer \in Seq(Int), NEW d, NEW last \in Int, NEW end \in Int,
         Delivers(c, d, last, end)
  PROVE  /\ Numbered(d, Noted(c, d, last), end)
         /\ \/ d.rxBuffer = c.rxBuffer /\ Noted(c, d, last) = last
            \/ \E first \in last + 1 .. end - 1 : \E new \in first .. end - 1 :
                 /\ d.rxBuffer = c.rxBuffer \o [i \in 1 .. new - first + 1 |-> first + i - 1]
                 /\ Noted(c, d, last) = new
<1>1. CASE HandsNothingOver(c, d, last, end)
  BY <1>1 DEF HandsNothingOver, Noted
<1>2. ASSUME NEW first \in last + 1 .. end - 1, NEW n \in 1 .. end - first,
             HandsOver(c, d, first - 1, n, end)
      PROVE  /\ Numbered(d, Noted(c, d, last), end)
             /\ \E new \in first .. end - 1 :
                  /\ d.rxBuffer = c.rxBuffer \o [i \in 1 .. new - first + 1 |-> first + i - 1]
                  /\ Noted(c, d, last) = new
  <2> DEFINE new == first - 1 + n
             block == [i \in 1 .. new - first + 1 |-> first + i - 1]
  <2>1. /\ first \in Int /\ n \in Nat /\ 1 <= n /\ n <= end - first
        /\ new \in first .. end - 1 /\ new - first + 1 = n
    OBVIOUS
  <2>2. block = [i \in 1 .. n |-> first - 1 + i]
    BY <2>1
  <2>3. block \in Seq(Int) /\ Len(block) = n /\ block[n] = new
    BY <2>1
  <2>4. d.rxBuffer = c.rxBuffer \o block /\ Numbered(d, new, end)
    BY <1>2, <2>2 DEF HandsOver
  <2> HIDE DEF block, new
  <2>5. /\ Len(c.rxBuffer) \in Nat
        /\ Len(d.rxBuffer) = Len(c.rxBuffer) + n
    BY <2>3, <2>4, LenProperties, ConcatProperties
  <2>6. d.rxBuffer[Len(c.rxBuffer) + n] = block[n]
    <3> DEFINE r == c.rxBuffer
    <3>1. r \in Seq(Int) /\ Len(r) \in Nat
      BY <2>5
    <3> HIDE DEF r
    <3>2. (r \o block)[Len(r) + n] = block[n]
      BY <2>1, <2>3, <3>1
    <3> QED
      BY <2>4, <3>2 DEF r
  <2>7. Noted(c, d, last) = new
    BY <2>1, <2>3, <2>5, <2>6 DEF Noted
  <2> QED
    BY <2>1, <2>4, <2>7 DEF block
<1> QED
  BY <1>1, <1>2 DEF Delivers

(* A step of the system, other than the peer's.                            *)
Call ==
  \/ ch.state = "Closed" /\ Open
  \/ LinkSend
  \/ \E t \in Transports : LinkArrive(t)
  \/ \E t \in Transports : Notify(t)
  \/ CheckTimingsClosed
  \/ CheckTimingsUp
  \/ Poll
  \/ PollEnd
  \/ Tick

(* What LinkInv says, in the terms of the lemmas above.                    *)
LEMMA LinkInvFacts ==
  ASSUME LinkInv
  PROVE  /\ ChannelInv(ch) /\ ch \in Channel /\ ch.rxBuffer \in Seq(Int)
         /\ transport \in [Transports -> Seq(PDU)] /\ notices \in [Transports -> Nat]
         /\ Ahead(highest, sent) /\ Numbered(ch, highest, sent)
         /\ highest \in Int /\ sent \in Nat
         /\ \A t \in Transports : \A i \in DOMAIN transport[t] :
              FromPeer(transport[t][i], sent)
<1>1. ch \in Channel
  BY DEF LinkInv, IInv, TypeOK
<1>2. ch.rxBuffer \in Seq(Int)
  <2>1. ch.rxBuffer \in Seq(Payloads)
    BY <1>1 DEF Channel
  <2>2. Payloads \subseteq Int
    BY LinkAssumption
  <2> QED
    BY <2>1, <2>2, SeqMonotonic
<1> QED
  BY <1>1, <1>2, LinkAssumption DEF LinkInv, IInv, TypeOK, NumbersInv, Ahead

(* Every step but a read hands over what OrderedDelivery allows.           *)
LEMMA CallDelivers ==
  ASSUME LinkInv, Call
  PROVE  Delivers(ch, ch', highest, sent)
<1>1. /\ ChannelInv(ch) /\ ch \in Channel
      /\ transport \in [Transports -> Seq(PDU)]
      /\ Ahead(highest, sent) /\ Numbered(ch, highest, sent)
      /\ \A t \in Transports : \A i \in DOMAIN transport[t] :
           FromPeer(transport[t][i], sent)
  BY LinkInvFacts
<1>2. CASE ch.state = "Closed" /\ Open
  <2>1. highest = -1 /\ ch.rxBuffer = <<>>
    BY <1>2 DEF LinkInv, ClosedInv
  <2>2. ch'.rxBuffer = <<>> /\ ch'.deferQueue = {} /\ ch'.seqRx = 0
    BY <1>1, <1>2 DEF Open, OpenRedundancyChannel, InitRedundancyChannelData, Channel
  <2>3. (-1 + 1) % SeqMod = 0
    BY HalfAssumption DEF SeqMod
  <2> QED
    BY <2>1, <2>2, <2>3 DEF Delivers, HandsNothingOver, Numbered
<1>3. CASE LinkSend
  BY <1>1, <1>3, OthersDeliverNothing DEF LinkSend, Send
<1>4. CASE ch' = ch
  BY <1>1, <1>4 DEF Delivers, HandsNothingOver
<1>5. ASSUME NEW t \in Transports, Notify(t)
      PROVE  Delivers(ch, ch', highest, sent)
  <2>1. transport[t] \in Seq(PDU)
    BY <1>1
  <2> QED
    BY <1>1, <1>5, <2>1, NotifiedDelivers DEF Notify
<1>6. CASE CheckTimingsClosed
  BY <1>1, <1>6, OthersDeliverNothing DEF CheckTimingsClosed
<1>7. CASE Poll
  <2>1. ch.pollIndex \in Transports /\ transport[ch.pollIndex] \in Seq(PDU)
    BY <1>1 DEF Channel
  <2> QED
    BY <1>1, <1>7, <2>1, PolledDelivers DEF Poll
<1>8. CASE PollEnd
  BY <1>1, <1>8, CheckTimeoutDelivers DEF PollEnd
<1>9. CASE Tick
  BY <1>1, <1>9, OthersDeliverNothing DEF Tick
<1> QED
  BY <1>2, <1>3, <1>4, <1>5, <1>6, <1>7, <1>8, <1>9
     DEF Call, LinkArrive, Arrive, CheckTimingsUp

(* Every copy that is still in a transport channel is one the peer sent.   *)
LEMMA CallKeepsCopies ==
  ASSUME LinkInv, Call, NEW t \in Transports, NEW i \in DOMAIN transport'[t]
  PROVE  FromPeer(transport'[t][i], sent)
<1>1. /\ transport \in [Transports -> Seq(PDU)] /\ transport[t] \in Seq(PDU)
      /\ \A u \in Transports : \A j \in DOMAIN transport[u] :
           FromPeer(transport[u][j], sent)
      /\ sent \in Nat
  BY LinkInvFacts
<1>2. CASE transport'[t] = transport[t]
  BY <1>1, <1>2
<1>3. CASE transport[t] # <<>> /\ transport'[t] = Tail(transport[t])
  <2>1. i + 1 \in DOMAIN transport[t] /\ transport'[t][i] = transport[t][i + 1]
    BY <1>1, <1>3
  <2> QED
    BY <1>1, <2>1
<1>4. ASSUME NEW u \in Transports, LinkArrive(u)
      PROVE  FromPeer(transport'[t][i], sent)
  <2>1. PICK n \in 0 .. sent - 1, ok \in BOOLEAN :
          Later(n) <= Lifetime /\ Arrive(u, PeerPDU(n, ok))
    BY <1>4 DEF LinkArrive
  <2>2. FromPeer(PeerPDU(n, ok), sent)
    BY <2>1 DEF FromPeer, PeerPDU, Later
  <2>3. CASE t = u
    <3> DEFINE pdu == PeerPDU(n, ok)
    <3>1. transport'[t] = Append(transport[t], pdu)
      BY <1>1, <2>1, <2>3 DEF Arrive
    <3> HIDE DEF pdu
    <3>2. transport'[t][i] = pdu \/ (i \in DOMAIN transport[t] /\ transport'[t][i] = transport[t][i])
      BY <1>1, <3>1
    <3> QED
      BY <1>1, <2>2, <3>2 DEF pdu
  <2>4. CASE t # u
    BY <1>1, <1>2, <2>1, <2>4 DEF Arrive
  <2> QED
    BY <2>3, <2>4
<1>5. CASE transport'[t] = <<>>
  BY <1>5
<1>6. ASSUME NEW u \in Transports, Notify(u)
      PROVE  FromPeer(transport'[t][i], sent)
  BY <1>1, <1>2, <1>3, <1>6 DEF Notify, NotificationReads
<1>7. CASE Poll
  BY <1>1, <1>2, <1>3, <1>7 DEF Poll, PollReads
<1>8. CASE CheckTimingsClosed
  BY <1>2, <1>5, <1>8 DEF CheckTimingsClosed
<1> QED
  BY <1>2, <1>4, <1>6, <1>7, <1>8
     DEF Call, Open, LinkSend, Send, CheckTimingsUp, PollEnd, Tick

(* The numbers after a step.                                               *)
LEMMA NumbersStep ==
  ASSUME LinkInv, LinkNext
  PROVE  NumbersInv'
<1>1. /\ ch \in Channel /\ ch.rxBuffer \in Seq(Int)
      /\ transport \in [Transports -> Seq(PDU)]
      /\ Ahead(highest, sent) /\ Numbered(ch, highest, sent)
      /\ highest \in Int /\ sent \in Nat
      /\ \A t \in Transports : \A i \in DOMAIN transport[t] :
           FromPeer(transport[t][i], sent)
  BY LinkInvFacts
<1>2. CASE PeerSend
  <2>1. Ahead(highest, sent + 1)
    BY <1>1, <1>2, LinkAssumption DEF PeerSend, Ahead
  <2>2. Numbered(ch, highest, sent + 1)
    BY <1>1 DEF Numbered
  <2>3. ASSUME NEW t \in Transports, NEW i \in DOMAIN transport[t]
        PROVE  FromPeer(transport[t][i], sent + 1)
    <3> DEFINE n == transport[t][i].payload
    <3>1. Later(n) < Lifetime
      BY <1>2 DEF PeerSend
    <3>2. FromPeer(transport[t][i], sent)
      BY <1>1
    <3> QED
      BY <1>1, <3>1, <3>2, LinkAssumption DEF FromPeer, Later
  <2> QED
    BY <1>2, <2>1, <2>2, <2>3 DEF PeerSend, NumbersInv, vars
<1>3. CASE Step(Read)
  <2>1. Len(ch'.rxBuffer) = Len(ch.rxBuffer) - 1 /\ Len(ch.rxBuffer) \in Nat
    <3> DEFINE r == ch.rxBuffer
    <3>1. r \in Seq(Int) /\ r # <<>> /\ ch'.rxBuffer = Tail(r)
      BY <1>1, <1>3 DEF Step, Read, ReadFromBuffer, Channel
    <3> HIDE DEF r
    <3>2. Len(Tail(r)) = Len(r) - 1 /\ Len(r) \in Nat
      BY <3>1
    <3> QED
      BY <3>1, <3>2 DEF r
  <2>2. highest' = highest /\ sent' = sent
    BY <1>3, <2>1 DEF Step, NoteHandOver
  <2>3. /\ ch'.seqRx = ch.seqRx /\ ch'.deferQueue = ch.deferQueue
        /\ transport' = transport
    BY <1>1, <1>3 DEF Step, Read, ReadFromBuffer, Channel
  <2> QED
    BY <1>1, <2>2, <2>3 DEF NumbersInv, Numbered
<1>4. CASE Step(Call)
  <2>1. /\ Delivers(ch, ch', highest, sent)
        /\ highest' = Noted(ch, ch', highest) /\ sent' = sent
    BY <1>4, CallDelivers DEF Step, NoteHandOver, Noted
  <2>2. Numbered(ch', highest', sent')
    BY <1>1, <2>1, NotedIsLast
  <2>3. highest' = highest \/ highest' \in highest + 1 .. sent - 1
    BY <1>1, <2>1, NotedIsLast
  <2>4. Ahead(highest', sent')
    BY <1>1, <2>1, <2>3, LinkAssumption DEF Ahead
  <2>5. \A t \in Transports : \A i \in DOMAIN transport'[t] :
          FromPeer(transport'[t][i], sent')
    BY <1>4, <2>1, CallKeepsCopies DEF Step
  <2> QED
    BY <2>2, <2>4, <2>5 DEF NumbersInv
<1> QED
  BY <1>2, <1>3, <1>4 DEF LinkNext, Step, Call

(* The channel stays up.                                                   *)
LEMMA StaysUp ==
  ASSUME LinkInv, LinkNext, ch.state = "Up"
  PROVE  ch'.state = "Up"
<1>1. ch \in Channel
  BY LinkInvFacts
<1>2. CASE PeerSend \/ Step(CheckTimingsUp) \/ \E t \in Transports : Step(LinkArrive(t))
  BY <1>2 DEF Step, PeerSend, CheckTimingsUp, LinkArrive, Arrive, vars
<1>3. CASE Step(LinkSend) \/ Step(Read) \/ Step(Tick)
  BY <1>1, <1>3 DEF Step, LinkSend, Send, SendMessage, Read, ReadFromBuffer,
                    Tick, AgeDeferQueue, Channel
<1>4. ASSUME NEW t \in Transports, Step(Notify(t))
      PROVE  ch'.state = "Up"
  BY <1>1, <1>4, NotifiedFlags DEF Step, Notify
<1>5. CASE Step(Poll)
  BY <1>1, <1>5, PolledFlags DEF Step, Poll
<1>6. CASE Step(PollEnd)
  BY <1>1, <1>6, TimeoutKeepsFlags DEF Step, PollEnd
<1>7. ~ Step(CheckTimingsClosed) /\ ~ Step(ch.state = "Closed" /\ Open)
  BY DEF Step, CheckTimingsClosed
<1> QED
  BY <1>2, <1>3, <1>4, <1>5, <1>6, <1>7 DEF LinkNext

(* Before the link is opened nothing is handed over.                       *)
LEMMA ClosedStep ==
  ASSUME LinkInv, LinkNext
  PROVE  ClosedInv'
<1>1. /\ ch \in Channel /\ ClosedInv
      /\ ch.state = "Closed" => highest = -1 /\ ch.rxBuffer = <<>> /\ ~ polling
  BY LinkInvFacts DEF LinkInv, ClosedInv
<1>2. CASE PeerSend
  BY <1>1, <1>2 DEF PeerSend, ClosedInv, vars
<1>3. CASE ch.state = "Closed" /\ (Step(LinkSend) \/ Step(Read) \/ Step(CheckTimingsUp)
                                  \/ Step(Poll) \/ Step(PollEnd))
  BY <1>1, <1>3 DEF Step, LinkSend, Send, Read, CheckTimingsUp, Poll, PollEnd
<1>4. CASE ch.state = "Closed" /\ Open
  BY <1>1, <1>4 DEF Open, OpenRedundancyChannel, InitRedundancyChannelData, ClosedInv, Channel
<1>5. ASSUME ch.state = "Closed", NoteHandOver, polling' = polling,
             ch'.state = "Closed" => ch'.rxBuffer = ch.rxBuffer
      PROVE  ClosedInv'
  BY <1>1, <1>5 DEF NoteHandOver, ClosedInv
<1>6. CASE ch.state = "Closed" /\ Step(CheckTimingsClosed)
  <2>1. ch'.rxBuffer = ch.rxBuffer
    BY <1>1, <1>6 DEF Step, CheckTimingsClosed, DiscardMessages, Channel
  <2> QED
    BY <1>5, <1>6, <2>1 DEF Step, CheckTimingsClosed
<1>7. CASE ch.state = "Closed" /\ Step(Tick)
  <2>1. ch'.rxBuffer = ch.rxBuffer
    BY <1>1, <1>7 DEF Step, Tick, AgeDeferQueue, Channel
  <2> QED
    BY <1>5, <1>7, <2>1 DEF Step, Tick
<1>8. ASSUME ch.state = "Closed", NEW t \in Transports, Step(Notify(t))
      PROVE  ClosedInv'
  <2>1. ch'.rxBuffer = ch.rxBuffer
    BY <1>1, <1>8 DEF Step, Notify, NotifiedChannel, Channel
  <2> QED
    BY <1>5, <1>8, <2>1 DEF Step, Notify
<1>9. ASSUME ch.state = "Closed", NEW t \in Transports, Step(LinkArrive(t))
      PROVE  ClosedInv'
  BY <1>5, <1>9 DEF Step, LinkArrive, Arrive
<1>10. CASE ch.state = "Up"
  BY <1>10, StaysUp DEF ClosedInv
<1>11. ch.state \in {"Closed", "Up"}
  BY <1>1 DEF Channel
<1> QED
  BY <1>2, <1>3, <1>4, <1>6, <1>7, <1>8, <1>9, <1>10, <1>11 DEF LinkNext, Step

(* Every step keeps FlagInv.                                               *)
LEMMA FlagStep ==
  ASSUME LinkInv, LinkNext
  PROVE  FlagInv'
<1>1. /\ ch \in Channel
      /\ transport \in [Transports -> Seq(PDU)] /\ notices \in [Transports -> Nat]
      /\ \A t \in Transports :
           /\ transport[t] \in Seq(PDU) /\ Len(transport[t]) \in Nat /\ notices[t] \in Nat
           /\ transport[t] # <<>> => Len(transport[t]) > 0 /\ Len(Tail(transport[t])) = Len(transport[t]) - 1
           /\ Len(transport[t]) > notices[t] => ch.state = "Up" /\ ch.pending[t]
  <2>1. /\ ch \in Channel
        /\ transport \in [Transports -> Seq(PDU)] /\ notices \in [Transports -> Nat]
        /\ \A t \in Transports :
             Len(transport[t]) > notices[t] => ch.state = "Up" /\ ch.pending[t]
    BY LinkInvFacts DEF LinkInv, FlagInv
  <2>2. ASSUME NEW q \in Seq(PDU)
        PROVE  Len(q) \in Nat /\ (q # <<>> => Len(q) > 0 /\ Len(Tail(q)) = Len(q) - 1)
    OBVIOUS
  <2> QED
    BY <2>1, <2>2
<1>2. CASE /\ ch'.state = ch.state /\ ch'.pending = ch.pending
           /\ transport' = transport /\ notices' = notices
  BY <1>1, <1>2 DEF FlagInv
<1>3. CASE PeerSend \/ Step(CheckTimingsUp)
  BY <1>2, <1>3 DEF Step, PeerSend, CheckTimingsUp, vars
<1>4. CASE Step(LinkSend) \/ Step(Read) \/ Step(Tick)
  BY <1>1, <1>2, <1>4 DEF Step, LinkSend, Send, SendMessage, Read, ReadFromBuffer,
                          Tick, AgeDeferQueue, Channel
<1>5. CASE Step(ch.state = "Closed" /\ Open)
  BY <1>1, <1>5 DEF Step, Open, FlagInv
<1>6. ASSUME NEW t \in Transports, Step(LinkArrive(t))
      PROVE  FlagInv'
  <2>1. PICK pdu : Arrive(t, pdu)
    BY <1>6 DEF Step, LinkArrive
  <2> DEFINE q == transport[t]
  <2>2. /\ transport'[t] = Append(q, pdu) /\ notices'[t] = notices[t] + 1
        /\ q \in Seq(PDU) /\ notices[t] \in Nat
        /\ \A u \in Transports : u = t \/ (transport'[u] = transport[u] /\ notices'[u] = notices[u])
    BY <1>1, <2>1 DEF Arrive
  <2> HIDE DEF q
  <2>3. Len(transport'[t]) > notices'[t] => Len(q) > notices[t]
    <3>1. Len(Append(q, pdu)) = Len(q) + 1 /\ Len(q) \in Nat
      BY <2>2
    <3> QED
      BY <2>2, <3>1
  <2>4. ASSUME NEW u \in Transports
        PROVE  Len(transport'[u]) > notices'[u] => Len(transport[u]) > notices[u]
    BY <2>2, <2>3 DEF q
  <2> QED
    BY <1>1, <2>1, <2>4 DEF Arrive, FlagInv
<1>7. ASSUME NEW t \in Transports, Step(Notify(t))
      PROVE  FlagInv'
  <2> DEFINE q == transport[t]
             reads == NotificationReads(ch, q)
  <2>1. /\ notices[t] > 0 /\ notices' = [notices EXCEPT ![t] = @ - 1]
        /\ ch' = NotifiedChannel(ch, t, q)
        /\ transport' = IF reads THEN [transport EXCEPT ![t] = Tail(@)] ELSE transport
    BY <1>7 DEF Step, Notify
  <2>2. /\ ch'.state = ch.state
        /\ \A u \in Transports :
             \/ ch'.pending[u] = ch.pending[u]
             \/ u = t /\ q = <<>>
             \/ u = t /\ ch.state = "Up" /\ ch'.pending[u]
        /\ ~ reads /\ q # <<>> => ch.state = "Up" /\ ch'.pending[t]
    BY <1>1, <2>1, NotifiedFlags
  <2>3. reads => q # <<>>
    BY DEF NotificationReads
  <2> HIDE DEF reads
  <2>4. ASSUME NEW u \in Transports, u # t
        PROVE  transport'[u] = transport[u] /\ notices'[u] = notices[u] /\ ch'.pending[u] = ch.pending[u]
    BY <1>1, <2>1, <2>2, <2>4
  <2>5. notices'[t] = notices[t] - 1 /\ transport'[t] = IF reads THEN Tail(q) ELSE q
    BY <1>1, <2>1
  <2>6. Len(transport'[t]) > notices'[t] => ch'.state = "Up" /\ ch'.pending[t]
    <3>1. CASE reads
      <4> SUFFICES ASSUME Len(transport'[t]) > notices'[t]
                   PROVE  ch'.state = "Up" /\ ch'.pending[t]
        OBVIOUS
      <4>1. q # <<>> /\ Len(q) > notices[t]
        BY <1>1, <2>1, <2>3, <2>5, <3>1
      <4>2. ch.state = "Up" /\ ch.pending[t]
        BY <1>1, <4>1
      <4> QED
        BY <2>2, <4>1, <4>2, Zenon
    <3>2. CASE ~ reads /\ q # <<>>
      BY <2>2, <3>2
    <3>3. CASE q = <<>>
      BY <1>1, <2>1, <2>3, <2>5, <3>3
    <3> QED
      BY <3>1, <3>2, <3>3
  <2> QED
    BY <1>1, <2>2, <2>4, <2>6 DEF FlagInv
<1>8. CASE Step(CheckTimingsClosed)
  <2>1. \A t \in Transports : Len(transport[t]) <= notices[t]
    BY <1>1, <1>8 DEF Step, CheckTimingsClosed
  <2>2. ASSUME NEW t \in Transports
        PROVE  Len(transport'[t]) <= notices'[t]
    BY <1>1, <1>8, <2>1 DEF Step, CheckTimingsClosed
  <2>3. ASSUME NEW t \in Transports
        PROVE  Len(transport'[t]) \in Nat /\ notices'[t] \in Nat
    BY <1>1, <1>8 DEF Step, CheckTimingsClosed
  <2> QED
    BY <2>2, <2>3 DEF FlagInv
<1>9. CASE Step(Poll)
  <2> DEFINE t == ch.pollIndex
             q == transport[t]
  <2>1. /\ notices' = notices /\ ch' = PolledChannel(ch, q) /\ t \in Transports
        /\ transport' = IF PollReads(ch, q) THEN [transport EXCEPT ![t] = Tail(@)] ELSE transport
    BY <1>1, <1>9 DEF Step, Poll, Channel
  <2>2. /\ ch'.state = ch.state
        /\ \A u \in Transports : ch'.pending[u] = ch.pending[u] \/ (u = t /\ q = <<>>)
    BY <1>1, <2>1, PolledFlags
  <2>3. PollReads(ch, q) => q # <<>>
    BY DEF PollReads
  <2> HIDE DEF t
  <2>4. ASSUME NEW u \in Transports
        PROVE  /\ Len(transport'[u]) \in Nat /\ Len(transport'[u]) <= Len(transport[u])
               /\ u = t /\ q = <<>> => Len(transport'[u]) = 0
    BY <1>1, <2>1, <2>3
  <2> QED
    BY <1>1, <2>1, <2>2, <2>4 DEF FlagInv
<1>10. CASE Step(PollEnd)
  BY <1>1, <1>2, <1>10, TimeoutKeepsFlags DEF Step, PollEnd
<1> QED
  BY <1>3, <1>4, <1>5, <1>6, <1>7, <1>8, <1>9, <1>10 DEF LinkNext

(* RedLink calls nothing RedEndpoint does not call.                        *)
LEMMA EndpointStep ==
  ASSUME LinkInv, LinkNext
  PROVE  IInv'
<1>1. IInv
  BY DEF LinkInv
<1>2. CASE PeerSend
  BY <1>1, <1>2, NextIInv DEF PeerSend
<1>3. ASSUME NEW t \in Transports, Step(LinkArrive(t))
      PROVE  IInv'
  <2>1. PICK n \in 0 .. sent - 1, ok \in BOOLEAN : Arrive(t, PeerPDU(n, ok))
    BY <1>3 DEF Step, LinkArrive
  <2>2. n \in Payloads /\ n \in Int
    BY LinkAssumption DEF LinkInv, NumbersInv, Ahead
  <2>3. PeerPDU(n, ok) \in PDU
    BY <2>2, RemainderRange DEF PeerPDU, PDU
  <2> QED
    BY <1>1, <2>1, <2>3, ArriveIInv
<1> QED
  BY <1>1, <1>2, <1>3, CallsIInv DEF LinkNext, Step, LinkSend

(* The invariant holds at the start.                                       *)
LEMMA LinkInitInv == LinkInit => LinkInv
<1> SUFFICES ASSUME LinkInit
             PROVE  LinkInv
  OBVIOUS
<1>1. IInv
  BY InitIInv DEF LinkInit
<1>2. NumbersInv
  <2>1. Ahead(-1, 0)
    BY LinkAssumption DEF Ahead
  <2>2. (-1 + 1) % SeqMod = 0
    BY HalfAssumption DEF SeqMod
  <2>3. Numbered(InitialChannel, -1, 0)
    BY <2>2 DEF Numbered, InitialChannel
  <2> QED
    BY <2>1, <2>3 DEF LinkInit, Init, NumbersInv
<1>3. ClosedInv
  BY DEF LinkInit, Init, InitialChannel, ClosedInv
<1>4. FlagInv
  BY DEF LinkInit, Init, FlagInv
<1> QED
  BY <1>1, <1>2, <1>3, <1>4 DEF LinkInv

(* Every step keeps it.                                                    *)
LEMMA LinkNextInv == LinkInv /\ [LinkNext]_linkVars => LinkInv'
<1> SUFFICES ASSUME LinkInv, [LinkNext]_linkVars
             PROVE  LinkInv'
  OBVIOUS
<1>1. CASE LinkNext
  BY <1>1, EndpointStep, NumbersStep, ClosedStep, FlagStep DEF LinkInv
<1>2. CASE UNCHANGED linkVars
  <2>1. IInv'
    BY <1>2, NextIInv DEF linkVars, LinkInv
  <2>2. NumbersInv' /\ ClosedInv' /\ FlagInv'
    BY <1>2 DEF linkVars, vars, LinkInv, NumbersInv, ClosedInv, FlagInv
  <2> QED
    BY <2>1, <2>2 DEF LinkInv
<1> QED
  BY <1>1, <1>2

-----------------------------------------------------------------------------
(* The theorems.                                                           *)

(* It holds in every state of every behaviour.                             *)
THEOREM LinkInvariance == LinkSpec => []LinkInv
<1> QED
  BY LinkInitInv, LinkNextInv, PTL DEF LinkSpec

(* Between two calls of an open channel every message that was notified    *)
(* and not read is covered by the pending flag of its transport channel:   *)
(* a notification that finds no room is not lost.                          *)
THEOREM NothingIsForgotten == LinkSpec => []NothingForgotten
<1>1. LinkInv => NothingForgotten
  BY DEF LinkInv, FlagInv, NothingForgotten
<1> QED
  BY <1>1, LinkInvariance, PTL

(* A step of the system is one OrderedDelivery allows.                     *)
LEMMA LinkStepDelivers ==
  ASSUME LinkInv, [LinkNext]_linkVars
  PROVE  [Promise!Next]_(Promise!vars)
<1> USE DEF Promise!vars
<1>1. /\ ch \in Channel /\ ch.rxBuffer \in Seq(Int) /\ highest \in Int /\ sent \in Nat
  BY LinkInvFacts
<1>2. CASE PeerSend
  BY <1>2 DEF PeerSend, vars, Promise!Next, Promise!SendOne
<1>3. CASE Step(Read)
  <2>1. ch'.rxBuffer = Tail(ch.rxBuffer) /\ ch.rxBuffer # <<>>
    BY <1>1, <1>3 DEF Step, Read, ReadFromBuffer, Channel
  <2>2. ~ (Len(ch'.rxBuffer) > Len(ch.rxBuffer))
    <3> DEFINE r == ch.rxBuffer
    <3>1. r \in Seq(Int) /\ r # <<>>
      BY <1>1, <2>1
    <3> HIDE DEF r
    <3>2. ~ (Len(Tail(r)) > Len(r))
      BY <3>1
    <3> QED
      BY <2>1, <3>2 DEF r
  <2>3. highest' = highest /\ sent' = sent
    BY <1>3, <2>2 DEF Step, NoteHandOver
  <2> QED
    BY <2>1, <2>3 DEF Promise!Next, Promise!ReadOne
<1>4. CASE Step(Call)
  <2>1. /\ Delivers(ch, ch', highest, sent)
        /\ highest' = Noted(ch, ch', highest) /\ sent' = sent
    BY <1>4, CallDelivers DEF Step, NoteHandOver, Noted
  <2> DEFINE h == Noted(ch, ch', highest)
  <2>2. \/ ch'.rxBuffer = ch.rxBuffer /\ h = highest
        \/ \E first \in highest + 1 .. sent - 1 : \E new \in first .. sent - 1 :
             /\ ch'.rxBuffer = ch.rxBuffer \o [i \in 1 .. new - first + 1 |-> first + i - 1]
             /\ h = new
    <3>1. highest \in Int /\ sent \in Int
      BY <1>1
    <3> QED
      BY <1>1, <2>1, <3>1, NotedIsLast, Zenon
  <2>3. highest' = h
    BY <2>1
  <2> HIDE DEF h
  <2> QED
    BY <2>1, <2>2, <2>3 DEF Promise!Next, Promise!HandOver
<1>5. CASE UNCHANGED linkVars
  BY <1>5 DEF linkVars, vars
<1> QED
  BY <1>2, <1>3, <1>4, <1>5 DEF LinkNext, Step, Call

(* The redundancy channel implements OrderedDelivery: the layer above gets *)
(* the peer's messages in the order they were sent, none twice.            *)
THEOREM OrderedDeliveryImplemented == LinkSpec => DeliversInOrder
<1>1. LinkInit => Promise!Init
  BY DEF LinkInit, Init, InitialChannel, Promise!Init
<1> QED
  BY <1>1, LinkInvariance, LinkStepDelivers, PTL DEF LinkSpec, DeliversInOrder, Promise!Spec
=============================================================================

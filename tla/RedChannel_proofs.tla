------------------------- MODULE RedChannel_proofs -------------------------
(***************************************************************************)
(* Every operation of a redundancy channel preserves ChannelInv: the type  *)
(* of the channel, room in the received buffer for the defer queue, no     *)
(* fatal error, and a defer queue that lies strictly ahead of seq_rx.      *)
(***************************************************************************)
EXTENDS RedChannel, Arithmetic, FiniteSetTheorems, FunctionTheorems,
        SequenceTheorems, TLAPS

(* The messages of the queue lie from lo to Window ahead of seq, and no    *)
(* two of them have the same sequence number.                              *)
QueueFrom(queue, seq, lo) ==
  /\ \A e \in queue : Minus(e.seq, seq) \in lo .. Window
  /\ \A e, f \in queue : e.seq = f.seq => e = f

(* What the operations need of a channel and keep, apart from the place of *)
(* the defer queue.                                                        *)
Sound(c) ==
  /\ c \in Channel
  /\ IsFiniteSet(c.deferQueue)
  /\ FreeBufferEntries(c) >= UsedEntries(c)
  /\ ~ c.fatal

(* The defer queue is strictly ahead of seq_rx between two operations; it  *)
(* may start at seq_rx when DeliverDeferQueue is called.                   *)
ChannelInv(c) == Sound(c) /\ QueueFrom(c.deferQueue, c.seqRx, 1)
Deliverable(c) == Sound(c) /\ QueueFrom(c.deferQueue, c.seqRx, 0)

-----------------------------------------------------------------------------
(* Arithmetic of sequence numbers.                                         *)

(* The window is shorter than half of the sequence numbers.                *)
LEMMA WindowBound == Window \in Nat \ {0} /\ Window + 1 < Half /\ Half \in Nat
<1>1. \A m, n \in Nat \ {0} : m * n \in Nat \ {0}
  OBVIOUS
<1> QED
  BY <1>1, RedChannelAssumption, HalfAssumption DEF Window

(* Unsigned sums and differences are sequence numbers.                     *)
LEMMA SeqNumsClosed ==
  ASSUME NEW a \in SeqNums, NEW b \in SeqNums
  PROVE  Plus(a, b) \in SeqNums /\ Minus(a, b) \in SeqNums
BY HalfAssumption DEF SeqNums, SeqMod, Plus, Minus

(* Going n ahead of a sequence number shortens the distance to those       *)
(* farther ahead by n.                                                     *)
LEMMA MinusShift ==
  ASSUME NEW a \in SeqNums, NEW b \in SeqNums, NEW n \in Nat, n <= Minus(a, b)
  PROVE  Minus(a, Plus(b, n)) = Minus(a, b) - n
BY HalfAssumption DEF SeqNums, SeqMod, Plus, Minus

(* The number at distance n is the one whose distance is n.                *)
LEMMA PlusMinus ==
  ASSUME NEW a \in SeqNums, NEW b \in SeqNums, NEW n \in 0 .. SeqMod - 1
  PROVE  a = Plus(b, n) <=> Minus(a, b) = n
BY HalfAssumption DEF SeqNums, SeqMod, Plus, Minus

(* reddfq_IsSequenceNumberOlder says that the reference is less than half  *)
(* of the sequence numbers ahead.                                          *)
LEMMA OlderIsBehind ==
  ASSUME NEW a \in SeqNums, NEW b \in SeqNums
  PROVE  IsSequenceNumberOlder(a, b) <=> Minus(b, a) \in 1 .. Half - 1
BY HalfAssumption DEF SeqNums, SeqMod, Plus, Minus, IsSequenceNumberOlder

(* Within half of the sequence numbers, older means nearer to a base.      *)
LEMMA OlderIsNearer ==
  ASSUME NEW a \in SeqNums, NEW b \in SeqNums, NEW s \in SeqNums,
         Minus(a, s) < Half, Minus(b, s) < Half
  PROVE  /\ IsSequenceNumberOlder(a, b) <=> Minus(a, s) < Minus(b, s)
         /\ Minus(a, s) <= Minus(b, s) => Minus(b, a) = Minus(b, s) - Minus(a, s)
BY HalfAssumption DEF SeqNums, SeqMod, Plus, Minus, IsSequenceNumberOlder

(* The window test of redcor_ProcessReceivedMessage admits a PDU that is   *)
(* not older than and not equal to seq_rx iff it is in the window.         *)
LEMMA WindowTest ==
  ASSUME NEW a \in SeqNums, NEW s \in SeqNums,
         ~ IsSequenceNumberOlder(a, s), a # s,
         IsSequenceNumberOlder(a, Plus(s, Window + 1))
  PROVE  Minus(a, s) \in 1 .. Window
<1> DEFINE W == Window
<1>1. W \in Nat \ {0} /\ W + 1 < Half /\ Half \in Nat
  BY WindowBound
<1> HIDE DEF W
<1>2. ~ IsSequenceNumberOlder(a, s) /\ a # s /\ IsSequenceNumberOlder(a, Plus(s, W + 1))
        => Minus(a, s) \in 1 .. W
  BY <1>1 DEF SeqNums, SeqMod, Plus, Minus, IsSequenceNumberOlder
<1> QED
  BY <1>2 DEF W

-----------------------------------------------------------------------------
(* The messages DeliverDeferQueue takes from the defer queue.              *)

(* reddfq_GetMessage returns the entry with the number it is asked for.    *)
LEMMA EntryFound ==
  ASSUME NEW queue, NEW seq, Contains(queue, seq)
  PROVE  Entry(queue, seq) \in queue /\ Entry(queue, seq).seq = seq
BY DEF Contains, Entry

(* Messages at n successive sequence numbers are n different messages.     *)
LEMMA SuccessiveEntries ==
  ASSUME NEW queue, NEW s \in SeqNums, NEW n \in 0 .. Window + 1,
         \A i \in 0 .. n - 1 : Contains(queue, Plus(s, i))
  PROVE  [i \in 1 .. n |-> Entry(queue, Plus(s, i - 1))] \in Injection(1 .. n, queue)
<1> DEFINE f == [i \in 1 .. n |-> Entry(queue, Plus(s, i - 1))]
<1>1. n \in Nat /\ n < SeqMod /\ SeqMod \in Nat /\ 0 .. n - 1 \subseteq SeqNums
  BY WindowBound DEF SeqMod, SeqNums
<1>2. ASSUME NEW i \in 1 .. n
      PROVE  /\ f[i] \in queue
             /\ f[i].seq = Plus(s, i - 1)
             /\ i - 1 \in 0 .. SeqMod - 1
             /\ f[i].seq \in SeqNums
             /\ Minus(f[i].seq, s) = i - 1
  <2>1. i - 1 \in 0 .. n - 1 /\ i - 1 \in 0 .. SeqMod - 1 /\ i - 1 \in SeqNums
    BY <1>1
  <2>2. f[i] \in queue /\ f[i].seq = Plus(s, i - 1)
    BY <2>1, EntryFound
  <2>3. f[i].seq \in SeqNums
    BY <2>1, <2>2, SeqNumsClosed
  <2>4. Minus(f[i].seq, s) = i - 1
    BY <2>1, <2>2, <2>3, PlusMinus
  <2> QED
    BY <2>1, <2>2, <2>3, <2>4
<1>3. f \in [1 .. n -> queue]
  BY <1>2
<1>4. \A i, j \in 1 .. n : f[i] = f[j] => i = j
  <2> SUFFICES ASSUME NEW i \in 1 .. n, NEW j \in 1 .. n, f[i] = f[j]
               PROVE  i = j
    OBVIOUS
  <2>1. i - 1 = j - 1
    <3>1. Minus(f[i].seq, s) = i - 1 /\ Minus(f[j].seq, s) = j - 1
      BY <1>2
    <3> QED
      BY <3>1
  <2> QED
    BY <2>1, <1>1
<1> HIDE DEF f
<1>5. f \in Injection(1 .. n, queue)
  BY <1>3, <1>4, Fun_IsInj
<1> QED
  BY <1>5 DEF f

(* The loop of DeliverDeferQueue stops at the first gap of the queue, and  *)
(* a gap comes no later than the queue is long and the window wide.        *)
LEMMA RunLengthFound ==
  ASSUME NEW queue \in SUBSET DeferEntry, IsFiniteSet(queue),
         NEW s \in SeqNums, QueueFrom(queue, s, 0)
  PROVE  /\ RunLength(queue, s) \in 0 .. Cardinality(queue)
         /\ RunLength(queue, s) \in 0 .. Window + 1
         /\ ~ Contains(queue, Plus(s, RunLength(queue, s)))
         /\ \A i \in 0 .. RunLength(queue, s) - 1 : Contains(queue, Plus(s, i))
<1> DEFINE Gaps == {n \in Nat : ~ Contains(queue, Plus(s, n))}
<1>1. Window \in Nat /\ Window + 1 \in 0 .. SeqMod - 1 /\ Window + 1 \in SeqNums
  BY WindowBound DEF SeqMod, SeqNums
<1>2. Window + 1 \in Gaps
  <2> SUFFICES ASSUME NEW e \in queue, e.seq = Plus(s, Window + 1)
               PROVE  FALSE
    BY <1>1 DEF Contains
  <2>1. e.seq \in SeqNums
    BY DEF DeferEntry
  <2>2. Minus(e.seq, s) = Window + 1
    BY <1>1, <2>1, PlusMinus
  <2> QED
    BY <1>1, <2>2 DEF QueueFrom
<1>3. PICK m \in Gaps : \A n \in Gaps : m <= n
  <2>1. Gaps \in SUBSET Nat /\ Gaps # {}
    BY <1>2
  <2> HIDE DEF Gaps
  <2> QED
    BY <2>1, LeastNatural
<1>4. /\ m \in 0 .. Window + 1
      /\ ~ Contains(queue, Plus(s, m))
      /\ \A i \in 0 .. m - 1 : Contains(queue, Plus(s, i))
  BY <1>1, <1>2, <1>3
<1>5. Cardinality(queue) \in Nat
  BY FS_CardinalityType
<1>6. m <= Cardinality(queue)
  <2>1. [i \in 1 .. m |-> Entry(queue, Plus(s, i - 1))] \in Injection(1 .. m, queue)
    BY <1>4, SuccessiveEntries
  <2>2. Cardinality(1 .. m) <= Cardinality(queue)
    BY <2>1, FS_Injection
  <2>3. Cardinality(1 .. m) = m
    BY <1>4, <1>1, FS_Interval
  <2> QED
    BY <2>2, <2>3
<1> DEFINE First(n) == /\ ~ Contains(queue, Plus(s, n))
                       /\ \A i \in 0 .. n - 1 : Contains(queue, Plus(s, i))
<1>7. m \in 0 .. Cardinality(queue) /\ First(m)
  BY <1>1, <1>4, <1>5, <1>6
<1>8. RunLength(queue, s) \in 0 .. Cardinality(queue) /\ First(RunLength(queue, s))
  BY <1>7 DEF RunLength
<1>9. RunLength(queue, s) \in 0 .. Window + 1
  <2>1. RunLength(queue, s) \in Nat
    BY <1>5, <1>8
  <2>2. ~ (Window + 1 < RunLength(queue, s))
    <3>1. ~ Contains(queue, Plus(s, Window + 1))
      BY <1>2
    <3> QED
      BY <1>1, <1>8, <2>1, <3>1
  <2> QED
    BY <1>1, <2>1, <2>2
<1> QED
  BY <1>8, <1>9

(* The run DeliverDeferQueue delivers: different messages of the queue;    *)
(* what remains is beyond the gap the run ends at.                         *)
LEMMA RunDelivered ==
  ASSUME NEW queue \in SUBSET DeferEntry, IsFiniteSet(queue),
         NEW s \in SeqNums, QueueFrom(queue, s, 0),
         NEW n, n = RunLength(queue, s)
  PROVE  /\ n \in 0 .. Cardinality(queue)
         /\ n \in 0 .. Window + 1
         /\ Run(queue, s) \in Seq(DeferEntry)
         /\ Len(Run(queue, s)) = n
         /\ IsFiniteSet(queue \ Range(Run(queue, s)))
         /\ Cardinality(queue \ Range(Run(queue, s))) = Cardinality(queue) - n
         /\ QueueFrom(queue \ Range(Run(queue, s)), Plus(s, n), 1)
<1> DEFINE run == Run(queue, s)
           rest == queue \ Range(run)
<1>1. /\ n \in 0 .. Cardinality(queue)
      /\ n \in 0 .. Window + 1
      /\ ~ Contains(queue, Plus(s, n))
      /\ \A i \in 0 .. n - 1 : Contains(queue, Plus(s, i))
  BY RunLengthFound
<1>2. /\ Window \in Nat /\ n \in Nat /\ n \in SeqNums /\ n \in 0 .. SeqMod - 1
      /\ \A i \in 0 .. n : i \in 0 .. SeqMod - 1
      /\ Cardinality(queue) \in Nat
  BY <1>1, WindowBound, FS_CardinalityType DEF SeqMod, SeqNums
<1>3. run = [i \in 1 .. n |-> Entry(queue, Plus(s, i - 1))]
  BY DEF Run
<1>4. run \in Injection(1 .. n, queue)
  BY <1>1, <1>3, SuccessiveEntries
<1> HIDE DEF run
<1>5. run \in [1 .. n -> queue] /\ Range(run) \subseteq queue
  <2>1. run \in [1 .. n -> queue]
    BY <1>4, Fun_InjectionProperties
  <2> QED
    BY <2>1, Fun_RangeProperties
<1>6. run \in Seq(DeferEntry) /\ Len(run) = n
  <2>1. run \in [1 .. n -> DeferEntry]
    BY <1>5
  <2> QED
    BY <1>2, <2>1
<1>7. IsFiniteSet(rest) /\ Cardinality(rest) = Cardinality(queue) - n
  <2>1. run \in Bijection(1 .. n, Range(run))
    BY <1>4, Fun_InjMeansBijImage
  <2>2. IsFiniteSet(1 .. n) /\ Cardinality(1 .. n) = n
    BY <1>2, FS_Interval
  <2>3. Cardinality(Range(run)) = n
    BY <2>1, <2>2, FS_Bijection DEF ExistsBijection
  <2>4. queue \cap Range(run) = Range(run)
    BY <1>5
  <2>5. IsFiniteSet(rest) /\ Cardinality(rest) = Cardinality(queue) - Cardinality(queue \cap Range(run))
    BY FS_Difference
  <2> QED
    BY <2>3, <2>4, <2>5
<1>8. ASSUME NEW e \in rest
      PROVE  Minus(e.seq, Plus(s, n)) \in 1 .. Window
  <2>1. e.seq \in SeqNums /\ e \in queue
    BY DEF DeferEntry
  <2>2. Minus(e.seq, s) \in 0 .. Window /\ Minus(e.seq, s) \in Nat
    BY <1>2, <2>1 DEF QueueFrom
  <2>3. Minus(e.seq, s) # n
    <3>1. e.seq # Plus(s, n)
      BY <1>1, <2>1 DEF Contains
    <3> QED
      BY <3>1, <1>2, <2>1, PlusMinus
  <2>4. ~ (Minus(e.seq, s) < n)
    <3> SUFFICES ASSUME Minus(e.seq, s) < n
                 PROVE  FALSE
      OBVIOUS
    <3> DEFINE i == Minus(e.seq, s) + 1
    <3>1. /\ i \in 1 .. n /\ i - 1 \in 0 .. n - 1 /\ i - 1 = Minus(e.seq, s)
          /\ i - 1 \in 0 .. SeqMod - 1
      BY <1>2, <2>2
    <3>2. e.seq = Plus(s, i - 1)
      BY <1>2, <2>1, <3>1, PlusMinus
    <3>3. run[i] \in queue /\ run[i].seq = e.seq
      BY <1>1, <1>3, <3>1, <3>2, EntryFound
    <3>4. run[i] = e
      BY <2>1, <3>3 DEF QueueFrom
    <3>5. e \in Range(run)
      BY <1>5, <3>1, <3>4 DEF Range
    <3> QED
      BY <3>5
  <2>5. Minus(e.seq, Plus(s, n)) = Minus(e.seq, s) - n
    <3>1. n <= Minus(e.seq, s)
      BY <1>2, <2>2, <2>4
    <3> QED
      BY <1>2, <2>1, <3>1, MinusShift
  <2> QED
    BY <1>2, <2>2, <2>3, <2>4, <2>5
<1>9. QueueFrom(rest, Plus(s, n), 1)
  BY <1>8 DEF QueueFrom
<1> QED
  BY <1>1, <1>6, <1>7, <1>9 DEF run

-----------------------------------------------------------------------------
(* The operations, one lemma each.                                         *)

(* redrbf_AddToBuffer adds as many messages as there is room for.          *)
LEMMA AddToBufferFits ==
  ASSUME NEW c \in Channel, NEW p \in Seq(Payloads),
         Len(p) <= FreeBufferEntries(c)
  PROVE  /\ AddToBuffer(c, p) = [c EXCEPT !.rxBuffer = c.rxBuffer \o p]
         /\ c.rxBuffer \o p \in Seq(Payloads)
         /\ Len(c.rxBuffer \o p) = Len(c.rxBuffer) + Len(p)
         /\ Len(c.rxBuffer) \in Nat /\ Len(p) \in Nat
<1>1. c.rxBuffer \in Seq(Payloads)
  BY DEF Channel
<1>2. /\ c.rxBuffer \o p \in Seq(Payloads)
      /\ Len(c.rxBuffer \o p) = Len(c.rxBuffer) + Len(p)
  BY <1>1, ConcatProperties
<1>3. Len(c.rxBuffer) \in Nat /\ Len(p) \in Nat
  BY <1>1, LenProperties
<1> QED
  BY <1>2, <1>3 DEF AddToBuffer

(* What the run of c carries for the layer above.                          *)
Delivered(c) ==
  [i \in 1 .. RunLength(c.deferQueue, c.seqRx) |-> Run(c.deferQueue, c.seqRx)[i].payload]

(* DeliverDeferQueue has room for what it delivers.                        *)
LEMMA DeliverDeferQueueEffect ==
  ASSUME NEW c, Deliverable(c)
  PROVE  /\ RunLength(c.deferQueue, c.seqRx) \in Nat
         /\ Delivered(c) \in Seq(Payloads)
         /\ Len(Delivered(c)) = RunLength(c.deferQueue, c.seqRx)
         /\ c.rxBuffer \o Delivered(c) \in Seq(Payloads)
         /\ Len(c.rxBuffer \o Delivered(c))
              = Len(c.rxBuffer) + RunLength(c.deferQueue, c.seqRx)
         /\ DeliverDeferQueue(c) =
              [c EXCEPT !.rxBuffer = c.rxBuffer \o Delivered(c),
                        !.deferQueue = c.deferQueue \ Range(Run(c.deferQueue, c.seqRx)),
                        !.seqRx = Plus(c.seqRx, RunLength(c.deferQueue, c.seqRx))]
<1> DEFINE run == Run(c.deferQueue, c.seqRx)
           n == RunLength(c.deferQueue, c.seqRx)
           p == Delivered(c)
<1>1. /\ c \in Channel
      /\ c.deferQueue \in SUBSET DeferEntry /\ IsFiniteSet(c.deferQueue)
      /\ c.seqRx \in SeqNums
      /\ QueueFrom(c.deferQueue, c.seqRx, 0)
      /\ FreeBufferEntries(c) >= Cardinality(c.deferQueue)
  BY DEF Deliverable, Sound, Channel, UsedEntries
<1>2. /\ n \in 0 .. Cardinality(c.deferQueue)
      /\ run \in Seq(DeferEntry)
      /\ Len(run) = n
  BY <1>1, RunDelivered
<1>3. /\ n \in Nat /\ Cardinality(c.deferQueue) \in Nat /\ RxBufferSize \in Nat
  BY <1>1, <1>2, FS_CardinalityType, RedChannelAssumption
<1>4. p = [i \in 1 .. n |-> run[i].payload] /\ DOMAIN run = 1 .. n
  BY <1>2, LenProperties DEF Delivered
<1> HIDE DEF n, run, p
<1>5. p \in Seq(Payloads) /\ Len(p) = n
  <2>1. run \in [1 .. n -> DeferEntry]
    BY <1>2, LenProperties
  <2>2. p \in [1 .. n -> Payloads]
    BY <1>4, <2>1 DEF DeferEntry
  <2> QED
    BY <2>2, <1>3
<1>6. /\ AddToBuffer(c, p) = [c EXCEPT !.rxBuffer = c.rxBuffer \o p]
      /\ c.rxBuffer \o p \in Seq(Payloads)
      /\ Len(c.rxBuffer \o p) = Len(c.rxBuffer) + n
  <2>1. Len(p) <= FreeBufferEntries(c)
    <3>1. FreeBufferEntries(c) \in Int
      BY <1>1, <1>3, LenProperties DEF FreeBufferEntries, Channel
    <3> QED
      BY <1>1, <1>2, <1>3, <1>5, <3>1
  <2> QED
    BY <1>1, <1>5, <2>1, AddToBufferFits
<1>7. DeliverDeferQueue(c) =
        [c EXCEPT !.rxBuffer = c.rxBuffer \o p, !.deferQueue = c.deferQueue \ Range(run),
                  !.seqRx = Plus(c.seqRx, n)]
  <2>1. DeliverDeferQueue(c) =
          [AddToBuffer(c, p) EXCEPT !.deferQueue = @ \ Range(run),
                                    !.seqRx = Plus(@, Len(run))]
    BY <1>4 DEF DeliverDeferQueue, run
  <2> QED
    BY <1>1, <1>2, <1>6, <2>1 DEF Channel
<1> QED
  BY <1>3, <1>5, <1>6, <1>7 DEF n, run, p

(* It leaves no message in the queue that is not strictly ahead of the new *)
(* seq_rx.                                                                 *)
LEMMA DeliverDeferQueueKeeps ==
  ASSUME NEW c, Deliverable(c)
  PROVE  ChannelInv(DeliverDeferQueue(c))
<1> DEFINE n == RunLength(c.deferQueue, c.seqRx)
           p == Delivered(c)
           rest == c.deferQueue \ Range(Run(c.deferQueue, c.seqRx))
           d == DeliverDeferQueue(c)
<1>1. /\ c \in Channel /\ ~ c.fatal
      /\ c.deferQueue \in SUBSET DeferEntry /\ IsFiniteSet(c.deferQueue)
      /\ c.seqRx \in SeqNums
      /\ QueueFrom(c.deferQueue, c.seqRx, 0)
      /\ FreeBufferEntries(c) >= Cardinality(c.deferQueue)
  BY DEF Deliverable, Sound, Channel, UsedEntries
<1>2. /\ n \in 0 .. Cardinality(c.deferQueue)
      /\ n \in 0 .. Window + 1
      /\ IsFiniteSet(rest)
      /\ Cardinality(rest) = Cardinality(c.deferQueue) - n
      /\ QueueFrom(rest, Plus(c.seqRx, n), 1)
  BY <1>1, RunDelivered
<1>3. /\ n \in Nat /\ n \in SeqNums /\ Cardinality(c.deferQueue) \in Nat
      /\ RxBufferSize \in Nat /\ Len(c.rxBuffer) \in Nat
  BY <1>1, <1>2, WindowBound, FS_CardinalityType, RedChannelAssumption, LenProperties
     DEF SeqNums, SeqMod, Channel
<1>4. /\ d = [c EXCEPT !.rxBuffer = c.rxBuffer \o p, !.deferQueue = rest,
                       !.seqRx = Plus(c.seqRx, n)]
      /\ c.rxBuffer \o p \in Seq(Payloads)
      /\ Len(c.rxBuffer \o p) = Len(c.rxBuffer) + n
  BY DeliverDeferQueueEffect
<1>5. rest \in SUBSET DeferEntry /\ Plus(c.seqRx, n) \in SeqNums
  BY <1>1, <1>3, SeqNumsClosed
<1> HIDE DEF d, rest, n, p
<1>6. /\ d \in Channel /\ ~ d.fatal /\ d.deferQueue = rest
      /\ d.rxBuffer = c.rxBuffer \o p /\ d.seqRx = Plus(c.seqRx, n)
  BY <1>1, <1>4, <1>5 DEF Channel
<1>7. FreeBufferEntries(d) >= UsedEntries(d)
  <2>1. Len(d.rxBuffer) = Len(c.rxBuffer) + n
    BY <1>4, <1>6
  <2>2. RxBufferSize - Len(c.rxBuffer) >= Cardinality(c.deferQueue)
    BY <1>1 DEF FreeBufferEntries
  <2>3. Cardinality(d.deferQueue) = Cardinality(c.deferQueue) - n
    BY <1>2, <1>6
  <2> QED
    BY <1>3, <2>1, <2>2, <2>3 DEF FreeBufferEntries, UsedEntries
<1> QED
  BY <1>2, <1>6, <1>7 DEF ChannelInv, Sound, d

(* reddfq_GetOldestSequenceNumber finds a message that none of the others  *)
(* is behind.                                                              *)
LEMMA OldestFound ==
  ASSUME NEW c, ChannelInv(c), c.deferQueue # {}
  PROVE  \E old \in c.deferQueue :
           /\ OldestSequenceNumber(c.deferQueue) = old.seq
           /\ \A e \in c.deferQueue :
                /\ Minus(old.seq, c.seqRx) <= Minus(e.seq, c.seqRx)
                /\ Minus(e.seq, old.seq) \in 0 .. Window
<1> DEFINE q == c.deferQueue
           s == c.seqRx
           D == {d \in Nat : \E e \in q : Minus(e.seq, s) = d}
           Oldest(e) == \A f \in q : ~ IsSequenceNumberOlder(f.seq, e.seq)
           old == CHOOSE e \in q : Oldest(e)
<1>1. /\ Sound(c) /\ c \in Channel /\ s \in SeqNums
      /\ \A e, f \in q : e.seq = f.seq => e = f
      /\ Window \in Nat /\ Window + 1 < Half /\ Half \in Nat
  BY WindowBound DEF ChannelInv, Sound, Channel, QueueFrom
<1>2. ASSUME NEW e \in q
      PROVE  /\ e.seq \in SeqNums
             /\ Minus(e.seq, s) \in 1 .. Window
             /\ Minus(e.seq, s) \in Nat
             /\ Minus(e.seq, s) < Half
  <2>1. e.seq \in SeqNums
    BY <1>1 DEF Channel, DeferEntry
  <2>2. Minus(e.seq, s) \in 1 .. Window
    BY DEF ChannelInv, QueueFrom
  <2> QED
    BY <1>1, <2>1, <2>2
<1>3. PICK m \in q : \A f \in q : Minus(m.seq, s) <= Minus(f.seq, s)
  <2>1. D \in SUBSET Nat /\ D # {}
    BY <1>2
  <2>2. PICK d \in D : \A n \in D : d <= n
    <3> HIDE DEF D
    <3> QED
      BY <2>1, LeastNatural
  <2>3. PICK e \in q : Minus(e.seq, s) = d
    BY <2>2
  <2>4. \A f \in q : Minus(f.seq, s) \in D
    BY <1>2
  <2> QED
    BY <2>2, <2>3, <2>4
<1>4. Oldest(m)
  <2> SUFFICES ASSUME NEW f \in q, IsSequenceNumberOlder(f.seq, m.seq)
               PROVE  FALSE
    OBVIOUS
  <2>1. Minus(f.seq, s) < Minus(m.seq, s)
    BY <1>1, <1>2, OlderIsNearer
  <2> QED
    BY <1>2, <1>3, <2>1
<1>5. old \in q /\ Oldest(old)
  <2> HIDE DEF Oldest
  <2> QED
    BY <1>4
<1>6. OldestSequenceNumber(c.deferQueue) = old.seq
  BY DEF OldestSequenceNumber
<1> HIDE DEF old
<1>7. ASSUME NEW e \in q
      PROVE  /\ Minus(old.seq, s) <= Minus(e.seq, s)
             /\ Minus(e.seq, old.seq) \in 0 .. Window
  <2>1. ~ IsSequenceNumberOlder(e.seq, old.seq)
    BY <1>5
  <2>2. ~ (Minus(e.seq, s) < Minus(old.seq, s))
    BY <1>1, <1>2, <1>5, <2>1, OlderIsNearer
  <2>3. Minus(old.seq, s) <= Minus(e.seq, s)
    BY <1>2, <1>5, <2>2
  <2>4. Minus(e.seq, old.seq) = Minus(e.seq, s) - Minus(old.seq, s)
    BY <1>1, <1>2, <1>5, <2>3, OlderIsNearer
  <2> QED
    BY <1>1, <1>2, <1>5, <2>3, <2>4
<1> QED
  BY <1>5, <1>6, <1>7

(* When the oldest message of the queue timed out, the channel goes on     *)
(* from it.                                                                *)
LEMMA DeliverableFromOldest ==
  ASSUME NEW c, ChannelInv(c), c.deferQueue # {}
  PROVE  Deliverable([c EXCEPT !.seqRx = OldestSequenceNumber(c.deferQueue)])
<1> DEFINE b == [c EXCEPT !.seqRx = OldestSequenceNumber(c.deferQueue)]
<1>1. PICK old \in c.deferQueue :
        /\ OldestSequenceNumber(c.deferQueue) = old.seq
        /\ \A e \in c.deferQueue : Minus(e.seq, old.seq) \in 0 .. Window
  BY OldestFound
<1>2. /\ Sound(c) /\ c \in Channel /\ old.seq \in SeqNums
      /\ \A e, f \in c.deferQueue : e.seq = f.seq => e = f
  BY DEF ChannelInv, Sound, QueueFrom, Channel, DeferEntry
<1>3. b = [c EXCEPT !.seqRx = old.seq]
  BY <1>1
<1>4. /\ b \in Channel /\ b.deferQueue = c.deferQueue /\ b.seqRx = old.seq
      /\ b.rxBuffer = c.rxBuffer /\ b.fatal = c.fatal
  BY <1>2, <1>3 DEF Channel
<1> HIDE DEF b
<1>5. Sound(b)
  BY <1>2, <1>4 DEF Sound, FreeBufferEntries, UsedEntries
<1>6. QueueFrom(b.deferQueue, b.seqRx, 0)
  BY <1>1, <1>2, <1>4 DEF QueueFrom
<1> QED
  BY <1>5, <1>6 DEF Deliverable, b

(* redcor_DeferQueueTimeout                                                *)
LEMMA DeferQueueTimeoutKeeps ==
  ASSUME NEW c, ChannelInv(c), c.deferQueue # {}
  PROVE  ChannelInv(DeferQueueTimeout(c))
BY DeliverableFromOldest, DeliverDeferQueueKeeps DEF DeferQueueTimeout

(* A message in sequence takes one entry of the received buffer; the       *)
(* deferred ones may be due now.                                           *)
LEMMA DeliverableInSequence ==
  ASSUME NEW c, ChannelInv(c), RoomToReceive(c), NEW pdu \in PDU
  PROVE  /\ Deliverable([AddToBuffer(c, <<pdu.payload>>) EXCEPT !.seqRx = Plus(@, 1)])
         /\ [AddToBuffer(c, <<pdu.payload>>) EXCEPT !.seqRx = Plus(@, 1)] =
              [c EXCEPT !.rxBuffer = c.rxBuffer \o <<pdu.payload>>,
                        !.seqRx = Plus(c.seqRx, 1)]
<1> DEFINE p == <<pdu.payload>>
           b == [AddToBuffer(c, p) EXCEPT !.seqRx = Plus(@, 1)]
<1>1. /\ c \in Channel /\ ~ c.fatal /\ IsFiniteSet(c.deferQueue)
      /\ c.seqRx \in SeqNums /\ c.deferQueue \in SUBSET DeferEntry
      /\ Cardinality(c.deferQueue) \in Nat /\ RxBufferSize \in Nat
      /\ Window \in Nat /\ 1 \in SeqNums
  BY WindowBound, FS_CardinalityType, RedChannelAssumption, HalfAssumption
     DEF ChannelInv, Sound, Channel, SeqNums, SeqMod
<1>2. /\ p \in Seq(Payloads) /\ Len(p) = 1
  BY DEF PDU
<1> HIDE DEF p
<1>3. Len(c.rxBuffer) \in Nat /\ RxBufferSize - Len(c.rxBuffer) > Cardinality(c.deferQueue)
  BY <1>1, LenProperties DEF RoomToReceive, FreeBufferEntries, UsedEntries, Channel
<1>4. /\ AddToBuffer(c, p) = [c EXCEPT !.rxBuffer = c.rxBuffer \o p]
      /\ c.rxBuffer \o p \in Seq(Payloads)
      /\ Len(c.rxBuffer \o p) = Len(c.rxBuffer) + 1
  <2>1. Len(p) <= FreeBufferEntries(c)
    BY <1>1, <1>2, <1>3 DEF FreeBufferEntries
  <2> QED
    BY <1>1, <1>2, <2>1, AddToBufferFits
<1>5. /\ b \in Channel /\ ~ b.fatal /\ b.deferQueue = c.deferQueue
      /\ b.rxBuffer = c.rxBuffer \o p /\ b.seqRx = Plus(c.seqRx, 1)
  <2>1. Plus(c.seqRx, 1) \in SeqNums
    BY <1>1, SeqNumsClosed
  <2> QED
    BY <1>1, <1>4, <2>1 DEF Channel
<1>6. b = [c EXCEPT !.rxBuffer = c.rxBuffer \o p, !.seqRx = Plus(c.seqRx, 1)]
  BY <1>1, <1>4 DEF Channel
<1> HIDE DEF b
<1>7. Sound(b)
  BY <1>1, <1>3, <1>4, <1>5 DEF Sound, FreeBufferEntries, UsedEntries
<1>8. QueueFrom(b.deferQueue, b.seqRx, 0)
  <2>1. ASSUME NEW e \in c.deferQueue
        PROVE  Minus(e.seq, Plus(c.seqRx, 1)) \in 0 .. Window
    <3>1. e.seq \in SeqNums
      BY <1>1 DEF DeferEntry
    <3>2. Minus(e.seq, c.seqRx) \in 1 .. Window
      BY DEF ChannelInv, QueueFrom
    <3>3. 1 <= Minus(e.seq, c.seqRx) /\ 1 \in Nat
      BY <1>1, <3>2
    <3>4. Minus(e.seq, Plus(c.seqRx, 1)) = Minus(e.seq, c.seqRx) - 1
      BY <1>1, <3>1, <3>3, MinusShift
    <3> QED
      BY <1>1, <3>2, <3>4
  <2>2. \A e, f \in c.deferQueue : e.seq = f.seq => e = f
    BY DEF ChannelInv, QueueFrom
  <2> QED
    BY <1>5, <2>1, <2>2 DEF QueueFrom
<1>9. Deliverable(b)
  BY <1>7, <1>8 DEF Deliverable
<1> QED
  BY <1>6, <1>9 DEF b, p

(* Delivering it keeps the invariant.                                      *)
LEMMA DeliverInSequenceKeeps ==
  ASSUME NEW c, ChannelInv(c), RoomToReceive(c), NEW pdu \in PDU
  PROVE  ChannelInv(DeliverInSequence(c, pdu))
BY DeliverableInSequence, DeliverDeferQueueKeeps DEF DeliverInSequence

(* A PDU is deferred only when there is room for it, ahead of seq_rx and   *)
(* for the first time.                                                     *)
LEMMA ProcessReceivedMessageKeeps ==
  ASSUME NEW c, ChannelInv(c), RoomToReceive(c), NEW pdu \in PDU
  PROVE  ChannelInv(ProcessReceivedMessage(c, pdu))
<1> DEFINE b == [c EXCEPT !.deferQueue = AddMessage(@, pdu)]
           x == [seq |-> pdu.seq, payload |-> pdu.payload, age |-> 0]
<1>1. CASE ProcessReceivedMessage(c, pdu) = c
  BY <1>1
<1>2. CASE ProcessReceivedMessage(c, pdu) = DeliverInSequence(c, pdu)
  BY <1>2, DeliverInSequenceKeeps
<1>3. CASE /\ ProcessReceivedMessage(c, pdu) = b
           /\ ~ IsSequenceNumberOlder(pdu.seq, c.seqRx)
           /\ pdu.seq # c.seqRx
           /\ InWindow(c, pdu)
           /\ ~ Contains(c.deferQueue, pdu.seq)
           /\ Cardinality(c.deferQueue) < DeferQueueSize
  <2>1. /\ c \in Channel /\ ~ c.fatal /\ IsFiniteSet(c.deferQueue)
        /\ c.seqRx \in SeqNums /\ c.deferQueue \in SUBSET DeferEntry
        /\ Cardinality(c.deferQueue) \in Nat
        /\ pdu.seq \in SeqNums
    BY FS_CardinalityType DEF ChannelInv, Sound, Channel, PDU
  <2>2. /\ x \in DeferEntry /\ x.seq = pdu.seq /\ x \notin c.deferQueue
    BY <1>3, RedChannelAssumption DEF DeferEntry, PDU, Contains
  <2> HIDE DEF x
  <2>3. /\ b.deferQueue = c.deferQueue \cup {x} /\ b \in Channel /\ ~ b.fatal
        /\ b.rxBuffer = c.rxBuffer /\ b.seqRx = c.seqRx
    BY <1>3, <2>1, <2>2 DEF Channel, AddMessage, x
  <2> HIDE DEF b
  <2>4. /\ IsFiniteSet(b.deferQueue)
        /\ Cardinality(b.deferQueue) = Cardinality(c.deferQueue) + 1
    <3>1. /\ IsFiniteSet(c.deferQueue \cup {x})
          /\ Cardinality(c.deferQueue \cup {x}) =
               IF x \in c.deferQueue THEN Cardinality(c.deferQueue) ELSE Cardinality(c.deferQueue) + 1
      BY <2>1, FS_AddElement, Zenon
    <3> QED
      BY <2>2, <2>3, <3>1
  <2>5. FreeBufferEntries(b) >= UsedEntries(b)
    <3>1. Len(c.rxBuffer) \in Nat /\ RxBufferSize \in Nat
      BY <2>1, LenProperties, RedChannelAssumption DEF Channel
    <3> QED
      BY <3>1, <2>1, <2>3, <2>4 DEF RoomToReceive, FreeBufferEntries, UsedEntries
  <2>6. Minus(x.seq, c.seqRx) \in 1 .. Window
    BY <1>3, <2>1, <2>2, WindowTest DEF InWindow
  <2>7. QueueFrom(b.deferQueue, b.seqRx, 1)
    <3>1. QueueFrom(c.deferQueue, c.seqRx, 1)
      BY DEF ChannelInv
    <3>2. \A e \in b.deferQueue : Minus(e.seq, b.seqRx) \in 1 .. Window
      BY <2>3, <2>6, <3>1 DEF QueueFrom
    <3>3. \A e, f \in b.deferQueue : e.seq = f.seq => e = f
      BY <1>3, <2>2, <2>3, <3>1 DEF QueueFrom, Contains
    <3> QED
      BY <3>2, <3>3 DEF QueueFrom
  <2>8. ChannelInv(b)
    BY <2>3, <2>4, <2>5, <2>7 DEF ChannelInv, Sound
  <2> QED
    BY <1>3, <2>8
<1>4. CASE /\ ProcessReceivedMessage(c, pdu) = b
           /\ ~ (Cardinality(c.deferQueue) < DeferQueueSize)
  <2>1. b = c
    BY <1>4 DEF AddMessage, ChannelInv, Sound, Channel
  <2> QED
    BY <1>4, <2>1
<1> QED
  BY <1>1, <1>2, <1>3, <1>4 DEF ProcessReceivedMessage

(* Event ReceiveData, in either state.                                     *)
LEMMA ReceiveDataKeeps ==
  ASSUME NEW c, ChannelInv(c), RoomToReceive(c), NEW pdu \in PDU
  PROVE  ChannelInv(ReceiveData(c, pdu))
BY ProcessReceivedMessageKeeps DEF ReceiveData

(* What ChannelInv says of a channel depends on four of its fields only.   *)
LEMMA SameData ==
  ASSUME NEW c, ChannelInv(c), NEW d \in Channel,
         d.seqRx = c.seqRx, d.deferQueue = c.deferQueue,
         d.rxBuffer = c.rxBuffer, d.fatal = c.fatal
  PROVE  ChannelInv(d)
BY DEF ChannelInv, Sound, FreeBufferEntries, UsedEntries

(* A channel without data.                                                 *)
LEMMA EmptyChannelInv ==
  ASSUME NEW c \in Channel, c.deferQueue = {}, c.rxBuffer = <<>>, ~ c.fatal
  PROVE  ChannelInv(c)
<1>1. IsFiniteSet({}) /\ Cardinality({}) = 0 /\ Len(<<>>) = 0
  BY FS_EmptySet
<1>2. FreeBufferEntries(c) >= UsedEntries(c)
  BY <1>1, RedChannelAssumption DEF FreeBufferEntries, UsedEntries
<1> QED
  BY <1>1, <1>2 DEF ChannelInv, Sound, QueueFrom

(* redint_Init                                                             *)
LEMMA InitialChannelInv == ChannelInv(InitialChannel)
<1>1. /\ InitialChannel \in Channel /\ ~ InitialChannel.fatal
      /\ InitialChannel.deferQueue = {} /\ InitialChannel.rxBuffer = <<>>
  BY RedChannelAssumption, HalfAssumption
     DEF InitialChannel, Channel, SeqNums, SeqMod, Transports
<1> QED
  BY <1>1, EmptyChannelInv

(* redint_OpenRedundancyChannel and redint_CloseRedundancyChannel.         *)
LEMMA OpenCloseKeeps ==
  ASSUME NEW c, ChannelInv(c)
  PROVE  ChannelInv(OpenRedundancyChannel(c)) /\ ChannelInv(CloseRedundancyChannel(c))
<1>1. c \in Channel /\ ~ c.fatal /\ 0 \in SeqNums /\ 0 \in Transports
  BY RedChannelAssumption, HalfAssumption
     DEF ChannelInv, Sound, SeqNums, SeqMod, Transports
<1>2. [t \in Transports |-> FALSE] \in [Transports -> BOOLEAN]
  OBVIOUS
<1>3. ASSUME NEW d, \/ d = [InitRedundancyChannelData(c) EXCEPT !.state = "Up", !.pollIndex = 0]
                    \/ d = [InitRedundancyChannelData(c) EXCEPT !.state = "Closed"]
      PROVE  ChannelInv(d)
  <2>1. /\ d \in Channel /\ ~ d.fatal /\ d.deferQueue = {} /\ d.rxBuffer = <<>>
    BY <1>1, <1>2, <1>3 DEF Channel, InitRedundancyChannelData
  <2> QED
    BY <2>1, EmptyChannelInv
<1>4. ChannelInv([c EXCEPT !.pollIndex = 0])
  <2> DEFINE d == [c EXCEPT !.pollIndex = 0]
  <2>1. /\ d \in Channel /\ d.seqRx = c.seqRx /\ d.deferQueue = c.deferQueue
        /\ d.rxBuffer = c.rxBuffer /\ d.fatal = c.fatal
    BY <1>1 DEF Channel
  <2> QED
    BY <2>1, SameData
<1> QED
  BY <1>3, <1>4 DEF OpenRedundancyChannel, CloseRedundancyChannel

(* redcor_SendMessage                                                      *)
LEMMA SendKeeps ==
  ASSUME NEW c, ChannelInv(c)
  PROVE  ChannelInv(SendMessage(c))
<1>1. c \in Channel /\ Plus(c.seqTx, 1) \in SeqNums
  <2>1. c \in Channel /\ c.seqTx \in SeqNums
    BY DEF ChannelInv, Sound, Channel
  <2>2. 1 \in SeqNums
    BY HalfAssumption DEF SeqNums, SeqMod
  <2> QED
    BY <2>1, <2>2, SeqNumsClosed
<1>2. /\ SendMessage(c) \in Channel /\ SendMessage(c).seqRx = c.seqRx
      /\ SendMessage(c).deferQueue = c.deferQueue
      /\ SendMessage(c).rxBuffer = c.rxBuffer /\ SendMessage(c).fatal = c.fatal
  BY <1>1 DEF SendMessage, Channel
<1> QED
  BY <1>2, SameData

(* redint_ReadMessage makes room in the received buffer.                   *)
LEMMA ReadKeeps ==
  ASSUME NEW c, ChannelInv(c), c.rxBuffer # <<>>
  PROVE  ChannelInv(ReadFromBuffer(c))
<1> DEFINE d == ReadFromBuffer(c)
<1>1. /\ c \in Channel /\ c.rxBuffer \in Seq(Payloads)
      /\ IsFiniteSet(c.deferQueue) /\ Cardinality(c.deferQueue) \in Nat
      /\ RxBufferSize \in Nat
  BY FS_CardinalityType, RedChannelAssumption DEF ChannelInv, Sound, Channel
<1>2. /\ Tail(c.rxBuffer) \in Seq(Payloads) /\ Len(Tail(c.rxBuffer)) = Len(c.rxBuffer) - 1
      /\ Len(c.rxBuffer) \in Nat
  BY <1>1, HeadTailProperties, LenProperties
<1>3. /\ d \in Channel /\ d.seqRx = c.seqRx /\ d.deferQueue = c.deferQueue
      /\ d.rxBuffer = Tail(c.rxBuffer) /\ d.fatal = c.fatal
  BY <1>1, <1>2 DEF ReadFromBuffer, Channel
<1> HIDE DEF d
<1>4. FreeBufferEntries(d) >= UsedEntries(d)
  BY <1>1, <1>2, <1>3 DEF ChannelInv, Sound, FreeBufferEntries, UsedEntries
<1>5. ChannelInv(d)
  BY <1>3, <1>4 DEF ChannelInv, Sound
<1> QED
  BY <1>5 DEF d

(* The timer leaves the sequence numbers of the queue and its size alone.  *)
LEMMA AgeKeeps ==
  ASSUME NEW c, ChannelInv(c)
  PROVE  ChannelInv(AgeDeferQueue(c))
<1> DEFINE older(e) == [e EXCEPT !.age = IF @ > TSeq THEN @ ELSE @ + 1]
           f == [e \in c.deferQueue |-> older(e)]
           aged == {older(e) : e \in c.deferQueue}
           d == AgeDeferQueue(c)
<1>1. /\ c \in Channel /\ IsFiniteSet(c.deferQueue) /\ ~ c.fatal
      /\ c.deferQueue \in SUBSET DeferEntry /\ Cardinality(c.deferQueue) \in Nat
      /\ RxBufferSize \in Nat /\ TSeq \in Nat /\ Len(c.rxBuffer) \in Nat
      /\ QueueFrom(c.deferQueue, c.seqRx, 1)
  BY FS_CardinalityType, RedChannelAssumption, LenProperties
     DEF ChannelInv, Sound, Channel
<1>2. ASSUME NEW e \in c.deferQueue
      PROVE  older(e) \in DeferEntry /\ older(e).seq = e.seq
  BY <1>1 DEF DeferEntry
<1>3. IsFiniteSet(aged) /\ Cardinality(aged) <= Cardinality(c.deferQueue)
  <2>1. f \in [c.deferQueue -> aged] /\ \A a \in aged : \E e \in c.deferQueue : f[e] = a
    OBVIOUS
  <2> HIDE DEF f, aged
  <2>2. f \in Surjection(c.deferQueue, aged)
    BY <2>1, Fun_IsSurj
  <2> QED
    BY <1>1, <2>2, FS_Surjection
<1>4. QueueFrom(aged, c.seqRx, 1)
  <2>1. \A a \in aged : Minus(a.seq, c.seqRx) \in 1 .. Window
    BY <1>1, <1>2 DEF QueueFrom
  <2>2. \A a, b \in aged : a.seq = b.seq => a = b
    <3> SUFFICES ASSUME NEW a \in aged, NEW b \in aged, a.seq = b.seq
                 PROVE  a = b
      BY Zenon
    <3>1. PICK e \in c.deferQueue : a = older(e)
      BY Zenon
    <3>2. PICK g \in c.deferQueue : b = older(g)
      BY Zenon
    <3>3. e.seq = g.seq
      BY <1>2, <3>1, <3>2
    <3>4. e = g
      BY <1>1, <3>3 DEF QueueFrom
    <3> QED
      BY <3>1, <3>2, <3>4, Zenon
  <2> QED
    BY <2>1, <2>2 DEF QueueFrom
<1>5. aged \in SUBSET DeferEntry
  BY <1>2
<1>6. d = [c EXCEPT !.deferQueue = aged]
  BY <1>1 DEF AgeDeferQueue, Channel
<1> HIDE DEF aged, d
<1>7. /\ d \in Channel /\ d.seqRx = c.seqRx /\ d.deferQueue = aged
      /\ d.rxBuffer = c.rxBuffer /\ d.fatal = c.fatal
  BY <1>1, <1>5, <1>6 DEF Channel
<1>8. FreeBufferEntries(d) >= UsedEntries(d)
  <2>1. Cardinality(aged) \in Nat
    BY <1>3, FS_CardinalityType
  <2> QED
    BY <1>1, <1>3, <1>7, <2>1 DEF ChannelInv, Sound, FreeBufferEntries, UsedEntries
<1>9. ChannelInv(d)
  BY <1>1, <1>3, <1>4, <1>7, <1>8 DEF ChannelInv, Sound
<1> QED
  BY <1>9 DEF d

(* The calls of redint and redtrn that may process a message: they ask for *)
(* room first.                                                             *)
LEMMA NotifiedKeeps ==
  ASSUME NEW c, ChannelInv(c), NEW t \in Transports, NEW queue \in Seq(PDU)
  PROVE  ChannelInv(NotifiedChannel(c, t, queue))
<1>1. ASSUME NEW v \in BOOLEAN
      PROVE  ChannelInv([c EXCEPT !.pending[t] = v])
  <2> DEFINE d == [c EXCEPT !.pending[t] = v]
  <2>1. /\ d \in Channel /\ d.seqRx = c.seqRx /\ d.deferQueue = c.deferQueue
        /\ d.rxBuffer = c.rxBuffer /\ d.fatal = c.fatal
    BY DEF ChannelInv, Sound, Channel
  <2> QED
    BY <2>1, SameData
<1>2. queue # <<>> => Head(queue) \in PDU
  BY HeadTailProperties
<1>3. queue # <<>> /\ RoomToReceive(c) => ChannelInv(ReceiveData(c, Head(queue)))
  BY <1>2, ReceiveDataKeeps
<1> QED
  BY <1>1, <1>3 DEF NotifiedChannel

(* An iteration of ReceivedMessagesPolling, which runs only while there is *)
(* room, processes at most one message.                                    *)
LEMMA PolledKeeps ==
  ASSUME NEW c, ChannelInv(c), PollingGoesOn(c), NEW queue \in Seq(PDU)
  PROVE  ChannelInv(PolledChannel(c, queue))
<1> DEFINE t == c.pollIndex
           next == IF t + 1 = NumTransports THEN 0 ELSE t + 1
<1>1. t \in Transports /\ next \in Transports /\ RoomToReceive(c)
  BY RedChannelAssumption DEF ChannelInv, Sound, Channel, PollingGoesOn, Transports
<1> HIDE DEF next
<1>2. ASSUME NEW b, ChannelInv(b)
      PROVE  ChannelInv([b EXCEPT !.pollIndex = next])
  <2> DEFINE d == [b EXCEPT !.pollIndex = next]
  <2>1. /\ d \in Channel /\ d.seqRx = b.seqRx /\ d.deferQueue = b.deferQueue
        /\ d.rxBuffer = b.rxBuffer /\ d.fatal = b.fatal
    BY <1>1, <1>2 DEF ChannelInv, Sound, Channel
  <2> QED
    BY <1>2, <2>1, SameData
<1>3. ChannelInv([c EXCEPT !.pending[t] = FALSE])
  <2> DEFINE d == [c EXCEPT !.pending[t] = FALSE]
  <2>1. /\ d \in Channel /\ d.seqRx = c.seqRx /\ d.deferQueue = c.deferQueue
        /\ d.rxBuffer = c.rxBuffer /\ d.fatal = c.fatal
    BY <1>1 DEF ChannelInv, Sound, Channel
  <2> QED
    BY <2>1, SameData
<1>4. queue # <<>> => ChannelInv(ReceiveData(c, Head(queue)))
  <2>1. queue # <<>> => Head(queue) \in PDU
    BY HeadTailProperties
  <2> QED
    BY <1>1, <2>1, ReceiveDataKeeps
<1> DEFINE received == CASE ~ c.pending[t] -> c
                         [] c.pending[t] /\ queue = <<>> -> [c EXCEPT !.pending[t] = FALSE]
                         [] OTHER -> ReceiveData(c, Head(queue))
<1>5. ChannelInv(received)
  BY <1>3, <1>4
<1>6. PolledChannel(c, queue) = [received EXCEPT !.pollIndex = next]
  BY DEF PolledChannel, next
<1> HIDE DEF received
<1> QED
  BY <1>2, <1>5, <1>6

(* redint_CheckTimings beyond its polling loop: the timeout of the defer   *)
(* queue, and what a closed channel discards.                              *)
LEMMA CheckTimingsKeeps ==
  ASSUME NEW c, ChannelInv(c)
  PROVE  ChannelInv(CheckDeferTimeout(c)) /\ ChannelInv(DiscardMessages(c))
<1>1. ChannelInv(CheckDeferTimeout(c))
  BY DeferQueueTimeoutKeeps DEF CheckDeferTimeout, IsTimeout
<1>2. /\ DiscardMessages(c) \in Channel /\ DiscardMessages(c).seqRx = c.seqRx
      /\ DiscardMessages(c).deferQueue = c.deferQueue
      /\ DiscardMessages(c).rxBuffer = c.rxBuffer /\ DiscardMessages(c).fatal = c.fatal
  BY DEF DiscardMessages, ChannelInv, Sound, Channel
<1> QED
  BY <1>1, <1>2, SameData
=============================================================================

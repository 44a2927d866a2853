------------------------ MODULE SrConnection_proofs ------------------------
(***************************************************************************)
(* What the operations of the safety and retransmission layer make of a    *)
(* connection, whatever message arrives: the numbers in its send buffer    *)
(* stay without a gap, its buffers do not overflow, and a message leaves   *)
(* it closed, with its timer set anew, or with the timer as it was.        *)
(***************************************************************************)
EXTENDS SrStateMachine, Arithmetic, SequenceTheorems

(* The messages of the buffer are numbered without a gap, up to the number *)
(* before sn.                                                              *)
Gapless(b, sn) ==
  \A i \in DOMAIN b.msgs : b.msgs[i].sn = Minus(sn, Len(b.msgs) + 1 - i)

(* A send buffer that is numbered so and holds at most `size' messages.    *)
Numbered(b, sn, size) ==
  b \in SendBuffer /\ Gapless(b, sn) /\ Len(b.msgs) <= size

-----------------------------------------------------------------------------
(* Sequence numbers.                                                       *)

(* The sizes as numbers.                                                   *)
LEMMA SizesKnown ==
  /\ Half \in Nat /\ SeqMod \in Nat /\ SeqMod = 2 * Half
  /\ SendBufferSize \in Nat /\ SendBufferSize < Half /\ SendBufferSize > 1
  /\ MaxNSendMax = SendBufferSize
  /\ TMax \in Nat /\ TMax > 0 /\ TMax < Half /\ Granularity \in 0 .. SeqMod - 1
BY HalfAssumption, SendBufferAssumption, ConnectionAssumption DEF SeqMod, SeqNums

(* Sums and differences of sequence numbers are sequence numbers.          *)
LEMMA PlusMinusType ==
  ASSUME NEW a \in SeqNums, NEW b \in SeqNums
  PROVE  Plus(a, b) \in SeqNums /\ Minus(a, b) \in SeqNums
BY SizesKnown DEF Plus, Minus, SeqNums

(* A distance below the next number is one more.                           *)
LEMMA NextDistance ==
  ASSUME NEW a \in SeqNums, NEW k \in 0 .. SeqMod - 2
  PROVE  Minus(Plus(a, 1), k + 1) = Minus(a, k)
BY SizesKnown DEF Plus, Minus, SeqNums

(* Numbers that are counted up from sn are distances below the end.        *)
LEMMA CountedUp ==
  ASSUME NEW sn \in SeqNums, NEW n \in 0 .. SeqMod - 1, NEW i \in 1 .. n
  PROVE  Plus(sn, i - 1) = Minus(Plus(sn, n), n + 1 - i)
BY SizesKnown DEF Plus, Minus, SeqNums

(* Zero, one and the sizes of buffers are sequence numbers.                *)
LEMMA SmallNumbers == 0 \in SeqNums /\ 1 \in SeqNums /\ \A n \in 0 .. SendBufferSize : n \in SeqNums
BY SizesKnown DEF SeqNums

-----------------------------------------------------------------------------
(* The send buffer.                                                        *)

(* A message that gets the next number.                                    *)
LEMMA AppendNumbered ==
  ASSUME NEW b, NEW sn \in SeqNums, NEW size, Numbered(b, sn, size), size \in Nat,
         size < SendBufferSize, NEW m \in Message, m.sn = sn
  PROVE  Numbered([b EXCEPT !.msgs = Append(@, m)], Plus(sn, 1), size + 1)
<1> DEFINE msgs == b.msgs
           after == Append(msgs, m)
           d == [b EXCEPT !.msgs = Append(@, m)]
<1>1. /\ b \in [msgs : Seq(Message), sent : Nat]
      /\ b.sent <= Len(msgs) /\ Len(msgs) <= SendBufferSize /\ Len(msgs) <= size
      /\ msgs \in Seq(Message) /\ Len(msgs) \in Nat /\ b.sent \in Nat
  BY DEF Numbered, SendBuffer
<1>2. d.msgs = after /\ d.sent = b.sent /\ d \in [msgs : Seq(Message), sent : Nat]
  BY <1>1
<1>3. Len(after) = Len(msgs) + 1 /\ DOMAIN after = 1 .. Len(msgs) + 1
  BY <1>1
<1>4. ASSUME NEW i \in 1 .. Len(msgs) + 1
      PROVE  after[i].sn = Minus(Plus(sn, 1), Len(msgs) + 1 + 1 - i)
  <2>1. CASE i = Len(msgs) + 1
    <3>1. after[i] = m /\ Len(msgs) + 1 + 1 - i = 0 + 1
      BY <1>1, <2>1
    <3>2. Minus(Plus(sn, 1), 0 + 1) = Minus(sn, 0)
      BY NextDistance, SizesKnown
    <3>3. Minus(sn, 0) = sn
      BY DEF Minus, SeqNums
    <3> QED
      BY <3>1, <3>2, <3>3
  <2>2. CASE i # Len(msgs) + 1
    <3> DEFINE k == Len(msgs) + 1 - i
    <3>1. i \in 1 .. Len(msgs) /\ after[i] = msgs[i]
      BY <1>1, <2>2
    <3>2. k \in 0 .. SeqMod - 2 /\ Len(msgs) + 1 + 1 - i = k + 1
      BY <1>1, <3>1, SizesKnown
    <3>3. msgs[i].sn = Minus(sn, k)
      BY <1>1, <3>1 DEF Numbered, Gapless
    <3> QED
      BY <3>1, <3>2, <3>3, NextDistance
  <2> QED
    BY <2>1, <2>2
<1> HIDE DEF d, after
<1>5. d \in SendBuffer /\ Len(d.msgs) <= size + 1
  <2>1. /\ Len(d.msgs) = Len(msgs) + 1 /\ d.sent <= Len(d.msgs)
        /\ Len(d.msgs) <= SendBufferSize /\ Len(d.msgs) <= size + 1
    BY <1>1, <1>2, <1>3, SizesKnown
  <2> QED
    BY <1>2, <2>1 DEF SendBuffer
<1>6. Gapless(d, Plus(sn, 1))
  BY <1>2, <1>3, <1>4 DEF Gapless
<1> QED
  BY <1>5, <1>6 DEF Numbered, d

(* The loop of srsend_RemoveFromBuffer ends, with a message that was sent. *)
LEMMA NumberConfirmedType ==
  ASSUME NEW b \in SendBuffer, NEW confirmed
  PROVE  NumberConfirmed(b, confirmed) \in 0 .. b.sent
<1> DEFINE IsConfirmed(i) == Minus(confirmed, b.msgs[i].sn) < SendBufferSize
           Stops(n) == \/ n = b.sent
                       \/ ~ IsConfirmed(n + 1)
                       \/ n > 0 /\ b.msgs[n].sn = confirmed
           S == {n \in 0 .. b.sent : Stops(n)}
<1>1. b.sent \in Nat
  BY DEF SendBuffer
<1>2. S \in SUBSET Nat /\ b.sent \in S
  BY <1>1
<1> HIDE DEF S
<1>3. PICK m \in S : \A n \in S : m <= n
  BY <1>2, LeastNatural
<1> USE DEF S
<1> HIDE DEF Stops
<1>4. m \in 0 .. b.sent /\ Stops(m) /\ \A k \in 0 .. m - 1 : ~ Stops(k)
  <2>1. ASSUME NEW k \in 0 .. m - 1
        PROVE  ~ Stops(k)
    <3>1. k \in 0 .. b.sent /\ ~ (m <= k)
      BY <1>1, <1>3
    <3> QED
      BY <1>3, <3>1
  <2> QED
    BY <1>3, <2>1
<1>5. (CHOOSE n \in 0 .. b.sent : Stops(n) /\ \A k \in 0 .. n - 1 : ~ Stops(k)) \in 0 .. b.sent
  BY <1>4
<1> QED
  BY <1>5 DEF NumberConfirmed, Stops

(* What is confirmed leaves the buffer at its front.                       *)
LEMMA RemoveNumbered ==
  ASSUME NEW b, NEW sn, NEW size, Numbered(b, sn, size), size \in Nat, NEW confirmed
  PROVE  Numbered(RemoveFromBuffer(b, confirmed), sn, size)
<1> DEFINE msgs == b.msgs
           n == NumberConfirmed(b, confirmed)
           after == SubSeq(msgs, n + 1, Len(msgs))
           d == [msgs |-> after, sent |-> b.sent - n]
<1>1. /\ b \in [msgs : Seq(Message), sent : Nat] /\ b \in SendBuffer
      /\ b.sent <= Len(msgs) /\ Len(msgs) <= SendBufferSize /\ Len(msgs) <= size
      /\ msgs \in Seq(Message) /\ Len(msgs) \in Nat /\ b.sent \in Nat
  BY DEF Numbered, SendBuffer
<1>2. n \in 0 .. b.sent
  BY <1>1, NumberConfirmedType
<1> HIDE DEF n
<1>3. /\ after \in Seq(Message) /\ Len(after) = Len(msgs) - n
      /\ \A i \in 1 .. Len(msgs) - n : after[i] = msgs[n + i]
  BY <1>1, <1>2
<1> HIDE DEF after
<1>4. d \in SendBuffer /\ Len(d.msgs) <= size
  BY <1>1, <1>2, <1>3, SizesKnown DEF SendBuffer
<1>5. ASSUME NEW i \in DOMAIN d.msgs
      PROVE  d.msgs[i].sn = Minus(sn, Len(d.msgs) + 1 - i)
  <2>1. i \in 1 .. Len(msgs) - n /\ n + i \in DOMAIN msgs
    BY <1>1, <1>2, <1>3
  <2>2. msgs[n + i].sn = Minus(sn, Len(msgs) + 1 - (n + i))
    BY <2>1 DEF Numbered, Gapless
  <2>3. Len(msgs) + 1 - (n + i) = (Len(msgs) - n) + 1 - i
    BY <1>1, <1>2, <2>1
  <2> QED
    BY <1>3, <2>1, <2>2, <2>3
<1>6. RemoveFromBuffer(b, confirmed) = d
  BY DEF RemoveFromBuffer, after, n
<1> QED
  BY <1>4, <1>5, <1>6 DEF Numbered, Gapless

(* OfTypes goes through the messages in their order.                       *)
Collects(f, T, msgs, types) ==
  /\ f \in [0 .. Len(msgs) -> Seq(T)]
  /\ f[0] = <<>>
  /\ \A n \in 1 .. Len(msgs) :
       f[n] = IF msgs[n].type \in types THEN Append(f[n - 1], msgs[n]) ELSE f[n - 1]
  /\ OfTypes(msgs, types) = f[Len(msgs)]

(* The messages of some types are collected one after the other.           *)
LEMMA OfTypesStepwise ==
  ASSUME NEW T, NEW msgs \in Seq(T), NEW types
  PROVE  \E f : Collects(f, T, msgs, types)
<1> DEFINE N == Len(msgs)
           Step(n, x) == IF msgs[n].type \in types THEN Append(x, msgs[n]) ELSE x
           G == [n \in 1 .. N |-> [x \in Seq(T) |-> Step(n, x)]]
           Value(f, n) == IF n = 0 THEN <<>>
                          ELSE IF msgs[n].type \in types THEN Append(f[n - 1], msgs[n])
                          ELSE f[n - 1]
           f == CHOOSE g : g = [n \in 0 .. N |-> Value(g, n)]
<1>1. N \in Nat /\ \A n \in 1 .. N : msgs[n] \in T
  OBVIOUS
<1>2. <<>> \in Seq(T) /\ \A n \in 1 .. N : \A x \in Seq(T) : Step(n, x) \in Seq(T)
  BY <1>1
<1>3. PICK h \in [0 .. N -> Seq(T)] :
        h[0] = <<>> /\ \A n \in 1 .. N : h[n] = G[n][h[n - 1]]
  <2> DEFINE S == Seq(T)
             a == <<>>
  <2>1. G \in [1 .. N -> [S -> S]] /\ a \in S /\ N \in Nat
    BY <1>1, <1>2
  <2> HIDE DEF G, S, a, N
  <2>2. \E h : Iterates(h, S, a, N, G)
    BY <2>1, Iteration
  <2> QED
    BY <2>2 DEF S, a, Iterates
<1>4. f = [n \in 0 .. N |-> Value(f, n)]
  <2>1. ASSUME NEW n \in 0 .. N
        PROVE  h[n] = Value(h, n)
    <3>1. CASE n = 0
      BY <1>3, <3>1
    <3>2. CASE n # 0
      <4>1. n \in 1 .. N /\ h[n - 1] \in Seq(T)
        BY <1>1, <3>2
      <4>2. h[n] = Step(n, h[n - 1])
        BY <1>3, <4>1
      <4> QED
        BY <3>2, <4>2
    <3> QED
      BY <3>1, <3>2
  <2> HIDE DEF Value
  <2>2. h = [n \in 0 .. N |-> Value(h, n)]
    BY <2>1
  <2> QED
    BY <2>2
<1>5. OfTypes(msgs, types) = f[N]
  BY DEF OfTypes
<1> HIDE DEF f, N
<1>6. f[0] = <<>> /\ \A n \in 1 .. N : f[n] = Step(n, f[n - 1])
  <2>1. 0 \in 0 .. N /\ f[0] = Value(f, 0)
    BY <1>1, <1>4
  <2>2. ASSUME NEW n \in 1 .. N
        PROVE  f[n] = Step(n, f[n - 1])
    <3>1. n \in 0 .. N /\ n # 0
      BY <1>1
    <3>2. f[n] = Value(f, n)
      BY <1>4, <3>1
    <3> QED
      BY <3>1, <3>2
  <2> QED
    BY <2>1, <2>2
<1>7. \A n \in 0 .. N : f[n] \in Seq(T)
  <2> DEFINE H == {n \in 0 .. N : f[n] \in Seq(T)}
  <2> HIDE DEF Step
  <2>1. 0 \in H
    <3>1. 0 \in 0 .. N
      BY <1>1
    <3>2. f[0] \in Seq(T)
      BY <1>2, <1>6, Zenon
    <3> QED
      BY <3>1, <3>2
  <2>2. ASSUME NEW n \in 1 .. N, n - 1 \in H
        PROVE  n \in H
    <3>1. n \in 0 .. N /\ f[n - 1] \in Seq(T)
      BY <1>1, <2>2
    <3>2. f[n] \in Seq(T)
      BY <1>2, <1>6, <3>1
    <3> QED
      BY <3>1, <3>2
  <2> HIDE DEF H
  <2>3. \A n \in 0 .. N : n \in H
    BY <1>1, <2>1, <2>2, InductionUpTo
  <2> QED
    BY <2>3 DEF H
<1>8. f \in [0 .. N -> Seq(T)]
  BY <1>4, <1>7
<1> QED
  BY <1>5, <1>6, <1>8 DEF N, Collects

(* Messages of some types are messages, and those of different types are   *)
(* no more than all.                                                       *)
LEMMA OfTypesCount ==
  ASSUME NEW T, NEW msgs \in Seq(T), NEW A, NEW B, A \cap B = {}
  PROVE  /\ OfTypes(msgs, A) \in Seq(T) /\ OfTypes(msgs, B) \in Seq(T)
         /\ Len(OfTypes(msgs, A)) + Len(OfTypes(msgs, B)) <= Len(msgs)
         /\ \A i \in DOMAIN OfTypes(msgs, A) : OfTypes(msgs, A)[i].type \in A
<1> DEFINE N == Len(msgs)
<1>1. N \in Nat
  OBVIOUS
<1>2. PICK f : Collects(f, T, msgs, A)
  BY OfTypesStepwise
<1>3. PICK g : Collects(g, T, msgs, B)
  BY OfTypesStepwise
<1> DEFINE H == {n \in 0 .. N : /\ Len(f[n]) + Len(g[n]) <= n
                               /\ \A i \in DOMAIN f[n] : f[n][i].type \in A}
<1>4. 0 \in H
  BY <1>1, <1>2, <1>3 DEF Collects
<1>5. ASSUME NEW n \in 1 .. N, n - 1 \in H
      PROVE  n \in H
  <2>1. n - 1 \in 0 .. N /\ n \in 0 .. N /\ msgs[n] \in T
    BY <1>1
  <2> DEFINE x == f[n - 1]
             y == g[n - 1]
             m == msgs[n]
  <2>2. x \in Seq(T) /\ y \in Seq(T) /\ Len(x) + Len(y) <= n - 1
        /\ \A i \in DOMAIN x : x[i].type \in A
    BY <1>2, <1>3, <1>5, <2>1 DEF Collects
  <2>3. /\ f[n] = IF m.type \in A THEN Append(x, m) ELSE x
        /\ g[n] = IF m.type \in B THEN Append(y, m) ELSE y
    BY <1>2, <1>3 DEF Collects
  <2>4. m \in T /\ ~ (m.type \in A /\ m.type \in B)
    BY <2>1
  <2> HIDE DEF x, y, m
  <2>5. Len(Append(x, m)) = Len(x) + 1 /\ Len(Append(y, m)) = Len(y) + 1
        /\ Len(x) \in Nat /\ Len(y) \in Nat /\ n \in Nat
    BY <1>1, <2>2, <2>4
  <2>6. Len(f[n]) + Len(g[n]) <= n
    <3> DEFINE k == Len(f[n])
               l == Len(g[n])
    <3>1. /\ k = IF m.type \in A THEN Len(x) + 1 ELSE Len(x)
          /\ l = IF m.type \in B THEN Len(y) + 1 ELSE Len(y)
      BY <2>3, <2>5
    <3> HIDE DEF k, l
    <3>2. CASE m.type \in A
      <4>1. k = Len(x) + 1 /\ l = Len(y)
        BY <2>4, <3>1, <3>2
      <4> QED
        BY <2>2, <2>5, <4>1 DEF k, l
    <3>3. CASE m.type \notin A
      <4>1. k = Len(x) /\ l \in {Len(y), Len(y) + 1}
        BY <3>1, <3>3
      <4> QED
        BY <2>2, <2>5, <4>1 DEF k, l
    <3> QED
      BY <3>2, <3>3
  <2>7. \A i \in DOMAIN f[n] : f[n][i].type \in A
    <3>1. CASE m.type \in A
      <4>1. \A i \in 1 .. Len(x) + 1 :
              Append(x, m)[i] = IF i = Len(x) + 1 THEN m ELSE x[i]
        BY <2>2, <2>4
      <4>2. DOMAIN Append(x, m) = 1 .. Len(x) + 1 /\ DOMAIN x = 1 .. Len(x)
        BY <2>2, <2>4, <2>5
      <4> QED
        BY <2>2, <2>3, <2>5, <3>1, <4>1, <4>2
    <3>2. CASE m.type \notin A
      BY <2>2, <2>3, <3>2
    <3> QED
      BY <3>1, <3>2
  <2> QED
    BY <2>1, <2>6, <2>7
<1> HIDE DEF H, N
<1>6. \A n \in 0 .. N : n \in H
  BY <1>1, <1>4, <1>5, InductionUpTo
<1>7. N \in 0 .. N
  BY <1>1
<1>8. /\ Len(f[N]) + Len(g[N]) <= N
      /\ \A i \in DOMAIN f[N] : f[N][i].type \in A
  BY <1>6, <1>7 DEF H
<1> QED
  BY <1>2, <1>3, <1>7, <1>8 DEF N, Collects

(* A retransmission holds at most two messages more than the send buffer   *)
(* did: the response, and the heartbeat that ends it.                      *)
LEMMA RetransmissionSize ==
  ASSUME NEW b \in SendBuffer
  PROVE  /\ RetransmissionOf(b) \in Seq([type : MessageTypes, payload : Nat])
         /\ Len(RetransmissionOf(b)) <= Len(b.msgs) + 2
<1> DEFINE P == [type : MessageTypes, payload : Nat]
           msgs == b.msgs
           first == SubSeq(msgs, 1, b.sent)
           rest == SubSeq(msgs, b.sent + 1, Len(msgs))
           old == OfTypes(first, {"Data", "RetrData"})
           still == OfTypes(rest, {"RetrData"})
           fresh == OfTypes(rest, {"Data", "RetrReq"})
           again == old \o still
           Plain(type) == << [type |-> type, payload |-> 0] >>
           repeated == [i \in DOMAIN again |-> [type |-> "RetrData", payload |-> again[i].payload]]
           end == IF fresh # <<>> /\ fresh[1].type = "Data" THEN <<>> ELSE Plain("Hb")
           new == [i \in DOMAIN fresh |-> [type |-> fresh[i].type, payload |-> fresh[i].payload]]
<1>1. /\ msgs \in Seq(Message) /\ Len(msgs) \in Nat /\ b.sent \in 0 .. Len(msgs)
  BY DEF SendBuffer
<1>2. /\ first \in Seq(Message) /\ Len(first) = b.sent
      /\ rest \in Seq(Message) /\ Len(rest) = Len(msgs) - b.sent
  BY <1>1
<1> HIDE DEF first, rest
<1>3. old \in Seq(Message) /\ Len(old) <= b.sent
  <2> DEFINE none == OfTypes(first, {})
  <2>1. old \in Seq(Message) /\ none \in Seq(Message) /\ Len(old) + Len(none) <= Len(first)
    BY <1>2, OfTypesCount
  <2> HIDE DEF old, none
  <2> QED
    BY <1>1, <1>2, <2>1
<1>4. /\ fresh \in Seq(Message) /\ still \in Seq(Message)
      /\ Len(fresh) + Len(still) <= Len(msgs) - b.sent
      /\ \A i \in DOMAIN fresh : fresh[i].type \in {"Data", "RetrReq"}
  <2> DEFINE A == {"Data", "RetrReq"}
             B == {"RetrData"}
  <2>1. A \cap B = {}
    OBVIOUS
  <2> HIDE DEF A, B
  <2>2. /\ OfTypes(rest, A) \in Seq(Message) /\ OfTypes(rest, B) \in Seq(Message)
        /\ Len(OfTypes(rest, A)) + Len(OfTypes(rest, B)) <= Len(rest)
        /\ \A i \in DOMAIN OfTypes(rest, A) : OfTypes(rest, A)[i].type \in A
    BY <1>2, <2>1, OfTypesCount
  <2> QED
    BY <1>2, <2>2, Zenon DEF A, B
<1> HIDE DEF old, fresh, still
<1>5. again \in Seq(Message) /\ Len(again) = Len(old) + Len(still)
  BY <1>3, <1>4
<1> HIDE DEF again
<1>6. /\ \A i \in DOMAIN again : again[i].payload \in Nat
      /\ \A i \in DOMAIN fresh : fresh[i].payload \in Nat /\ fresh[i].type \in MessageTypes
  <2>1. /\ \A i \in DOMAIN again : again[i] \in Message
        /\ \A i \in DOMAIN fresh : fresh[i] \in Message
    BY <1>4, <1>5
  <2> QED
    BY <2>1 DEF Message
<1>7. repeated \in Seq(P) /\ Len(repeated) = Len(again)
  <2>1. Len(again) \in Nat /\ DOMAIN again = 1 .. Len(again)
    BY <1>5
  <2>2. \A i \in 1 .. Len(again) : [type |-> "RetrData", payload |-> again[i].payload] \in P
    BY <1>6, <2>1 DEF MessageTypes
  <2> HIDE DEF P
  <2> QED
    BY <2>1, <2>2
<1>8. new \in Seq(P) /\ Len(new) = Len(fresh)
  <2>1. Len(fresh) \in Nat /\ DOMAIN fresh = 1 .. Len(fresh)
    BY <1>4
  <2>2. \A i \in 1 .. Len(fresh) :
          [type |-> fresh[i].type, payload |-> fresh[i].payload] \in P
    BY <1>6, <2>1
  <2> HIDE DEF P
  <2> QED
    BY <2>1, <2>2
<1>9. end \in Seq(P) /\ Len(end) <= 1 /\ Plain("RetrResp") \in Seq(P)
      /\ Len(Plain("RetrResp")) = 1
  <2>1. /\ [type |-> "Hb", payload |-> 0] \in P
        /\ [type |-> "RetrResp", payload |-> 0] \in P
    BY DEF MessageTypes
  <2> HIDE DEF P
  <2> QED
    BY <2>1
<1> DEFINE resp == Plain("RetrResp")
           list == resp \o repeated \o end \o new
<1>10. RetransmissionOf(b) = list
  BY DEF RetransmissionOf, Again, Unsent, again, old, still, fresh, first, rest
<1> HIDE DEF repeated, end, new, resp, P
<1>11. list \in Seq(P) /\ Len(list) = 1 + Len(repeated) + Len(end) + Len(new)
  <2> DEFINE s == resp \o repeated
             t == s \o end
  <2>1. resp \in Seq(P) /\ Len(resp) = 1
    BY <1>9 DEF resp
  <2>2. s \in Seq(P) /\ Len(s) = Len(resp) + Len(repeated)
    <3>1. resp \in Seq(P) /\ repeated \in Seq(P)
      BY <1>7, <2>1
    <3> QED
      BY <3>1, ConcatProperties
  <2> HIDE DEF s
  <2>3. t \in Seq(P) /\ Len(t) = Len(s) + Len(end)
    BY <1>9, <2>2
  <2> HIDE DEF t
  <2>4. t \o new \in Seq(P) /\ Len(t \o new) = Len(t) + Len(new)
    BY <1>8, <2>3
  <2> QED
    BY <2>1, <2>2, <2>3, <2>4 DEF s, t
<1>12. Len(list) <= Len(msgs) + 2
  BY <1>1, <1>3, <1>4, <1>5, <1>7, <1>8, <1>9, <1>11
<1> QED
  BY <1>10, <1>11, <1>12 DEF P

(* After the preparation of a retransmission the buffer is numbered anew,  *)
(* from sn on.                                                             *)
LEMMA RetransmissionNumbered ==
  ASSUME NEW b \in SendBuffer, NEW sn \in SeqNums, NEW cts \in SeqNums,
         Len(b.msgs) + 2 <= SendBufferSize
  PROVE  LET new == PrepareBufferForRetr(b, sn, cts)
         IN  /\ Numbered(new, Plus(sn, Len(new.msgs)), Len(b.msgs) + 2)
             /\ Len(new.msgs) \in SeqNums
<1> DEFINE P == [type : MessageTypes, payload : Nat]
           list == RetransmissionOf(b)
           L == Len(list)
           msgs == [i \in DOMAIN list |-> [type |-> list[i].type, sn |-> Plus(sn, i - 1),
                                          cts |-> cts, payload |-> list[i].payload]]
           new == [msgs |-> msgs, sent |-> 0]
<1>1. list \in Seq(P) /\ L <= Len(b.msgs) + 2 /\ L \in Nat /\ Len(b.msgs) \in Nat
  <2>1. list \in Seq(P) /\ L <= Len(b.msgs) + 2
    BY RetransmissionSize
  <2>2. Len(b.msgs) \in Nat
    BY DEF SendBuffer
  <2> HIDE DEF list
  <2> QED
    BY <2>1, <2>2
<1> HIDE DEF list
<1>2. DOMAIN list = 1 .. L /\ L \in 0 .. SendBufferSize /\ L \in SeqNums
      /\ \A i \in 1 .. L : list[i].type \in MessageTypes /\ list[i].payload \in Nat
                         /\ i - 1 \in SeqNums
  <2>1. DOMAIN list = 1 .. L /\ L \in 0 .. SendBufferSize
    BY <1>1, SizesKnown
  <2>2. L \in SeqNums /\ \A i \in 1 .. L : i - 1 \in SeqNums
    BY <1>1, <2>1, SizesKnown DEF SeqNums
  <2> HIDE DEF P
  <2>3. \A i \in 1 .. L : list[i] \in P
    BY <1>1
  <2> QED
    BY <2>1, <2>2, <2>3 DEF P
<1>3. \A i \in 1 .. L : [type |-> list[i].type, sn |-> Plus(sn, i - 1),
                        cts |-> cts, payload |-> list[i].payload] \in Message
  BY <1>2, PlusMinusType DEF Message
<1>4. msgs \in Seq(Message) /\ Len(msgs) = L
  BY <1>1, <1>2, <1>3
<1>5. \A i \in 1 .. L : msgs[i].sn = Plus(sn, i - 1)
  BY <1>2
<1> HIDE DEF msgs, L
<1>6. \A i \in 1 .. L : msgs[i].sn = Minus(Plus(sn, L), L + 1 - i)
  <2>1. L \in 0 .. SeqMod - 1
    BY <1>2 DEF SeqNums
  <2> QED
    BY <1>5, <2>1, CountedUp
<1>7. new \in SendBuffer /\ Len(new.msgs) <= Len(b.msgs) + 2
  BY <1>1, <1>2, <1>4 DEF SendBuffer
<1>8. Gapless(new, Plus(sn, L))
  BY <1>1, <1>4, <1>6 DEF Gapless
<1>9. PrepareBufferForRetr(b, sn, cts) = new
  BY DEF PrepareBufferForRetr, msgs, list
<1> QED
  BY <1>2, <1>4, <1>7, <1>8, <1>9 DEF Numbered

-----------------------------------------------------------------------------
(* Connections.                                                            *)

(* What every operation needs of a connection and keeps: its type, the     *)
(* numbers in the send buffer, and room in the received buffer.            *)
ConnInv(c) ==
  /\ c \in Connection
  /\ Gapless(c.sendBuf, c.snT)
  /\ Len(c.recvBuf) <= c.nSendMax
  /\ c.fatal # "ReceiveBufferFull"

(* How many messages are in the send buffer.                               *)
Used(c) == Len(c.sendBuf.msgs)

(* What sending leaves alone, and that it confirms nothing new.            *)
SendSide(c, d) ==
  /\ d.server = c.server /\ d.nSendMax = c.nSendMax /\ d.state = c.state
  /\ d.ctsR = c.ctsR /\ d.ti = c.ti /\ d.input = c.input /\ d.inputSn = c.inputSn
  /\ d.recvBuf = c.recvBuf /\ d.inbox = c.inbox /\ d.calls = c.calls
  /\ d.csT \in {c.csT, 0} /\ d.snR = c.snR

(* d comes from c by sending, and has at most k messages more to confirm.  *)
Sends(c, d, k) == ConnInv(d) /\ SendSide(c, d) /\ Used(d) <= Used(c) + k

(* The send buffer is not larger than it is.                               *)
LEMMA UsedSize ==
  ASSUME NEW c, ConnInv(c)
  PROVE  Used(c) \in Nat /\ Used(c) <= SendBufferSize
<1>1. c.sendBuf \in SendBuffer
  BY DEF ConnInv, Connection
<1> QED
  BY <1>1 DEF Used, SendBuffer

(* One sending after the other is sending.                                 *)
LEMMA SendsTransitive ==
  ASSUME NEW c, ConnInv(c), NEW d, NEW e, NEW k \in Nat, NEW l \in Nat,
         Sends(c, d, k), Sends(d, e, l)
  PROVE  Sends(c, e, k + l)
<1>1. Used(c) \in Nat /\ Used(d) \in Nat /\ Used(e) \in Nat
  BY UsedSize DEF Sends
<1>2. Used(e) <= Used(c) + (k + l)
  BY <1>1 DEF Sends
<1>3. SendSide(c, e)
  BY DEF Sends, SendSide
<1> QED
  BY <1>2, <1>3 DEF Sends

(* It may have sent less.                                                  *)
LEMMA SendsMore ==
  ASSUME NEW c, ConnInv(c), NEW d, NEW k \in Nat, NEW l \in Nat, Sends(c, d, k)
  PROVE  Sends(c, d, k + l)
<1>1. Used(c) \in Nat /\ Used(d) \in Nat
  BY UsedSize DEF Sends
<1> QED
  BY <1>1 DEF Sends

(* A failed assertion changes nothing but that.                            *)
LEMMA RequireSends ==
  ASSUME NEW c, ConnInv(c), NEW condition \in BOOLEAN,
         NEW error \in Errors \ {"ReceiveBufferFull"}
  PROVE  Sends(c, Require(c, condition, error), 0)
<1>1. CASE Require(c, condition, error) = c
  <2>1. Used(c) \in Nat
    BY UsedSize
  <2> QED
    BY <1>1, <2>1 DEF Sends, SendSide
<1>2. CASE Require(c, condition, error) # c
  <2> DEFINE d == [c EXCEPT !.fatal = error]
  <2>1. Require(c, condition, error) = d
    BY <1>2 DEF Require
  <2>2. d \in Connection /\ d.fatal # "ReceiveBufferFull"
    BY DEF ConnInv, Connection
  <2>3. SendSide(c, d) /\ d.sendBuf = c.sendBuf /\ d.snT = c.snT
    BY DEF ConnInv, Connection, SendSide
  <2>4. Used(c) \in Nat
    BY UsedSize
  <2> HIDE DEF d
  <2> QED
    BY <2>1, <2>2, <2>3, <2>4 DEF Sends, ConnInv, SendSide, Used
<1> QED
  BY <1>1, <1>2

(* Another send buffer, with the number that follows it.                   *)
LEMMA BufferReplaced ==
  ASSUME NEW c, ConnInv(c), NEW b, NEW sn \in SeqNums, NEW k \in Nat,
         Numbered(b, sn, Used(c) + k)
  PROVE  Sends(c, [c EXCEPT !.sendBuf = b, !.snT = sn], k)
<1> DEFINE d == [c EXCEPT !.sendBuf = b, !.snT = sn]
<1>1. b \in SendBuffer
  BY DEF Numbered
<1>2. d \in Connection
  BY <1>1 DEF ConnInv, Connection
<1>3. SendSide(c, d) /\ d.sendBuf = b /\ d.snT = sn /\ d.fatal = c.fatal
  BY DEF ConnInv, Connection, SendSide
<1> HIDE DEF d
<1>4. Sends(c, d, k)
  BY <1>2, <1>3 DEF Sends, ConnInv, Numbered, Used, SendSide
<1> QED
  BY <1>4 DEF d

(* srcor_SendPendingMessages sends, and keeps what it sent.                *)
LEMMA SendPendingSends ==
  ASSUME NEW c, ConnInv(c), NEW now \in SeqNums
  PROVE  Sends(c, SendPendingMessages(c, now), 0)
<1> DEFINE b == c.sendBuf
           k == SentWithFlowControl(c)
           n == k - b.sent
           cs == IF n > 0 /\ b.msgs[b.sent + 1].type = "ConnReq" THEN 0 ELSE c.csT
           pdus == [i \in 1 .. n |-> Completed(b.msgs[b.sent + i], cs, now)]
           sent == [c EXCEPT !.sendBuf.sent = @ + n, !.csT = cs, !.lastCsT = cs, !.tsT = now]
           new == [b EXCEPT !.sent = k]
<1>1. /\ b \in [msgs : Seq(Message), sent : Nat] /\ b.msgs \in Seq(Message)
      /\ Len(b.msgs) \in Nat /\ b.sent \in 0 .. Len(b.msgs)
      /\ Len(b.msgs) <= SendBufferSize
  BY DEF ConnInv, Connection, SendBuffer
<1>2. k \in b.sent .. Len(b.msgs)
  <2>1. c.opposite \in Nat
    BY DEF ConnInv, Connection
  <2> QED
    BY <1>1, <2>1 DEF SentWithFlowControl, Min2, GetUsedBufferEntries
<1>3. CASE n = 0
  <2>1. SendPendingMessages(c, now) = c
    BY <1>3 DEF SendPendingMessages
  <2> QED
    BY <1>1, <2>1 DEF Sends, SendSide, Used
<1>4. CASE n # 0
  <2>1. cs \in SeqNums /\ cs \in {c.csT, 0}
    BY SmallNumbers DEF ConnInv, Connection
  <2>2. n \in Nat /\ \A i \in 1 .. n : b.msgs[b.sent + i] \in Message
    BY <1>1, <1>2
  <2> HIDE DEF cs
  <2>3. \A i \in 1 .. n : Completed(b.msgs[b.sent + i], cs, now) \in PDU
    BY <2>1, <2>2 DEF Completed, Message, PDU
  <2>4. pdus \in Seq(PDU)
    BY <2>2, <2>3
  <2>5. new \in SendBuffer /\ new.msgs = b.msgs
    BY <1>1, <1>2 DEF SendBuffer
  <2>6. sent = [c EXCEPT !.sendBuf = new, !.csT = cs, !.lastCsT = cs, !.tsT = now]
    <3>1. b.sent + n = k
      BY <1>1, <1>2
    <3> HIDE DEF n, k
    <3> QED
      BY <3>1
  <2> HIDE DEF new, k, n, pdus, sent
  <2>7. /\ sent \in Connection /\ SendSide(c, sent) /\ sent.sendBuf = new
        /\ sent.snT = c.snT /\ sent.fatal = c.fatal /\ sent.out = c.out
    BY <2>1, <2>5, <2>6 DEF ConnInv, Connection, SendSide
  <2>8. Sends(c, sent, 0)
    BY <1>1, <2>5, <2>7 DEF Sends, ConnInv, Gapless, Used, SendSide
  <2>9. Sends(sent, SradinSend(sent, pdus), 0)
    <3>1. CASE sent.state = "Closed"
      <4>1. SradinSend(sent, pdus) = sent
        BY <3>1 DEF SradinSend
      <4> QED
        BY <1>1, <2>5, <2>7, <2>8, <4>1 DEF Sends, SendSide, Used
    <3>2. CASE sent.state # "Closed"
      <4> DEFINE d == [sent EXCEPT !.out = @ \o pdus]
      <4>1. SradinSend(sent, pdus) = d
        BY <3>2 DEF SradinSend
      <4>2. sent.out \o pdus \in Seq(PDU)
        BY <2>4, <2>7 DEF Connection
      <4>3. /\ d \in Connection /\ SendSide(sent, d) /\ d.sendBuf = sent.sendBuf
            /\ d.snT = sent.snT /\ d.fatal = sent.fatal
        BY <2>7, <4>2 DEF Connection, SendSide
      <4> HIDE DEF d
      <4> QED
        BY <1>1, <2>5, <2>7, <2>8, <4>1, <4>3 DEF Sends, ConnInv, Used, SendSide
    <3> QED
      BY <3>1, <3>2
  <2>10. SendPendingMessages(c, now) = SradinSend(sent, pdus)
    BY <1>4 DEF SendPendingMessages, sent, pdus, n, k, cs
  <2> QED
    BY <2>8, <2>9, <2>10, SendsTransitive, 0 + 0 = 0
<1> QED
  BY <1>3, <1>4

(* A new message is put into the send buffer and sent, or the buffer is    *)
(* full and the program stops.                                             *)
LEMMA SendMessageSends ==
  ASSUME NEW c, ConnInv(c), NEW type \in MessageTypes, NEW payload \in Nat,
         NEW now \in SeqNums
  PROVE  Sends(c, SendMessage(c, type, payload, now), 1)
<1> DEFINE m == NewMessage(c, type, payload)
           b == [c.sendBuf EXCEPT !.msgs = Append(@, m)]
           sn == Plus(c.snT, 1)
           added == [c EXCEPT !.snT = Plus(@, 1), !.sendBuf.msgs = Append(@, m)]
           replaced == [c EXCEPT !.sendBuf = b, !.snT = sn]
<1>1. c.snT \in SeqNums /\ c.tsR \in SeqNums /\ sn \in SeqNums
      /\ c.sendBuf \in SendBuffer /\ Used(c) \in Nat /\ Used(c) <= SendBufferSize
  BY UsedSize, PlusMinusType, SmallNumbers DEF ConnInv, Connection
<1>2. m \in Message /\ m.sn = c.snT
  BY <1>1 DEF NewMessage, Message
<1>3. CASE GetFreeBufferEntries(c.sendBuf) = 0
  <2>1. SendMessage(c, type, payload, now) = Require(c, FALSE, "SendBufferFull")
    BY <1>3 DEF SendMessage
  <2>2. Sends(c, Require(c, FALSE, "SendBufferFull"), 0)
    BY RequireSends DEF Errors
  <2> QED
    BY <2>1, <2>2, SendsMore, 0 + 1 = 1
<1>4. CASE GetFreeBufferEntries(c.sendBuf) # 0
  <2>1. Used(c) < SendBufferSize
    BY <1>1, <1>4, SizesKnown DEF GetFreeBufferEntries, Used
  <2>2. Numbered(c.sendBuf, c.snT, Used(c))
    BY <1>1 DEF Numbered, ConnInv, Used
  <2> HIDE DEF m
  <2>3. Numbered(b, sn, Used(c) + 1)
    BY <1>1, <1>2, <2>1, <2>2, AppendNumbered
  <2>4. added = replaced
    BY DEF ConnInv, Connection
  <2> HIDE DEF b, sn, added
  <2>5. Sends(c, replaced, 1)
    BY <1>1, <2>3, BufferReplaced
  <2>6. Sends(added, SendPendingMessages(added, now), 0)
    BY <2>4, <2>5, SendPendingSends DEF Sends
  <2>7. Sends(c, SendPendingMessages(added, now), 1 + 0)
    BY <2>4, <2>5, <2>6, SendsTransitive
  <2>8. SendMessage(c, type, payload, now) = SendPendingMessages(added, now)
    BY <1>4 DEF SendMessage, added, m
  <2> QED
    BY <2>7, <2>8
<1> QED
  BY <1>3, <1>4

(* ReceivedFlowControlCheck sends at most a heartbeat.                     *)
LEMMA FlowControlSends ==
  ASSUME NEW c, ConnInv(c), NEW m, NEW now \in SeqNums
  PROVE  Sends(c, ReceivedFlowControlCheck(c, m, now), 1)
<1>1. Sends(c, c, 0) /\ Sends(c, SendPendingMessages(c, now), 0)
      /\ Sends(c, SendHbMessage(c, now), 1)
  BY UsedSize, SendPendingSends, SendMessageSends
     DEF Sends, SendSide, SendHbMessage, MessageTypes
<1>2. Sends(c, c, 1) /\ Sends(c, SendPendingMessages(c, now), 1)
  BY <1>1, UsedSize DEF Sends
<1> QED
  BY <1>1, <1>2 DEF ReceivedFlowControlCheck

(* srcor_HandleRetrReq, which adds two messages at most.                   *)
LEMMA HandleRetrReqSends ==
  ASSUME NEW c, ConnInv(c), Used(c) + 2 <= SendBufferSize
  PROVE  Sends(c, HandleRetrReq(c), 2)
<1> DEFINE b == c.sendBuf
           new == PrepareBufferForRetr(b, c.snT, c.tsR)
           c1 == Require(c, FollowsConfirmed(b, c.csR), "InvalidSequenceNumber")
           c2 == Require(c1, CanRetransmit(b), "InternalError")
           c3 == Require(c2, RetransmissionFits(b), "SendBufferFull")
           c4 == Require(c3, GetFreeBufferEntries(b) > 0, "InternalError")
           sn == Plus(c.snT, Len(new.msgs))
<1>1. c.snT \in SeqNums /\ c.tsR \in SeqNums /\ b \in SendBuffer
  BY DEF ConnInv, Connection
<1>2. Numbered(new, sn, Used(c) + 2) /\ sn \in SeqNums
  BY <1>1, RetransmissionNumbered, PlusMinusType DEF Used
<1>3. \A d, condition, error : d.fatal # "None" => Require(d, condition, error) = d
  BY DEF Require
<1>4. /\ FollowsConfirmed(b, c.csR) \in BOOLEAN /\ CanRetransmit(b) \in BOOLEAN
      /\ RetransmissionFits(b) \in BOOLEAN /\ (GetFreeBufferEntries(b) > 0) \in BOOLEAN
  BY DEF FollowsConfirmed, CanRetransmit, RetransmissionFits
<1>5. c4 \in {c} \cup {[c EXCEPT !.fatal = error] : error \in Errors \ {"ReceiveBufferFull"}}
  <2> DEFINE S == {c} \cup {[c EXCEPT !.fatal = error] : error \in Errors \ {"ReceiveBufferFull"}}
  <2>1. \A d \in S : \A condition : \A error \in Errors \ {"ReceiveBufferFull"} :
          Require(d, condition, error) \in S
    BY DEF Require
  <2>2. {"InvalidSequenceNumber", "InternalError", "SendBufferFull"}
          \subseteq Errors \ {"ReceiveBufferFull"}
    BY DEF Errors
  <2>3. c \in S
    OBVIOUS
  <2> HIDE DEF S
  <2>4. c1 \in S
    BY <2>1, <2>2, <2>3
  <2> HIDE DEF c1
  <2>5. c2 \in S
    BY <2>1, <2>2, <2>4
  <2> HIDE DEF c2
  <2>6. c3 \in S
    BY <2>1, <2>2, <2>5
  <2> HIDE DEF c3
  <2> QED
    BY <2>1, <2>2, <2>6 DEF S
<1>6. HandleRetrReq(c) = [c4 EXCEPT !.sendBuf = new, !.snT = Plus(@, Len(new.msgs))]
  BY DEF HandleRetrReq
<1> HIDE DEF new, c4
<1>7. ASSUME NEW d,
             d \in {c} \cup {[c EXCEPT !.fatal = error] : error \in Errors \ {"ReceiveBufferFull"}}
      PROVE  Sends(c, [d EXCEPT !.sendBuf = new, !.snT = Plus(@, Len(new.msgs))], 2)
  <2>1. d \in Connection /\ d.sendBuf = b /\ d.snT = c.snT /\ d.fatal # "ReceiveBufferFull"
        /\ SendSide(c, d)
    <3>1. CASE d = c
      BY <3>1 DEF ConnInv, SendSide
    <3>2. CASE d # c
      <4>1. PICK error \in Errors \ {"ReceiveBufferFull"} : d = [c EXCEPT !.fatal = error]
        BY <1>7, <3>2
      <4> QED
        BY <4>1 DEF ConnInv, Connection, SendSide
    <3> QED
      BY <3>1, <3>2
  <2>2. ConnInv(d) /\ Used(d) = Used(c)
    BY <2>1 DEF ConnInv, SendSide, Used
  <2>3. Sends(c, d, 0)
    BY <2>1, <2>2, UsedSize DEF Sends
  <2>4. Sends(d, [d EXCEPT !.sendBuf = new, !.snT = sn], 2)
    BY <1>2, <2>2, BufferReplaced
  <2>5. [d EXCEPT !.sendBuf = new, !.snT = sn]
          = [d EXCEPT !.sendBuf = new, !.snT = Plus(@, Len(new.msgs))]
    BY <2>1 DEF Connection
  <2>6. Sends(c, [d EXCEPT !.sendBuf = new, !.snT = sn], 0 + 2)
    BY <2>3, <2>4, SendsTransitive
  <2> QED
    BY <2>5, <2>6
<1> QED
  BY <1>5, <1>6, <1>7

-----------------------------------------------------------------------------
(* What an event makes of a connection.                                    *)

(* An end confirms the last message it processed, or none yet.             *)
Caught(c) == c.csT \in {0, Minus(c.snR, 1)}

(* Whatever happens: the end stays the same, and no message gets into the  *)
(* input buffer.                                                           *)
Continues(c, d) ==
  /\ ConnInv(d)
  /\ d.server = c.server /\ d.nSendMax = c.nSendMax /\ d.inputSn = c.inputSn
  /\ d.input => c.input

(* The connection closes, and its diagnostics are handed over.             *)
Closes(c, d) ==
  /\ Continues(c, d)
  /\ d.state = "Closed" /\ d.inbox = <<>> /\ d.recvBuf = c.recvBuf
  /\ d.calls = Append(c.calls, [call |-> "Notify"])

OpenStates == States \ {"Closed", "Down"}

(* The connection stays open or as it was; a server that has answered the  *)
(* connection request waits for the heartbeat.                             *)
StaysOpen(c, d) ==
  \/ d.state = c.state
  \/ /\ c.state \in OpenStates /\ d.state \in OpenStates
     /\ ~ (c.server /\ c.state = "Start")

(* Nothing a peer has to send is received: the timer goes on.              *)
Quiet(c, d) ==
  /\ Continues(c, d) /\ StaysOpen(c, d)
  /\ d.ctsR = c.ctsR /\ d.ti = c.ti /\ d.calls = c.calls
  /\ d.recvBuf = c.recvBuf /\ d.inbox = c.inbox
  /\ Caught(c) => Caught(d)

(* Sending is quiet.                                                       *)
LEMMA SendsQuiet ==
  ASSUME NEW c, ConnInv(c), NEW d, NEW k, Sends(c, d, k)
  PROVE  Quiet(c, d)
BY DEF Sends, SendSide, Quiet, Continues, StaysOpen, Caught

(* So is nothing at all.                                                   *)
LEMMA SelfQuiet ==
  ASSUME NEW c, ConnInv(c)
  PROVE  Quiet(c, c)
BY DEF Quiet, Continues, StaysOpen

(* The number of the message in the input buffer is confirmed.             *)
LEMMA ConfirmedTxContinues ==
  ASSUME NEW c, ConnInv(c)
  PROVE  /\ Continues(c, UpdateConfirmedTx(c))
         /\ UpdateConfirmedTx(c).calls = c.calls /\ UpdateConfirmedTx(c).recvBuf = c.recvBuf
<1>1. c \in Connection /\ c.inputSn \in SeqNums
  BY DEF ConnInv, Connection
<1>2. CASE c.input
  <2> DEFINE d == [c EXCEPT !.csT = c.inputSn, !.input = FALSE]
  <2>1. /\ d \in Connection /\ d.sendBuf = c.sendBuf /\ d.snT = c.snT
        /\ d.recvBuf = c.recvBuf /\ d.fatal = c.fatal /\ d.server = c.server
        /\ d.nSendMax = c.nSendMax /\ d.inputSn = c.inputSn /\ d.csT = c.inputSn
        /\ d.calls = c.calls
    BY <1>1 DEF Connection
  <2>2. UpdateConfirmedTx(c) = d
    BY <1>2 DEF UpdateConfirmedTx
  <2> HIDE DEF d
  <2> QED
    BY <1>2, <2>1, <2>2 DEF Continues, ConnInv
<1>3. CASE ~ c.input
  BY <1>3 DEF UpdateConfirmedTx, Continues
<1> QED
  BY <1>2, <1>3

(* CloseConnection.                                                        *)
LEMMA CloseConnectionCloses ==
  ASSUME NEW c, ConnInv(c), NEW reason \in DiscReasons, NEW incoming \in BOOLEAN,
         NEW now \in SeqNums
  PROVE  Closes(c, CloseConnection(c, reason, incoming, now))
<1> DEFINE noted == IF incoming THEN UpdateConfirmedTx(c) ELSE c
           m == Completed(NewMessage(noted, "DiscReq", 0), noted.csT, now)
           sent == SradinSend(noted, << m >>)
           d == SendDiscReqMessage(noted, now)
           notify == [call |-> "Notify"]
           e == [Diagnose([d EXCEPT !.inbox = <<>>], "Notify") EXCEPT
                   !.state = "Closed", !.reason = reason]
<1>1. Continues(c, noted) /\ noted.calls = c.calls /\ noted.recvBuf = c.recvBuf
  BY ConfirmedTxContinues DEF Continues
<1> HIDE DEF noted
<1>2. /\ noted \in Connection /\ noted.snT \in SeqNums /\ noted.tsR \in SeqNums
      /\ noted.csT \in SeqNums /\ noted.out \in Seq(PDU)
      /\ noted.calls \in Seq(DiagnosticCall)
  BY <1>1 DEF Continues, ConnInv, Connection
<1>3. m \in PDU
  BY <1>2 DEF Completed, NewMessage, PDU, MessageTypes
<1> HIDE DEF m
<1>4. /\ sent \in Connection /\ sent.snT = noted.snT
      /\ sent = IF noted.state = "Closed" THEN noted
                ELSE [noted EXCEPT !.out = @ \o << m >>]
  <2>1. noted.out \o << m >> \in Seq(PDU)
    BY <1>2, <1>3
  <2> QED
    BY <1>2, <2>1 DEF SradinSend, Connection
<1>5. /\ sent.server = noted.server /\ sent.nSendMax = noted.nSendMax
      /\ sent.inputSn = noted.inputSn /\ sent.csT = noted.csT
      /\ sent.snR = noted.snR
      /\ sent.input = noted.input /\ sent.recvBuf = noted.recvBuf
      /\ sent.calls = noted.calls /\ sent.fatal = noted.fatal
  BY <1>2, <1>4 DEF Connection
<1> HIDE DEF sent
<1>6. d = [sent EXCEPT !.snT = Plus(@, 1), !.sendBuf = EmptyBuffer]
  BY DEF SendDiscReqMessage, sent, m
<1>7. Plus(sent.snT, 1) \in SeqNums /\ EmptyBuffer \in SendBuffer
      /\ \A sn : Gapless(EmptyBuffer, sn)
  <2>1. EmptyBuffer \in SendBuffer /\ \A sn : Gapless(EmptyBuffer, sn)
    BY SizesKnown DEF EmptyBuffer, SendBuffer, Gapless
  <2> QED
    BY <1>2, <1>4, <2>1, PlusMinusType, SmallNumbers
<1> HIDE DEF d
<1>8. notify \in DiagnosticCall
  BY DEF DiagnosticCall
<1>9. CloseConnection(c, reason, incoming, now) = e
  BY DEF CloseConnection, ChannelClosed, noted, d
<1>10. /\ d \in Connection /\ d.sendBuf = EmptyBuffer
       /\ d.server = sent.server /\ d.nSendMax = sent.nSendMax
       /\ d.inputSn = sent.inputSn /\ d.csT = sent.csT
       /\ d.snR = sent.snR
       /\ d.input = sent.input /\ d.recvBuf = sent.recvBuf
       /\ d.calls = sent.calls /\ d.fatal = sent.fatal
  <2>1. sent \in Connection
    BY <1>4
  <2> QED
    BY <1>6, <1>7, <2>1 DEF Connection
<1>11. e = [d EXCEPT !.inbox = <<>>, !.calls = Append(@, notify), !.state = "Closed",
                     !.reason = reason]
  BY <1>10 DEF Diagnose, Connection
<1> HIDE DEF e
<1>12. Append(d.calls, notify) \in Seq(DiagnosticCall)
  BY <1>2, <1>5, <1>8, <1>10
<1>13. /\ e \in Connection /\ e.sendBuf = EmptyBuffer
       /\ e.server = d.server /\ e.nSendMax = d.nSendMax
       /\ e.inputSn = d.inputSn /\ e.csT = d.csT
       /\ e.snR = d.snR
       /\ e.input = d.input /\ e.recvBuf = d.recvBuf
       /\ e.calls = Append(d.calls, notify) /\ e.fatal = d.fatal
       /\ e.state = "Closed" /\ e.inbox = <<>>
  <2>1. "Closed" \in States /\ <<>> \in Seq(PDU)
    BY DEF States
  <2> HIDE DEF notify
  <2> QED
    BY <1>10, <1>11, <1>12, <2>1 DEF Connection
<1> HIDE DEF notify
<1>14. Continues(c, e)
  BY <1>1, <1>5, <1>7, <1>10, <1>13 DEF Continues, ConnInv
<1> QED
  BY <1>1, <1>5, <1>9, <1>10, <1>13, <1>14 DEF Closes, notify

(* CloseRedundancyChannel.                                                 *)
LEMMA CloseRedundancyChannelCloses ==
  ASSUME NEW c, ConnInv(c), NEW incoming \in BOOLEAN, c.state # "Closed"
  PROVE  Closes(c, CloseRedundancyChannel(c, incoming))
<1> DEFINE noted == IF incoming THEN UpdateConfirmedTx(c) ELSE c
           notify == [call |-> "Notify"]
           d == Diagnose([noted EXCEPT !.inbox = <<>>], "Notify")
           e == UpdateConnectionState(d, "Closed")
<1>1. Continues(c, noted) /\ noted.calls = c.calls /\ noted.recvBuf = c.recvBuf
  BY ConfirmedTxContinues DEF Continues
<1> HIDE DEF noted
<1>2. noted \in Connection /\ noted.calls \in Seq(DiagnosticCall)
  BY <1>1 DEF Continues, ConnInv, Connection
<1>3. notify \in DiagnosticCall
  BY DEF DiagnosticCall
<1>4. d = [noted EXCEPT !.inbox = <<>>, !.calls = Append(@, notify)]
  BY <1>2 DEF Diagnose, Connection
<1>5. CloseRedundancyChannel(c, incoming) = e
  BY DEF CloseRedundancyChannel, ChannelClosed, noted
<1>6. Append(noted.calls, notify) \in Seq(DiagnosticCall)
  BY <1>2, <1>3
<1> HIDE DEF d, notify
<1>7. /\ d \in Connection /\ d.sendBuf = noted.sendBuf /\ d.snT = noted.snT
      /\ d.server = noted.server /\ d.nSendMax = noted.nSendMax
      /\ d.inputSn = noted.inputSn /\ d.csT = noted.csT
      /\ d.snR = noted.snR
      /\ d.input = noted.input /\ d.recvBuf = noted.recvBuf
      /\ d.calls = Append(noted.calls, notify) /\ d.fatal = noted.fatal /\ d.inbox = <<>>
  <2>1. <<>> \in Seq(PDU)
    OBVIOUS
  <2> QED
    BY <1>2, <1>4, <1>6, <2>1 DEF Connection
<1>8. /\ e \in Connection /\ e.sendBuf = d.sendBuf /\ e.snT = d.snT
      /\ e.server = d.server /\ e.nSendMax = d.nSendMax
      /\ e.inputSn = d.inputSn /\ e.csT = d.csT
      /\ e.snR = d.snR
      /\ e.input = d.input /\ e.recvBuf = d.recvBuf
      /\ e.calls = d.calls /\ e.fatal = d.fatal /\ e.inbox = d.inbox /\ e.state = "Closed"
  <2>1. CASE d.state = "Closed"
    <3>1. e = d
      BY <2>1 DEF UpdateConnectionState
    <3> QED
      BY <1>7, <2>1, <3>1
  <2>2. CASE d.state # "Closed"
    <3>1. e = [d EXCEPT !.state = "Closed", !.reason = "NotInUse"]
      BY <2>2 DEF UpdateConnectionState
    <3> HIDE DEF e
    <3> QED
      BY <1>7, <3>1 DEF Connection, States, DiscReasons
  <2> QED
    BY <2>1, <2>2
<1> HIDE DEF e
<1>9. Continues(c, e)
  BY <1>1, <1>7, <1>8 DEF Continues, ConnInv
<1> QED
  BY <1>1, <1>5, <1>7, <1>8, <1>9 DEF Closes, notify

-----------------------------------------------------------------------------
(* Regular processing of a message.                                        *)

(* The timer was set by a message that took r ticks there and back.        *)
SetAt(c, now) ==
  \E r \in 0 .. TMax :
    c.ti = TMax - r /\ c.ctsR = Minus(Plus(now, Granularity), r)

(* A message the peer has to send sets the timer and is counted.           *)
Lives(c, d, now) ==
  /\ Continues(c, d) /\ Caught(d)
  /\ d.state \in OpenStates /\ d.inbox = c.inbox
  /\ Len(d.recvBuf) <= Len(c.recvBuf) + 1
  /\ SetAt(d, now)
  /\ \E times \in DiagnosticCall : times.call = "Update" /\ d.calls = Append(c.calls, times)

(* The message m is in the input buffer.                                   *)
Holds(c, m) == ConnInv(c) /\ m \in PDU /\ c.input /\ c.inputSn = m.sn

(* The confirmed time stamp is the round trip delay ago.                   *)
LEMMA RoundTripDelayType ==
  ASSUME NEW m \in PDU, NEW now \in SeqNums
  PROVE  /\ RoundTripDelay(m, now) \in SeqNums
         /\ m.cts = Minus(Plus(now, Granularity), RoundTripDelay(m, now))
BY SizesKnown DEF RoundTripDelay, PDU, Plus, Minus, SeqNums

(* The numbers and time stamps of a message are taken over.                *)
LEMMA NotedHeaderKeeps ==
  ASSUME NEW c, NEW m, Holds(c, m), NEW now \in SeqNums, TimelinessRespected(m, now)
  PROVE  LET n == NotedHeader(c, m, now)
         IN  /\ ConnInv(n) /\ n.server = c.server /\ n.nSendMax = c.nSendMax
             /\ n.state = c.state /\ n.inputSn = c.inputSn /\ n.csT = m.sn
             /\ n.snR = Plus(m.sn, 1)
             /\ n.inbox = c.inbox /\ n.recvBuf = c.recvBuf /\ n.calls = c.calls
             /\ Used(n) <= Used(c)
             /\ m.type \in TimeoutRelated => SetAt(n, now)
             /\ m.type \notin TimeoutRelated =>
                  n.ti = c.ti /\ n.ctsR = IF m.type = "ConnReq" THEN now ELSE c.ctsR
<1> DEFINE rtd == RoundTripDelay(m, now)
           ti == IF m.type \in TimeoutRelated THEN TMax - rtd ELSE c.ti
           csR == IF m.type = "ConnReq" THEN Minus(c.snT, 1) ELSE m.cs
           ctsR == CASE m.type \in TimeoutRelated -> m.cts
                     [] m.type = "ConnReq" -> now
                     [] OTHER -> c.ctsR
           b == IF m.type # "ConnReq" /\ m.cs # c.csR
                  THEN RemoveFromBuffer(c.sendBuf, m.cs) ELSE c.sendBuf
           n == [c EXCEPT !.ti = ti, !.snR = Plus(m.sn, 1), !.csT = m.sn, !.csR = csR,
                          !.tsR = m.ts, !.ctsR = ctsR, !.sendBuf = b]
<1>1. /\ c.snT \in SeqNums /\ c.ctsR \in SeqNums /\ c.ti \in 0 .. TMax
      /\ c.sendBuf \in SendBuffer
  BY DEF Holds, ConnInv, Connection
<1>2. /\ m.sn \in SeqNums /\ m.cs \in SeqNums /\ m.ts \in SeqNums /\ m.cts \in SeqNums
  BY DEF Holds, PDU
<1>3. /\ rtd \in SeqNums /\ m.cts = Minus(Plus(now, Granularity), rtd)
      /\ m.type \in TimeoutRelated => rtd \in 0 .. TMax
  <2>1. rtd \in SeqNums /\ m.cts = Minus(Plus(now, Granularity), rtd)
    BY RoundTripDelayType DEF Holds
  <2>2. m.type \in TimeoutRelated => rtd <= TMax
    BY DEF TimelinessRespected
  <2> HIDE DEF rtd
  <2> QED
    BY <2>1, <2>2, SizesKnown DEF SeqNums
<1> HIDE DEF rtd
<1>4. ti \in 0 .. TMax /\ csR \in SeqNums /\ ctsR \in SeqNums /\ Plus(m.sn, 1) \in SeqNums
  <2>1. csR \in SeqNums /\ Plus(m.sn, 1) \in SeqNums
    BY <1>1, <1>2, PlusMinusType, SmallNumbers
  <2>2. ti \in 0 .. TMax
    BY <1>1, <1>3, SizesKnown
  <2>3. ctsR \in SeqNums
    BY <1>1, <1>2 DEF TimeoutRelated
  <2> QED
    BY <2>1, <2>2, <2>3
<1>5. Numbered(b, c.snT, Used(c))
  <2>1. Numbered(c.sendBuf, c.snT, Used(c)) /\ Used(c) \in Nat
    BY <1>1, UsedSize DEF Holds, ConnInv, Numbered, Used
  <2> QED
    BY <2>1, RemoveNumbered
<1>6. b \in SendBuffer /\ Gapless(b, c.snT) /\ Len(b.msgs) <= Used(c)
  BY <1>5 DEF Numbered
<1>7. m.type \in TimeoutRelated => ti = TMax - rtd /\ ctsR = m.cts
  BY DEF TimeoutRelated
<1>8. m.type \notin TimeoutRelated =>
        ti = c.ti /\ ctsR = IF m.type = "ConnReq" THEN now ELSE c.ctsR
  BY DEF TimeoutRelated
<1>9. NotedHeader(c, m, now) = n
  BY DEF NotedHeader, ti, csR, ctsR, b, rtd
<1> HIDE DEF ti, csR, ctsR, b
<1>10. /\ n \in Connection /\ n.server = c.server /\ n.nSendMax = c.nSendMax
       /\ n.state = c.state /\ n.inputSn = c.inputSn /\ n.csT = m.sn
       /\ n.snR = Plus(m.sn, 1)
       /\ n.inbox = c.inbox /\ n.recvBuf = c.recvBuf /\ n.calls = c.calls
       /\ n.sendBuf = b /\ n.snT = c.snT /\ n.fatal = c.fatal
       /\ n.ti = ti /\ n.ctsR = ctsR
  BY <1>2, <1>4, <1>6 DEF Holds, ConnInv, Connection
<1> HIDE DEF n
<1>11. ConnInv(n) /\ Used(n) <= Used(c)
  BY <1>6, <1>10 DEF Holds, ConnInv, Used
<1>12. m.type \in TimeoutRelated => SetAt(n, now)
  BY <1>3, <1>7, <1>10 DEF SetAt
<1> QED
  BY <1>8, <1>9, <1>10, <1>11, <1>12

(* The payload of a message that has to be in sequence goes to a received  *)
(* buffer with room for it.                                                *)
LEMMA TakenPayloadKeeps ==
  ASSUME NEW c, ConnInv(c), NEW m \in PDU, Len(c.recvBuf) < c.nSendMax
  PROVE  LET t == TakenPayload(c, m)
         IN  /\ ConnInv(t) /\ t.server = c.server /\ t.nSendMax = c.nSendMax
             /\ t.state = c.state /\ t.inputSn = c.inputSn /\ t.csT = c.csT
             /\ t.snR = c.snR
             /\ t.inbox = c.inbox /\ t.calls = c.calls /\ t.ti = c.ti /\ t.ctsR = c.ctsR
             /\ Used(t) = Used(c)
             /\ Len(t.recvBuf) <= Len(c.recvBuf) + 1
             /\ m.type \notin TimeoutRelated => t.recvBuf = c.recvBuf
<1>1. c \in Connection /\ c.recvBuf \in Seq(Nat) /\ Len(c.recvBuf) \in Nat
      /\ c.nSendMax \in Nat /\ m.payload \in Nat
  BY SizesKnown DEF ConnInv, Connection, PDU
<1>2. CASE m.type \in {"ConnReq", "ConnResp"}
  <2> DEFINE t == [c EXCEPT !.opposite = m.payload]
  <2>1. TakenPayload(c, m) = t
    BY <1>2 DEF TakenPayload
  <2>2. /\ t \in Connection /\ t.server = c.server /\ t.nSendMax = c.nSendMax
        /\ t.state = c.state /\ t.inputSn = c.inputSn /\ t.csT = c.csT
        /\ t.snR = c.snR
        /\ t.inbox = c.inbox /\ t.calls = c.calls /\ t.ti = c.ti /\ t.ctsR = c.ctsR
        /\ t.sendBuf = c.sendBuf /\ t.snT = c.snT /\ t.fatal = c.fatal
        /\ t.recvBuf = c.recvBuf
    BY <1>1 DEF Connection
  <2> HIDE DEF t
  <2> QED
    BY <1>1, <2>1, <2>2 DEF ConnInv, Used
<1>3. CASE m.type \in {"Data", "RetrData"}
  <2> DEFINE t == [c EXCEPT !.recvBuf = Append(@, m.payload)]
  <2>1. TakenPayload(c, m) = t
    BY <1>3 DEF TakenPayload, Require
  <2>2. /\ Append(c.recvBuf, m.payload) \in Seq(Nat)
        /\ Len(Append(c.recvBuf, m.payload)) = Len(c.recvBuf) + 1
    BY <1>1
  <2>3. /\ t \in Connection /\ t.server = c.server /\ t.nSendMax = c.nSendMax
        /\ t.state = c.state /\ t.inputSn = c.inputSn /\ t.csT = c.csT
        /\ t.snR = c.snR
        /\ t.inbox = c.inbox /\ t.calls = c.calls /\ t.ti = c.ti /\ t.ctsR = c.ctsR
        /\ t.sendBuf = c.sendBuf /\ t.snT = c.snT /\ t.fatal = c.fatal
        /\ t.recvBuf = Append(c.recvBuf, m.payload)
    BY <1>1, <2>2 DEF Connection
  <2> HIDE DEF t
  <2>4. ConnInv(t) /\ Len(t.recvBuf) <= Len(c.recvBuf) + 1 /\ Used(t) = Used(c)
    BY <1>1, <2>2, <2>3 DEF ConnInv, Used
  <2> QED
    BY <1>3, <2>1, <2>3, <2>4 DEF TimeoutRelated
<1>4. CASE m.type \notin {"ConnReq", "ConnResp", "Data", "RetrData"}
  <2>1. TakenPayload(c, m) = c
    BY <1>4 DEF TakenPayload
  <2> QED
    BY <1>1, <2>1
<1> QED
  BY <1>2, <1>3, <1>4

(* A message that was processed regularly but needs no answer in time.     *)
Noted(c, m, d, now) ==
  /\ Continues(c, d) /\ Caught(d)
  /\ d.state = c.state /\ d.inbox = c.inbox /\ d.recvBuf = c.recvBuf /\ d.calls = c.calls
  /\ d.ti = c.ti /\ d.ctsR = IF m.type = "ConnReq" THEN now ELSE c.ctsR
  /\ Used(d) <= Used(c) + IF m.type = "RetrResp" THEN 1 ELSE 0

(* ProcessReceivedMessage closes the connection if the message is too old. *)
(* Otherwise one with a time stamp sets the timer, and no other does.      *)
LEMMA ProcessReceivedMessageEffect ==
  ASSUME NEW c, NEW m, Holds(c, m), NEW now \in SeqNums, Len(c.recvBuf) < c.nSendMax,
         c.state \in States \ {"Closed"}
  PROVE  LET p == ProcessReceivedMessage(c, m, now)
         IN  \/ m.type \in TimeoutRelated /\ Closes(c, p)
             \/ /\ m.type \in TimeoutRelated /\ p.state = c.state
                /\ c.state \in OpenStates => Lives(c, p, now)
             \/ m.type \notin TimeoutRelated /\ Noted(c, m, p, now)
<1> DEFINE p == ProcessReceivedMessage(c, m, now)
           n == NotedHeader(c, m, now)
           t == TakenPayload(n, m)
           f == ReceivedFlowControlCheck(t, m, now)
           times == [call |-> "Update", rtd |-> RoundTripDelay(m, now),
                     alive |-> Minus(now, c.ctsR)]
<1>1. CASE ~ TimelinessRespected(m, now)
  <2> DEFINE late == [c EXCEPT !.ti = 0, !.input = FALSE]
  <2>1. p = CloseConnection(late, "Timeout", TRUE, now) /\ m.type \in TimeoutRelated
    BY <1>1 DEF ProcessReceivedMessage, TimelinessRespected
  <2>2. /\ late \in Connection /\ late.server = c.server /\ late.nSendMax = c.nSendMax
        /\ late.inputSn = c.inputSn /\ late.csT = c.csT /\ late.input = FALSE
        /\ late.snR = c.snR
        /\ late.recvBuf = c.recvBuf /\ late.calls = c.calls /\ late.fatal = c.fatal
        /\ late.sendBuf = c.sendBuf /\ late.snT = c.snT
    <3>1. 0 \in 0 .. TMax
      BY SizesKnown
    <3>2. c \in Connection
      BY DEF Holds, ConnInv
    <3> QED
      BY <3>1, <3>2 DEF Connection
  <2> HIDE DEF late
  <2>3. Closes(late, CloseConnection(late, "Timeout", TRUE, now))
    BY <2>2, CloseConnectionCloses DEF Holds, ConnInv, DiscReasons
  <2>4. Closes(c, CloseConnection(late, "Timeout", TRUE, now))
    BY <2>2, <2>3 DEF Closes, Continues
  <2> QED
    BY <2>1, <2>4
<1>2. CASE TimelinessRespected(m, now)
  <2>1. /\ ConnInv(n) /\ n.server = c.server /\ n.nSendMax = c.nSendMax
        /\ n.state = c.state /\ n.inputSn = c.inputSn /\ n.csT = m.sn
        /\ n.snR = Plus(m.sn, 1)
        /\ n.inbox = c.inbox /\ n.recvBuf = c.recvBuf /\ n.calls = c.calls
        /\ Used(n) <= Used(c)
        /\ m.type \in TimeoutRelated => SetAt(n, now)
        /\ m.type \notin TimeoutRelated =>
             n.ti = c.ti /\ n.ctsR = IF m.type = "ConnReq" THEN now ELSE c.ctsR
    BY <1>2, NotedHeaderKeeps
  <2>2. m \in PDU /\ m.sn = c.inputSn /\ c.input /\ Len(n.recvBuf) < n.nSendMax
    BY <2>1 DEF Holds
  <2> HIDE DEF n
  <2>3. /\ ConnInv(t) /\ t.server = n.server /\ t.nSendMax = n.nSendMax
        /\ t.state = n.state /\ t.inputSn = n.inputSn /\ t.csT = n.csT
        /\ t.snR = n.snR
        /\ t.inbox = n.inbox /\ t.calls = n.calls /\ t.ti = n.ti /\ t.ctsR = n.ctsR
        /\ Used(t) = Used(n)
        /\ Len(t.recvBuf) <= Len(n.recvBuf) + 1
        /\ m.type \notin TimeoutRelated => t.recvBuf = n.recvBuf
    BY <2>1, <2>2, TakenPayloadKeeps
  <2> HIDE DEF t
  <2>4. Sends(t, f, IF m.type \in {"Hb", "RetrResp", "Data", "RetrData"} THEN 1 ELSE 0)
    <3>1. Sends(t, f, 1)
      BY <2>3, FlowControlSends
    <3>2. m.type \notin {"Hb", "RetrResp", "Data", "RetrData"} => f = t
      BY DEF ReceivedFlowControlCheck
    <3>3. Sends(t, t, 0)
      BY <2>3, UsedSize DEF Sends, SendSide
    <3> QED
      BY <3>1, <3>2, <3>3
  <2> HIDE DEF f
  <2>9. Minus(Plus(m.sn, 1), 1) = m.sn
    BY <2>2, SizesKnown DEF PDU, SeqNums, Plus, Minus
  <2>5. /\ ConnInv(f) /\ f.server = c.server /\ f.nSendMax = c.nSendMax
        /\ f.state = c.state /\ f.inputSn = c.inputSn /\ f.csT \in {m.sn, 0}
        /\ f.snR = Plus(m.sn, 1)
        /\ f.inbox = c.inbox /\ f.calls = c.calls
        /\ Len(f.recvBuf) <= Len(c.recvBuf) + 1
        /\ m.type \in TimeoutRelated => SetAt(f, now)
        /\ m.type \notin TimeoutRelated =>
             /\ f.ti = c.ti /\ f.ctsR = IF m.type = "ConnReq" THEN now ELSE c.ctsR
             /\ f.recvBuf = c.recvBuf
    BY <2>1, <2>3, <2>4 DEF Sends, SendSide, SetAt
  <2>6. m.type \notin TimeoutRelated => Used(f) <= Used(c) + IF m.type = "RetrResp" THEN 1 ELSE 0
    <3>1. Used(f) \in Nat /\ Used(c) \in Nat /\ Used(t) \in Nat
      BY <2>3, <2>5, UsedSize DEF Holds
    <3> QED
      BY <2>1, <2>3, <2>4, <3>1 DEF Sends, TimeoutRelated
  <2>7. CASE m.type \notin TimeoutRelated
    <3> DEFINE d == [f EXCEPT !.input = FALSE]
    <3>1. p = d
      BY <1>2, <2>7 DEF ProcessReceivedMessage, f, t, n
    <3>2. /\ d \in Connection /\ d.server = f.server /\ d.nSendMax = f.nSendMax
          /\ d.state = f.state /\ d.inputSn = f.inputSn /\ d.csT = f.csT
          /\ d.snR = f.snR
          /\ d.inbox = f.inbox /\ d.calls = f.calls /\ d.ti = f.ti /\ d.ctsR = f.ctsR
          /\ d.recvBuf = f.recvBuf /\ d.sendBuf = f.sendBuf /\ d.snT = f.snT
          /\ d.fatal = f.fatal /\ d.input = FALSE
      BY <2>5 DEF ConnInv, Connection
    <3> HIDE DEF d
    <3>3. Continues(c, d)
      BY <2>2, <2>5, <3>2 DEF Continues, ConnInv
    <3>4. Noted(c, m, d, now)
      BY <2>5, <2>6, <2>7, <2>9, <3>2, <3>3 DEF Noted, Used, Caught
    <3> QED
      BY <2>7, <3>1, <3>4
  <2>8. CASE m.type \in TimeoutRelated
    <3> DEFINE r == Require(f, times.alive <= TMax, "InvalidParameter")
               d == [r EXCEPT !.input = FALSE, !.calls = Append(@, times)]
    <3>1. p = d
      BY <1>2, <2>8 DEF ProcessReceivedMessage, f, t, n
    <3>2. times \in DiagnosticCall /\ times.call = "Update"
      <4>1. RoundTripDelay(m, now) \in SeqNums /\ c.ctsR \in SeqNums
        BY RoundTripDelayType DEF Holds, ConnInv, Connection
      <4> QED
        BY <4>1, PlusMinusType DEF DiagnosticCall
    <3>3. Sends(f, r, 0)
      <4> DEFINE respected == times.alive <= TMax
      <4>1. respected \in BOOLEAN /\ "InvalidParameter" \in Errors \ {"ReceiveBufferFull"}
        BY DEF Errors
      <4> HIDE DEF respected
      <4>2. Sends(f, Require(f, respected, "InvalidParameter"), 0)
        BY <2>5, <4>1, RequireSends
      <4> QED
        BY <4>2 DEF respected
    <3> HIDE DEF r, times
    <3>4. r \in Connection /\ Append(r.calls, times) \in Seq(DiagnosticCall)
      BY <3>2, <3>3 DEF Sends, ConnInv, Connection
    <3>5. /\ d \in Connection /\ d.server = r.server /\ d.nSendMax = r.nSendMax
          /\ d.state = r.state /\ d.inputSn = r.inputSn /\ d.csT = r.csT
          /\ d.snR = r.snR
          /\ d.inbox = r.inbox /\ d.calls = Append(r.calls, times)
          /\ d.ti = r.ti /\ d.ctsR = r.ctsR
          /\ d.recvBuf = r.recvBuf /\ d.sendBuf = r.sendBuf /\ d.snT = r.snT
          /\ d.fatal = r.fatal /\ d.input = FALSE
      BY <3>4 DEF Connection
    <3> HIDE DEF d
    <3>6. Continues(c, d)
      BY <2>2, <2>5, <3>3, <3>5 DEF Sends, SendSide, Continues, ConnInv
    <3>7. d.state = c.state /\ d.inbox = c.inbox /\ d.calls = Append(c.calls, times)
          /\ Len(d.recvBuf) <= Len(c.recvBuf) + 1 /\ SetAt(d, now)
      BY <2>5, <2>8, <3>3, <3>5 DEF Sends, SendSide, SetAt
    <3>8. Caught(d)
      BY <2>5, <2>9, <3>3, <3>5 DEF Sends, SendSide, Caught
    <3> QED
      BY <2>8, <3>1, <3>2, <3>6, <3>7, <3>8 DEF Lives
  <2> QED
    BY <2>7, <2>8
<1> QED
  BY <1>1, <1>2

-----------------------------------------------------------------------------
(* The events of messages.                                                 *)

(* The state and the timer stay as they are.                               *)
Still(c, d, k) ==
  /\ Continues(c, d)
  /\ d.state = c.state /\ d.ctsR = c.ctsR /\ d.ti = c.ti /\ d.calls = c.calls
  /\ d.recvBuf = c.recvBuf /\ d.inbox = c.inbox
  /\ Caught(c) => Caught(d)
  /\ Used(d) <= Used(c) + k

(* Sending is one way to it, ...                                           *)
LEMMA SendsStill ==
  ASSUME NEW c, ConnInv(c), NEW d, NEW k \in Nat, Sends(c, d, k)
  PROVE  Still(c, d, k)
BY DEF Sends, SendSide, Still, Continues, Caught

(* ... what is done after it counts from the connection before it, ...     *)
LEMMA StillTransitive ==
  ASSUME NEW c, ConnInv(c), NEW d, NEW e, NEW k \in Nat, NEW l \in Nat,
         Still(c, d, k), Still(d, e, l)
  PROVE  Still(c, e, k + l)
<1>1. Used(c) \in Nat /\ Used(d) \in Nat /\ Used(e) \in Nat
  BY UsedSize DEF Still, Continues
<1>2. Used(e) <= Used(c) + (k + l)
  BY <1>1 DEF Still
<1>3. Continues(c, e)
  BY DEF Still, Continues
<1> QED
  BY <1>2, <1>3 DEF Still

(* ... also if it closes the connection.                                   *)
LEMMA StillCloses ==
  ASSUME NEW c, ConnInv(c), NEW d, NEW e, NEW k \in Nat, Still(c, d, k), Closes(d, e)
  PROVE  Closes(c, e)
BY DEF Still, Closes, Continues

(* Nothing but the state changes (UpdateConnectionState).                  *)
Turns(c, d, state) ==
  /\ ConnInv(d) /\ d.state = state
  /\ d.server = c.server /\ d.nSendMax = c.nSendMax /\ d.inputSn = c.inputSn
  /\ d.csT = c.csT /\ d.input = c.input /\ d.ctsR = c.ctsR /\ d.ti = c.ti
  /\ d.snR = c.snR
  /\ d.recvBuf = c.recvBuf /\ d.inbox = c.inbox /\ d.calls = c.calls

(* UpdateConnectionState does just that.                                   *)
LEMMA StateTurns ==
  ASSUME NEW c, ConnInv(c), NEW state \in States
  PROVE  Turns(c, UpdateConnectionState(c, state), state)
<1> DEFINE d == [c EXCEPT !.state = state, !.reason = "NotInUse"]
<1>1. CASE state = c.state
  BY <1>1 DEF UpdateConnectionState, Turns
<1>2. CASE state # c.state
  <2>1. UpdateConnectionState(c, state) = d
    BY <1>2 DEF UpdateConnectionState
  <2>2. "NotInUse" \in DiscReasons
    BY DEF DiscReasons
  <2>3. /\ d \in Connection /\ d.state = state
        /\ d.server = c.server /\ d.nSendMax = c.nSendMax /\ d.inputSn = c.inputSn
        /\ d.csT = c.csT /\ d.input = c.input /\ d.ctsR = c.ctsR /\ d.ti = c.ti
        /\ d.snR = c.snR
        /\ d.recvBuf = c.recvBuf /\ d.inbox = c.inbox /\ d.calls = c.calls
        /\ d.sendBuf = c.sendBuf /\ d.snT = c.snT /\ d.fatal = c.fatal
    BY <2>2 DEF ConnInv, Connection
  <2> HIDE DEF d
  <2> QED
    BY <2>1, <2>3 DEF Turns, ConnInv
<1> QED
  BY <1>1, <1>2

(* A connection that stays open and only changes its state is quiet.       *)
LEMMA StillTurnsQuiet ==
  ASSUME NEW c, ConnInv(c), NEW d, NEW k \in Nat, Still(c, d, k), NEW state \in OpenStates,
         c.state \in OpenStates, ~ (c.server /\ c.state = "Start")
  PROVE  Quiet(c, UpdateConnectionState(d, state))
<1>1. state \in States
  BY DEF OpenStates
<1>2. Turns(d, UpdateConnectionState(d, state), state)
  BY <1>1, StateTurns DEF Still, Continues
<1> QED
  BY <1>2 DEF Turns, Still, Continues, Quiet, StaysOpen, Caught

(* What keeps the state and the timer is quiet.                            *)
LEMMA StillQuiet ==
  ASSUME NEW c, NEW d, NEW k, Still(c, d, k)
  PROVE  Quiet(c, d)
BY DEF Still, Quiet, StaysOpen

(* The message in the input buffer is done with.                           *)
LEMMA InputTakenStill ==
  ASSUME NEW c, ConnInv(c)
  PROVE  Still(c, [c EXCEPT !.input = FALSE], 0)
<1> DEFINE d == [c EXCEPT !.input = FALSE]
<1>1. /\ d \in Connection /\ d.state = c.state /\ d.server = c.server
      /\ d.nSendMax = c.nSendMax /\ d.inputSn = c.inputSn /\ d.csT = c.csT
      /\ d.snR = c.snR
      /\ d.input = FALSE /\ d.ctsR = c.ctsR /\ d.ti = c.ti /\ d.recvBuf = c.recvBuf
      /\ d.inbox = c.inbox /\ d.calls = c.calls
      /\ d.sendBuf = c.sendBuf /\ d.snT = c.snT /\ d.fatal = c.fatal
  BY DEF ConnInv, Connection
<1> HIDE DEF d
<1>2. ConnInv(d) /\ Used(d) = Used(c) /\ Used(c) \in Nat
  BY <1>1, UsedSize DEF ConnInv, Used
<1>3. Still(c, d, 0)
  BY <1>1, <1>2 DEF Still, Continues, Caught
<1> QED
  BY <1>3 DEF d

(* srcor_UpdateConfirmedRxSequenceNumber                                   *)
LEMMA ConfirmedRxStill ==
  ASSUME NEW c, ConnInv(c), NEW m \in PDU
  PROVE  Still(c, UpdateConfirmedRx(c, m), 0)
<1>1. CASE c.input
  <2> DEFINE b == RemoveFromBuffer(c.sendBuf, m.cs)
             d == [c EXCEPT !.csR = m.cs, !.sendBuf = b, !.input = FALSE]
  <2>1. Numbered(c.sendBuf, c.snT, Used(c)) /\ Used(c) \in Nat
    BY UsedSize DEF ConnInv, Connection, Numbered, Used
  <2>2. Numbered(b, c.snT, Used(c))
    BY <2>1, RemoveNumbered
  <2>3. b \in SendBuffer /\ m.cs \in SeqNums
    BY <2>2 DEF Numbered, PDU
  <2>4. UpdateConfirmedRx(c, m) = d
    BY <1>1 DEF UpdateConfirmedRx
  <2> HIDE DEF b
  <2>5. /\ d \in Connection /\ d.state = c.state /\ d.server = c.server
        /\ d.nSendMax = c.nSendMax /\ d.inputSn = c.inputSn /\ d.csT = c.csT
        /\ d.snR = c.snR
        /\ d.input = FALSE /\ d.ctsR = c.ctsR /\ d.ti = c.ti /\ d.recvBuf = c.recvBuf
        /\ d.inbox = c.inbox /\ d.calls = c.calls
        /\ d.sendBuf = b /\ d.snT = c.snT /\ d.fatal = c.fatal
    BY <2>3 DEF ConnInv, Connection
  <2> HIDE DEF d
  <2>6. ConnInv(d) /\ Used(d) <= Used(c) + 0
    BY <2>1, <2>2, <2>5 DEF ConnInv, Numbered, Used
  <2> QED
    BY <2>4, <2>5, <2>6 DEF Still, Continues, Caught
<1>2. CASE ~ c.input
  <2>1. UpdateConfirmedRx(c, m) = c /\ Used(c) \in Nat
    BY <1>2, UsedSize DEF UpdateConfirmedRx
  <2> QED
    BY <2>1 DEF Still, Continues
<1> QED
  BY <1>1, <1>2

(* A server answers the connection request.                                *)
Starts(c, d, now) ==
  /\ Continues(c, d) /\ Caught(d)
  /\ c.state = "Down" /\ d.state = "Start"
  /\ d.ctsR = now /\ d.ti = c.ti /\ d.calls = c.calls
  /\ d.recvBuf = c.recvBuf /\ d.inbox = c.inbox

(* What a message may make of a connection.                                *)
Goes(c, d, now) ==
  Closes(c, d) \/ Lives(c, d, now) \/ Quiet(c, d) \/ Starts(c, d, now)

(* A message is in the input buffer of a connection that is open, and      *)
(* there is room for what it brings and for what answers it.               *)
Receives(c, m) ==
  /\ Holds(c, m)
  /\ c.state \in States \ {"Closed"}
  /\ Len(c.recvBuf) < c.nSendMax
  /\ Used(c) + 3 <= SendBufferSize

(* Closing because of a message is one thing it may do.                    *)
LEMMA RejectionGoes ==
  ASSUME NEW c, ConnInv(c), NEW reason \in DiscReasons, NEW now \in SeqNums
  PROVE  Goes(c, CloseConnection(c, reason, TRUE, now), now)
BY CloseConnectionCloses DEF Goes

(* So is closing without an answer to it.                                  *)
LEMMA DisconnectionGoes ==
  ASSUME NEW c, NEW m, Receives(c, m), NEW now
  PROVE  Goes(c, CloseRedundancyChannel(c, TRUE), now)
BY CloseRedundancyChannelCloses DEF Goes, Receives, Holds

(* What a message that need not come in time leaves behind.                *)
LEMMA NotedStill ==
  ASSUME NEW c, NEW m, Receives(c, m), NEW now \in SeqNums,
         m.type \notin TimeoutRelated \cup {"ConnReq"}
  PROVE  Still(c, ProcessReceivedMessage(c, m, now), IF m.type = "RetrResp" THEN 1 ELSE 0)
<1>1. Noted(c, m, ProcessReceivedMessage(c, m, now), now)
  BY ProcessReceivedMessageEffect DEF Receives
<1> QED
  BY <1>1 DEF Noted, Still

(* A sign of life that is in sequence.                                     *)
LEMMA InSequenceGoes ==
  ASSUME NEW c, NEW m, Receives(c, m), NEW now \in SeqNums, m.type \in TimeoutRelated,
         c.state \in OpenStates, NEW state \in OpenStates
  PROVE  Goes(c, ProcessInSequence(c, m, state, now), now)
<1> DEFINE p == ProcessReceivedMessage(c, m, now)
           d == UpdateConnectionState(p, state)
<1>1. Closes(c, p) \/ (p.state = c.state /\ Lives(c, p, now))
  BY ProcessReceivedMessageEffect DEF Receives
<1> HIDE DEF p
<1>2. CASE Closes(c, p)
  <2>1. Unless(p, d) = p
    BY <1>2 DEF Unless, Closes
  <2> QED
    BY <1>2, <2>1, RejectionGoes DEF ProcessInSequence, Goes, p, Receives, Holds, DiscReasons
<1>3. CASE p.state = c.state /\ Lives(c, p, now)
  <2>1. state \in States /\ p.state # "Closed"
    BY <1>3 DEF OpenStates
  <2>2. Turns(p, d, state)
    BY <1>3, <2>1, StateTurns DEF Lives, Continues
  <2> HIDE DEF d
  <2>3. Lives(c, d, now)
    BY <1>3, <2>2 DEF Lives, Continues, Turns, SetAt, Caught
  <2>4. Unless(p, d) = d
    BY <2>1 DEF Unless
  <2> QED
    BY <2>3, <2>4, RejectionGoes DEF ProcessInSequence, Goes, p, d, Receives, Holds, DiscReasons
<1> QED
  BY <1>1, <1>2, <1>3

(* A message out of sequence.                                              *)
LEMMA RequestGoes ==
  ASSUME NEW c, NEW m, Receives(c, m), NEW now \in SeqNums,
         c.state \in {"Up", "RetransRunning"}
  PROVE  Goes(c, RequestRetransmission(c, now), now)
<1> DEFINE d == [c EXCEPT !.input = FALSE]
           e == SendRetrReqMessage(d, now)
<1>1. ConnInv(c)
  BY DEF Receives, Holds
<1>2. Still(c, d, 0)
  BY <1>1, InputTakenStill
<1> HIDE DEF d
<1>3. Sends(d, e, 1) /\ ConnInv(d)
  BY <1>2, SendMessageSends DEF Still, Continues, SendRetrReqMessage, MessageTypes
<1>4. Still(c, e, 0 + 1)
  BY <1>1, <1>2, <1>3, SendsStill, StillTransitive
<1> HIDE DEF e
<1>5. Quiet(c, UpdateConnectionState(e, "RetransRequest"))
  BY <1>1, <1>4, StillTurnsQuiet, 0 + 1 = 1 DEF OpenStates, States
<1> QED
  BY <1>5 DEF RequestRetransmission, Goes, d, e

(* A request for retransmission, be it in sequence ...                     *)
LEMMA AnswerGoes ==
  ASSUME NEW c, NEW m, Receives(c, m), NEW now \in SeqNums, m.type = "RetrReq",
         c.state \in OpenStates
  PROVE  Goes(c, AnswerRetrReq(c, m, now), now)
<1> DEFINE p == ProcessReceivedMessage(c, m, now)
<1>1. ConnInv(c) /\ Used(c) \in Nat
  BY UsedSize DEF Receives, Holds
<1>2. Still(c, p, 0)
  BY NotedStill DEF TimeoutRelated
<1> HIDE DEF p
<1>3. ConnInv(p) /\ Used(p) + 2 <= SendBufferSize
  <2>1. ConnInv(p) /\ Used(p) <= Used(c) + 0
    BY <1>2 DEF Still, Continues
  <2>2. Used(p) \in Nat
    BY <2>1, UsedSize
  <2> QED
    BY <1>1, <2>1, <2>2, SizesKnown DEF Receives
<1>4. Still(p, HandleRetrReq(p), 2)
  BY <1>3, HandleRetrReqSends, SendsStill
<1>5. Still(c, HandleRetrReq(p), 0 + 2)
  BY <1>1, <1>2, <1>4, StillTransitive
<1>6. AnswerRetrReq(c, m, now) = HandleRetrReq(p)
  BY <1>2 DEF AnswerRetrReq, Unless, Still, OpenStates, p
<1> QED
  BY <1>5, <1>6, StillQuiet DEF Goes

(* ... or not.                                                             *)
LEMMA RetransmissionGoes ==
  ASSUME NEW c, NEW m, Receives(c, m), NEW now \in SeqNums, NEW requested \in BOOLEAN,
         c.state \in OpenStates \ {"Start"}
  PROVE  Goes(c, StartRetransmission(c, m, requested, now), now)
<1> DEFINE u == UpdateConfirmedRx(c, m)
           answered == HandleRetrReq(u)
           d == IF requested THEN SendRetrReqMessage(answered, now) ELSE answered
<1>1. ConnInv(c) /\ Used(c) \in Nat /\ m \in PDU
  BY UsedSize DEF Receives, Holds
<1>2. Still(c, u, 0)
  BY <1>1, ConfirmedRxStill
<1> HIDE DEF u
<1>3. ConnInv(u) /\ Used(u) + 2 <= SendBufferSize
  <2>1. ConnInv(u) /\ Used(u) <= Used(c) + 0
    BY <1>2 DEF Still, Continues
  <2>2. Used(u) \in Nat
    BY <2>1, UsedSize
  <2> QED
    BY <1>1, <2>1, <2>2, SizesKnown DEF Receives
<1>4. Sends(u, answered, 2)
  BY <1>3, HandleRetrReqSends
<1>5. Still(c, answered, 0 + 2) /\ ConnInv(answered)
  BY <1>1, <1>2, <1>3, <1>4, SendsStill, StillTransitive DEF Sends
<1> HIDE DEF answered
<1>6. Sends(answered, SendRetrReqMessage(answered, now), 1)
  BY <1>5, SendMessageSends DEF SendRetrReqMessage, MessageTypes
<1>7. Still(c, SendRetrReqMessage(answered, now), 2 + 1)
  BY <1>1, <1>5, <1>6, SendsStill, StillTransitive, 0 + 2 = 2
<1>8. \E k \in Nat : Still(c, d, k)
  BY <1>5, <1>7
<1> HIDE DEF d
<1>9. Quiet(c, UpdateConnectionState(d, "RetransRequest"))
  BY <1>1, <1>8, StillTurnsQuiet DEF OpenStates, States
<1> QED
  BY <1>9 DEF StartRetransmission, Goes, d, answered, u

(* The events of each state.                                               *)
LEMMA DownGoes ==
  ASSUME NEW c, NEW m, Receives(c, m), NEW now \in SeqNums, c.state = "Down"
  PROVE  Goes(c, DownEvents(c, m, now), now)
<1>1. ConnInv(c)
  BY DEF Receives, Holds
<1>2. CASE m.type # "ConnReq"
  BY <1>1, <1>2, SelfQuiet DEF DownEvents, Goes
<1>3. CASE m.type = "ConnReq" /\ m.version
  <2> DEFINE p == ProcessReceivedMessage(c, m, now)
             e == SendConnRespMessage(p, now)
             d == UpdateConnectionState(e, "Start")
  <2>1. Noted(c, m, p, now)
    BY <1>3, ProcessReceivedMessageEffect DEF Receives, TimeoutRelated
  <2> HIDE DEF p
  <2>2. ConnInv(p) /\ p.nSendMax \in Nat
    <3>1. ConnInv(p) /\ p \in Connection
      BY <2>1 DEF Noted, Continues, ConnInv
    <3> QED
      BY <3>1, SizesKnown DEF Connection
  <2>3. Sends(p, e, 1)
    BY <2>2, SendMessageSends DEF SendConnRespMessage, MessageTypes
  <2> HIDE DEF e
  <2>4. Turns(e, d, "Start")
    BY <2>3, StateTurns DEF Sends, States
  <2> HIDE DEF d
  <2>5. Starts(c, d, now)
    BY <1>3, <2>1, <2>3, <2>4
       DEF Noted, Sends, SendSide, Turns, Continues, Starts, Caught
  <2>6. DownEvents(c, m, now) = d
    BY <1>3 DEF DownEvents, d, e, p
  <2> QED
    BY <2>5, <2>6 DEF Goes
<1>4. CASE m.type = "ConnReq" /\ ~ m.version
  BY <1>1, <1>4, RejectionGoes DEF DownEvents, DiscReasons
<1> QED
  BY <1>2, <1>3, <1>4

(* A server that waits for a connection request closes only if the request *)
(* has another protocol version.                                           *)
LEMMA AcceptedRequestStays ==
  ASSUME NEW c, NEW m, Receives(c, m), NEW now \in SeqNums, c.state = "Down", m.version
  PROVE  ProcessMessageEvent(c, m, now).state # "Closed"
<1>1. ProcessMessageEvent(c, m, now) = DownEvents(c, m, now)
  BY DEF ProcessMessageEvent
<1>2. CASE m.type # "ConnReq"
  BY <1>1, <1>2 DEF DownEvents
<1>3. CASE m.type = "ConnReq"
  <2> DEFINE p == ProcessReceivedMessage(c, m, now)
             e == SendConnRespMessage(p, now)
             d == UpdateConnectionState(e, "Start")
  <2>1. Noted(c, m, p, now)
    BY <1>3, ProcessReceivedMessageEffect DEF Receives, TimeoutRelated
  <2> HIDE DEF p
  <2>2. ConnInv(p) /\ p.nSendMax \in Nat
    <3>1. ConnInv(p) /\ p \in Connection
      BY <2>1 DEF Noted, Continues, ConnInv
    <3> QED
      BY <3>1, SizesKnown DEF Connection
  <2>3. Sends(p, e, 1)
    BY <2>2, SendMessageSends DEF SendConnRespMessage, MessageTypes
  <2> HIDE DEF e
  <2>4. Turns(e, d, "Start")
    BY <2>3, StateTurns DEF Sends, States
  <2> HIDE DEF d
  <2>5. DownEvents(c, m, now) = d
    BY <1>3 DEF DownEvents, d, e, p
  <2> QED
    BY <1>1, <2>4, <2>5 DEF Turns
<1> QED
  BY <1>2, <1>3

(* A client that waits for the answer, a server for the first heartbeat.   *)
LEMMA StartGoes ==
  ASSUME NEW c, NEW m, Receives(c, m), NEW now \in SeqNums, c.state = "Start"
  PROVE  Goes(c, StartEvents(c, m, now), now)
<1>1. ConnInv(c) /\ c.state \in OpenStates /\ "Up" \in OpenStates
  BY DEF Receives, Holds, OpenStates, States
<1>2. \A reason \in DiscReasons : Goes(c, CloseConnection(c, reason, TRUE, now), now)
  BY <1>1, RejectionGoes
<1>3. CASE m.type = "DiscReq"
  BY <1>3, DisconnectionGoes DEF StartEvents
<1>4. CASE m.type = "ConnResp" /\ ~ c.server /\ m.version
  <2> DEFINE p == ProcessReceivedMessage(c, m, now)
             e == SendHbMessage(p, now)
  <2>1. Still(c, p, 0)
    BY <1>4, NotedStill DEF TimeoutRelated
  <2> HIDE DEF p
  <2>2. Sends(p, e, 1) /\ ConnInv(p)
    BY <2>1, SendMessageSends DEF Still, Continues, SendHbMessage, MessageTypes
  <2>3. Still(c, e, 0 + 1)
    BY <1>1, <2>1, <2>2, SendsStill, StillTransitive
  <2> HIDE DEF e
  <2>4. Quiet(c, UpdateConnectionState(e, "Up"))
    BY <1>1, <1>4, <2>3, StillTurnsQuiet, 0 + 1 = 1
  <2>5. StartEvents(c, m, now) = UpdateConnectionState(e, "Up")
    BY <1>4 DEF StartEvents, e, p
  <2> QED
    BY <2>4, <2>5 DEF Goes
<1>5. CASE m.type = "ConnResp" /\ ~ c.server /\ ~ m.version
  BY <1>2, <1>5 DEF StartEvents, DiscReasons
<1>6. CASE m.type = "Hb" /\ c.server
  BY <1>1, <1>2, <1>6, InSequenceGoes DEF StartEvents, DiscReasons, TimeoutRelated
<1>7. CASE /\ m.type # "DiscReq" /\ ~ (m.type = "ConnResp" /\ ~ c.server)
           /\ ~ (m.type = "Hb" /\ c.server)
  BY <1>2, <1>7 DEF StartEvents, DiscReasons
<1> QED
  BY <1>3, <1>4, <1>5, <1>6, <1>7

(* A connection that is up.                                                *)
LEMMA UpGoes ==
  ASSUME NEW c, NEW m, Receives(c, m), NEW now \in SeqNums, c.state = "Up"
  PROVE  Goes(c, UpEvents(c, m, now), now)
<1>1. ConnInv(c) /\ c.state \in OpenStates \ {"Start"} /\ "Up" \in OpenStates
  BY DEF Receives, Holds, OpenStates, States
<1>2. \A reason \in DiscReasons : Goes(c, CloseConnection(c, reason, TRUE, now), now)
  BY <1>1, RejectionGoes
<1>3. CASE m.type = "DiscReq"
  BY <1>3, DisconnectionGoes DEF UpEvents
<1>4. CASE m.type = "RetrReq"
  <2>1. CASE ~ Retransmits(c, m)
    BY <1>2, <1>4, <2>1 DEF UpEvents, DiscReasons
  <2>2. CASE Retransmits(c, m) /\ InSequence(c, m)
    <3>1. UpEvents(c, m, now) = AnswerRetrReq(c, m, now)
      BY <1>4, <2>2 DEF UpEvents
    <3> QED
      BY <1>1, <1>4, <3>1, AnswerGoes
  <2>3. CASE Retransmits(c, m) /\ ~ InSequence(c, m)
    <3>1. UpEvents(c, m, now) = StartRetransmission(c, m, TRUE, now)
      BY <1>4, <2>3 DEF UpEvents
    <3> QED
      BY <1>1, <3>1, RetransmissionGoes
  <2> QED
    BY <2>1, <2>2, <2>3
<1>5. CASE m.type \in {"Hb", "Data"}
  <2>1. CASE InSequence(c, m)
    BY <1>1, <1>5, <2>1, InSequenceGoes DEF UpEvents, TimeoutRelated
  <2>2. CASE ~ InSequence(c, m)
    BY <1>5, <2>2, RequestGoes DEF UpEvents
  <2> QED
    BY <2>1, <2>2
<1>6. CASE m.type \notin {"DiscReq", "RetrReq", "Hb", "Data"}
  BY <1>2, <1>6 DEF UpEvents, DiscReasons
<1> QED
  BY <1>3, <1>4, <1>5, <1>6

(* A connection that waits for the answer to its request.                  *)
LEMMA RetransRequestGoes ==
  ASSUME NEW c, NEW m, Receives(c, m), NEW now \in SeqNums, c.state = "RetransRequest"
  PROVE  Goes(c, RetransRequestEvents(c, m, now), now)
<1>1. /\ ConnInv(c) /\ c.state \in OpenStates \ {"Start"}
      /\ "RetransRunning" \in OpenStates
  BY DEF Receives, Holds, OpenStates, States
<1>2. \A reason \in DiscReasons : Goes(c, CloseConnection(c, reason, TRUE, now), now)
  BY <1>1, RejectionGoes
<1>3. CASE m.type = "DiscReq"
  BY <1>3, DisconnectionGoes DEF RetransRequestEvents, TimeoutRelated
<1>4. CASE m.type = "RetrReq"
  <2>1. CASE ~ Retransmits(c, m)
    BY <1>2, <1>4, <2>1 DEF RetransRequestEvents, TimeoutRelated, DiscReasons
  <2>2. CASE Retransmits(c, m) /\ InSequence(c, m)
    <3>1. RetransRequestEvents(c, m, now) = AnswerRetrReq(c, m, now)
      BY <1>4, <2>2 DEF RetransRequestEvents, TimeoutRelated
    <3> QED
      BY <1>1, <1>4, <3>1, AnswerGoes
  <2>3. CASE Retransmits(c, m) /\ ~ InSequence(c, m)
    <3>1. RetransRequestEvents(c, m, now) = StartRetransmission(c, m, FALSE, now)
      BY <1>4, <2>3 DEF RetransRequestEvents, TimeoutRelated
    <3> QED
      BY <1>1, <3>1, RetransmissionGoes
  <2> QED
    BY <2>1, <2>2, <2>3
<1>5. CASE m.type = "RetrResp"
  <2> DEFINE p == ProcessReceivedMessage(c, m, now)
  <2>1. Still(c, p, 1)
    BY <1>5, NotedStill DEF TimeoutRelated
  <2> HIDE DEF p
  <2>2. Quiet(c, UpdateConnectionState(p, "RetransRunning"))
    BY <1>1, <2>1, StillTurnsQuiet
  <2>3. RetransRequestEvents(c, m, now) = UpdateConnectionState(p, "RetransRunning")
    BY <1>5 DEF RetransRequestEvents, TimeoutRelated, p
  <2> QED
    BY <2>2, <2>3 DEF Goes
<1>6. CASE m.type \in TimeoutRelated
  <2>1. RetransRequestEvents(c, m, now) = c
    BY <1>6 DEF RetransRequestEvents, TimeoutRelated
  <2> QED
    BY <1>1, <2>1, SelfQuiet DEF Goes
<1>7. CASE m.type \notin {"DiscReq", "RetrReq", "RetrResp"} \cup TimeoutRelated
  BY <1>2, <1>7 DEF RetransRequestEvents, TimeoutRelated, DiscReasons
<1> QED
  BY <1>3, <1>4, <1>5, <1>6, <1>7

(* A connection that gets what it requested.                               *)
LEMMA RetransRunningGoes ==
  ASSUME NEW c, NEW m, Receives(c, m), NEW now \in SeqNums, c.state = "RetransRunning"
  PROVE  Goes(c, RetransRunningEvents(c, m, now), now)
<1>1. /\ ConnInv(c) /\ c.state \in OpenStates \ {"Start"} /\ StateAfter(m) \in OpenStates
  BY DEF Receives, Holds, OpenStates, States, StateAfter
<1>2. \A reason \in DiscReasons : Goes(c, CloseConnection(c, reason, TRUE, now), now)
  BY <1>1, RejectionGoes
<1>3. CASE m.type = "DiscReq"
  BY <1>3, DisconnectionGoes DEF RetransRunningEvents, TimeoutRelated
<1>4. CASE m.type = "RetrReq" /\ ~ InSequence(c, m)
  <2>1. CASE ~ Retransmits(c, m)
    BY <1>2, <1>4, <2>1 DEF RetransRunningEvents, TimeoutRelated, DiscReasons
  <2>2. CASE Retransmits(c, m)
    <3>1. RetransRunningEvents(c, m, now) = StartRetransmission(c, m, TRUE, now)
      BY <1>4, <2>2 DEF RetransRunningEvents, TimeoutRelated
    <3> QED
      BY <1>1, <3>1, RetransmissionGoes
  <2> QED
    BY <2>1, <2>2
<1>5. CASE m.type \in TimeoutRelated
  <2>1. CASE InSequence(c, m)
    <3>1. RetransRunningEvents(c, m, now) = ProcessInSequence(c, m, StateAfter(m), now)
      BY <1>5, <2>1 DEF RetransRunningEvents, TimeoutRelated
    <3> QED
      BY <1>1, <1>5, <3>1, InSequenceGoes
  <2>2. CASE ~ InSequence(c, m)
    <3>1. RetransRunningEvents(c, m, now) = RequestRetransmission(c, now)
      BY <1>5, <2>2 DEF RetransRunningEvents, TimeoutRelated
    <3> QED
      BY <3>1, RequestGoes
  <2> QED
    BY <2>1, <2>2
<1>6. CASE /\ m.type \notin {"DiscReq"} \cup TimeoutRelated
           /\ ~ (m.type = "RetrReq" /\ ~ InSequence(c, m))
  <2>1. RetransRunningEvents(c, m, now) = CloseConnection(c, "UnexpectedMessage", TRUE, now)
    BY <1>6 DEF RetransRunningEvents, TimeoutRelated
  <2> QED
    BY <1>2, <2>1 DEF DiscReasons
<1> QED
  BY <1>3, <1>4, <1>5, <1>6

(* Whatever message arrives in whatever state.                             *)
LEMMA EventGoes ==
  ASSUME NEW c, NEW m, Receives(c, m), NEW now \in SeqNums
  PROVE  Goes(c, ProcessMessageEvent(c, m, now), now)
<1>1. CASE c.state = "Down"
  BY <1>1, DownGoes DEF ProcessMessageEvent
<1>2. CASE c.state = "Start"
  BY <1>2, StartGoes DEF ProcessMessageEvent
<1>3. CASE c.state = "Up"
  BY <1>3, UpGoes DEF ProcessMessageEvent
<1>4. CASE c.state = "RetransRequest"
  BY <1>4, RetransRequestGoes DEF ProcessMessageEvent
<1>5. CASE c.state = "RetransRunning"
  BY <1>5, RetransRunningGoes DEF ProcessMessageEvent
<1> QED
  BY <1>1, <1>2, <1>3, <1>4, <1>5 DEF Receives, States

-----------------------------------------------------------------------------
(* The receive loop.                                                       *)

ErrorNames == {"SafetyCode", "Address", "Type", "SequenceNumber", "ConfirmedSequenceNumber"}

(* The message m is taken from the redundancy channel, and the errors in   *)
(* it are counted.                                                         *)
Reads(c, d, m, errors) ==
  /\ ConnInv(d)
  /\ d.server = c.server /\ d.nSendMax = c.nSendMax /\ d.state = c.state
  /\ d.csT = c.csT /\ d.ctsR = c.ctsR /\ d.ti = c.ti /\ d.recvBuf = c.recvBuf
  /\ d.snR = c.snR
  /\ d.sendBuf = c.sendBuf /\ d.snT = c.snT /\ d.csR = c.csR
  /\ d.temp = c.temp /\ d.opposite = c.opposite /\ d.fatal = c.fatal
  /\ d.inbox = Tail(c.inbox)
  /\ d.inputSn \in {c.inputSn, m.sn}
  /\ d.input => c.input \/ d.inputSn = m.sn
  /\ d.calls = c.calls \o errors

(* At most two errors are found in a message.                              *)
LEMMA ErrorsFound ==
  ASSUME NEW c, NEW m
  PROVE  ErrorsOf(c, m) \in Seq(ErrorNames)
<1>0. {"SafetyCode", "Type", "Address", "SequenceNumber", "ConfirmedSequenceNumber"}
        \subseteq ErrorNames
  BY DEF ErrorNames
<1>1. CASE m.check # "Ok"
  <2> DEFINE a == IF m.check \in {"SafetyCode", "Type"} THEN << m.check >> ELSE <<>>
             b == IF m.check = "Foreign" \/ (~ Readable(m) /\ c.foreign)
                    THEN << "Address" >> ELSE <<>>
  <2>1. a \in Seq(ErrorNames) /\ b \in Seq(ErrorNames)
    <3>1. \A e \in ErrorNames : << e >> \in Seq(ErrorNames)
      OBVIOUS
    <3>2. <<>> \in Seq(ErrorNames)
      OBVIOUS
    <3> QED
      BY <1>0, <3>1, <3>2
  <2>2. ErrorsOf(c, m) = a \o b
    BY <1>1 DEF ErrorsOf, GeneralErrors, Accepted
  <2> HIDE DEF a, b
  <2> QED
    BY <2>1, <2>2, ConcatProperties
<1>2. CASE m.check = "Ok"
  <2>1. ErrorsOf(c, m) \in {<<>>, << "ConfirmedSequenceNumber" >>, << "SequenceNumber" >>}
    BY <1>2 DEF ErrorsOf, Accepted
  <2>2. \A e \in ErrorNames : << e >> \in Seq(ErrorNames)
    OBVIOUS
  <2>3. <<>> \in Seq(ErrorNames)
    OBVIOUS
  <2> QED
    BY <1>0, <2>1, <2>2, <2>3
<1> QED
  BY <1>1, <1>2

(* One iteration with a message: it is read, and what it raises follows.   *)
LEMMA ReceiveOneReads ==
  ASSUME NEW c, ConnInv(c), c.inbox # <<>>, ReceivingGoesOn(c), c.state # "Closed",
         NEW now \in SeqNums
  PROVE  \E d, errors :
           /\ errors \in Seq([call : ErrorNames])
           /\ Reads(c, d, Head(c.inbox), errors)
           /\ ReceiveOne(c, now) = d \/ Goes(d, ReceiveOne(c, now), now)
           /\ IF Accepted(c, Head(c.inbox))
                THEN /\ Receives(d, Head(c.inbox))
                     /\ ReceiveOne(c, now) = ProcessMessageEvent(d, Head(c.inbox), now)
                ELSE ReceiveOne(c, now) = d
           /\ c.state = "Down" /\ Head(c.inbox).version
                => ReceiveOne(c, now).state # "Closed"
<1> DEFINE m == Head(c.inbox)
           names == ErrorsOf(c, m)
           errors == [i \in DOMAIN names |-> [call |-> names[i]]]
           sn == IF Readable(m) THEN m.sn ELSE c.inputSn
           foreign == IF Readable(m) THEN m.check = "Foreign" ELSE c.foreign
           read == [c EXCEPT !.inbox = Tail(@),
             !.inputSn = IF Readable(m) THEN m.sn ELSE @,
             !.foreign = IF Readable(m) THEN m.check = "Foreign" ELSE @,
             !.calls = @ \o errors]
           held == [read EXCEPT !.input = TRUE]
<1>1. /\ c \in Connection /\ c.inbox \in Seq(PDU) /\ c.calls \in Seq(DiagnosticCall)
      /\ c.inputSn \in SeqNums /\ c.foreign \in BOOLEAN
  BY DEF ConnInv, Connection
<1>2. m \in PDU /\ m.sn \in SeqNums /\ Tail(c.inbox) \in Seq(PDU)
  <2>1. m \in PDU /\ Tail(c.inbox) \in Seq(PDU)
    BY <1>1
  <2> QED
    BY <2>1 DEF PDU
<1>3. errors \in Seq([call : ErrorNames])
  <2>1. names \in Seq(ErrorNames)
    BY ErrorsFound
  <2> HIDE DEF names
  <2>2. /\ Len(names) \in Nat /\ DOMAIN names = 1 .. Len(names)
        /\ \A i \in DOMAIN names : names[i] \in ErrorNames
    BY <2>1
  <2> QED
    BY <2>2
<1>4. c.calls \o errors \in Seq(DiagnosticCall)
  <2> HIDE DEF errors
  <2>1. [call : ErrorNames] \subseteq DiagnosticCall
    BY DEF ErrorNames, DiagnosticCall
  <2>2. errors \in Seq(DiagnosticCall)
    <3> DEFINE T == [call : ErrorNames]
    <3>1. T \subseteq DiagnosticCall /\ errors \in Seq(T)
      BY <1>3, <2>1
    <3> HIDE DEF T
    <3> QED
      BY <3>1
  <2> QED
    BY <1>1, <2>2, ConcatProperties
<1>5. ReceiveOne(c, now) = IF Accepted(c, m) THEN ProcessMessageEvent(held, m, now) ELSE read
  BY DEF ReceiveOne
<1> HIDE DEF errors
<1>6. /\ sn \in SeqNums /\ sn \in {c.inputSn, m.sn} /\ foreign \in BOOLEAN
      /\ Accepted(c, m) => sn = m.sn
  BY <1>1, <1>2 DEF Accepted, Readable
<1>7. read = [c EXCEPT !.inbox = Tail(@), !.inputSn = sn, !.foreign = foreign,
                       !.calls = @ \o errors]
  BY <1>1 DEF Connection
<1> HIDE DEF sn, foreign, read, m
<1>8. /\ read \in Connection /\ read.server = c.server /\ read.nSendMax = c.nSendMax
      /\ read.state = c.state /\ read.csT = c.csT /\ read.ctsR = c.ctsR /\ read.ti = c.ti
      /\ read.snR = c.snR
      /\ read.recvBuf = c.recvBuf /\ read.inbox = Tail(c.inbox) /\ read.input = c.input
      /\ read.inputSn = sn /\ read.calls = c.calls \o errors
      /\ read.sendBuf = c.sendBuf /\ read.snT = c.snT /\ read.fatal = c.fatal
      /\ read.csR = c.csR /\ read.temp = c.temp /\ read.opposite = c.opposite
  <2>1. /\ c \in Connection /\ Tail(c.inbox) \in Seq(PDU) /\ sn \in SeqNums
        /\ foreign \in BOOLEAN /\ c.calls \o errors \in Seq(DiagnosticCall)
    BY <1>1, <1>2, <1>4, <1>6
  <2> QED
    BY <1>7, <2>1 DEF Connection
<1>9. Reads(c, read, m, errors)
  <2>1. ConnInv(read)
    BY <1>8 DEF ConnInv
  <2>2. sn \in {c.inputSn, m.sn}
    BY <1>6
  <2> QED
    BY <1>8, <2>1, <2>2 DEF Reads
<1>10. CASE ~ Accepted(c, m)
  <2>1. ReceiveOne(c, now) = read /\ read.state # "Closed"
    BY <1>5, <1>8, <1>10
  <2> QED
    BY <1>3, <1>9, <1>10, <2>1 DEF m
<1>11. CASE Accepted(c, m)
  <2> HIDE DEF held
  <2>1. /\ held \in Connection /\ held.server = read.server /\ held.nSendMax = read.nSendMax
        /\ held.state = read.state /\ held.csT = read.csT /\ held.ctsR = read.ctsR
        /\ held.snR = read.snR
        /\ held.ti = read.ti /\ held.recvBuf = read.recvBuf /\ held.inbox = read.inbox
        /\ held.input = TRUE /\ held.inputSn = read.inputSn /\ held.calls = read.calls
        /\ held.sendBuf = read.sendBuf /\ held.snT = read.snT /\ held.fatal = read.fatal
        /\ held.csR = read.csR /\ held.temp = read.temp /\ held.opposite = read.opposite
    BY <1>8 DEF Connection, held
  <2>2. ConnInv(held)
    BY <1>8, <2>1 DEF ConnInv
  <2>3. Reads(c, held, m, errors)
    BY <1>6, <1>8, <1>11, <2>1, <2>2 DEF Reads
  <2>4. Receives(held, m)
    <3>1. Holds(held, m)
      BY <1>2, <1>6, <1>8, <1>11, <2>1, <2>2 DEF Holds
    <3>2. held.state \in States \ {"Closed"}
      <4>1. c.state \in States
        BY <1>1 DEF Connection
      <4> QED
        BY <1>8, <2>1, <4>1
    <3>3. Len(c.recvBuf) < c.nSendMax /\ Used(c) + 3 <= SendBufferSize
      <4>1. Len(c.recvBuf) \in Nat /\ c.nSendMax \in Nat
        BY <1>1, SizesKnown DEF Connection
      <4>2. Used(c) \in Nat
        BY UsedSize
      <4> QED
        BY <4>1, <4>2, SizesKnown
           DEF ReceivingGoesOn, kMinFreeEntriesReceivedBufferForReceive,
               kMinFreeEntriesSendBufferForRetr, GetFreeBufferEntries, Used
    <3> QED
      BY <1>8, <2>1, <3>1, <3>2, <3>3 DEF Receives, Used
  <2>5. Goes(held, ReceiveOne(c, now), now)
    BY <1>5, <1>11, <2>4, EventGoes
  <2>6. ASSUME c.state = "Down", m.version
        PROVE  ReceiveOne(c, now).state # "Closed"
    <3>1. held.state = "Down"
      BY <1>8, <2>1, <2>6
    <3> QED
      BY <1>5, <1>11, <2>4, <2>6, <3>1, AcceptedRequestStays
  <2> QED
    BY <1>3, <1>5, <1>11, <2>3, <2>4, <2>5, <2>6 DEF m
<1> QED
  BY <1>10, <1>11

(* An iteration leads from a connection in S to one in S, ...              *)
KeptByIteration(S, now) ==
  \A d \in S : ReceivingGoesOn(d) => ReceiveOne(d, now) \in S

(* ... and so does the loop.                                               *)
LEMMA LoopKeeps ==
  ASSUME NEW S, NEW c \in S, ConnInv(c), NEW now, KeptByIteration(S, now)
  PROVE  ReceiveLoop(c, now) \in S
<1> DEFINE N == Len(c.inbox) + 1
           Step(d) == IF ReceivingGoesOn(d) THEN ReceiveOne(d, now) ELSE d
           Value(f, n) == IF n = 0 THEN c ELSE Step(f[n - 1])
           g == CHOOSE f : f = [n \in 0 .. N |-> Value(f, n)]
           F == [n \in 1 .. N |-> [d \in S |-> Step(d)]]
           H == {n \in 0 .. N : g[n] \in S}
<1>1. N \in Nat
  BY DEF ConnInv, Connection
<1>2. ReceiveLoop(c, now) = g[N]
  BY DEF ReceiveLoop
<1> HIDE DEF Step, N
<1>3. /\ \A d \in S : Step(d) \in S
      /\ F \in [1 .. N -> [S -> S]]
  BY DEF KeptByIteration, Step
<1>4. \E f : f = [n \in 0 .. N |-> Value(f, n)]
  <2> HIDE DEF F
  <2>1. PICK f : Iterates(f, S, c, N, F)
    BY <1>1, <1>3, Iteration
  <2>2. ASSUME NEW n \in 0 .. N
        PROVE  f[n] = Value(f, n)
    <3>1. CASE n = 0
      BY <2>1, <3>1 DEF Iterates
    <3>2. CASE n # 0
      <4>1. n \in 1 .. N /\ n - 1 \in 0 .. N
        BY <1>1, <3>2
      <4>2. f[n - 1] \in S
        BY <2>1, <4>1 DEF Iterates
      <4> QED
        BY <2>1, <3>2, <4>1, <4>2 DEF F, Iterates
    <3> QED
      BY <3>1, <3>2
  <2>3. f = [n \in 0 .. N |-> Value(f, n)]
    BY <2>1, <2>2 DEF Iterates
  <2> QED
    BY <2>3
<1>5. g = [n \in 0 .. N |-> Value(g, n)]
  BY <1>4
<1> HIDE DEF g
<1>6. 0 \in H
  <2>1. g[0] = c /\ 0 \in 0 .. N
    BY <1>1, <1>5
  <2> QED
    BY <2>1
<1>7. ASSUME NEW n \in 1 .. N, n - 1 \in H
      PROVE  n \in H
  <2>1. g[n] = Step(g[n - 1]) /\ n \in 0 .. N
    BY <1>1, <1>5
  <2> QED
    BY <1>3, <1>7, <2>1
<1> HIDE DEF H
<1>8. \A n \in 0 .. N : n \in H
  BY <1>1, <1>6, <1>7, InductionUpTo
<1>9. N \in 0 .. N
  BY <1>1
<1> QED
  BY <1>2, <1>8, <1>9 DEF H

(* An iteration that finds no message, and a notification, set the flag.   *)
LEMMA PendingQuiet ==
  ASSUME NEW c, ConnInv(c), NEW pending \in BOOLEAN
  PROVE  Quiet(c, [c EXCEPT !.pending = pending])
<1> DEFINE d == [c EXCEPT !.pending = pending]
<1>1. /\ d \in Connection /\ d.state = c.state /\ d.server = c.server
      /\ d.nSendMax = c.nSendMax /\ d.inputSn = c.inputSn /\ d.csT = c.csT
      /\ d.snR = c.snR
      /\ d.input = c.input /\ d.ctsR = c.ctsR /\ d.ti = c.ti /\ d.recvBuf = c.recvBuf
      /\ d.inbox = c.inbox /\ d.calls = c.calls
      /\ d.sendBuf = c.sendBuf /\ d.snT = c.snT /\ d.fatal = c.fatal
  BY DEF ConnInv, Connection
<1> HIDE DEF d
<1>2. Quiet(c, d)
  BY <1>1 DEF Quiet, StaysOpen, Continues, ConnInv, Caught
<1> QED
  BY <1>2 DEF d

-----------------------------------------------------------------------------
(* The calls.                                                              *)

(* srapi_CheckTimings closes the connection if its timer has run out.      *)
LEMMA CheckTimersEffect ==
  ASSUME NEW c, ConnInv(c), NEW now \in SeqNums
  PROVE  \/ Closes(c, CheckTimers(c, now))
         \/ /\ Quiet(c, CheckTimers(c, now))
            /\ c.state \in OpenStates => Minus(now, c.ctsR) <= c.ti
<1> DEFINE s == SendPendingMessages(c, now)
           d == CheckTimers(c, now)
           none == GetNumberOfMessagesToSend(s.sendBuf) = 0
<1>1. Sends(c, s, 0) /\ ConnInv(s)
  BY SendPendingSends DEF Sends
<1>2. /\ s.state \in States /\ s.ctsR \in SeqNums /\ s.ti \in Nat
      /\ Minus(now, s.ctsR) \in Int
  <2>1. s.state \in States /\ s.ctsR \in SeqNums /\ s.ti \in Nat
    BY <1>1, SizesKnown DEF ConnInv, Connection
  <2>2. Minus(now, s.ctsR) \in SeqNums
    BY <2>1, PlusMinusType
  <2> QED
    BY <2>1, <2>2 DEF SeqNums
<1>3. d = CASE IsMessageTimeout(s, now) -> TimeoutEvent(s, now)
            [] ~ IsMessageTimeout(s, now) /\ IsHeartbeatInterval(s, now) /\ none ->
                 SendHbEvent(s, now)
            [] OTHER -> s
  BY DEF CheckTimers
<1> HIDE DEF s, d, none
<1>4. s.state = c.state /\ s.ctsR = c.ctsR /\ s.ti = c.ti /\ Still(c, s, 0) /\ Quiet(c, s)
  BY <1>1, SendsStill, StillQuiet DEF Sends, SendSide
<1>5. CASE IsMessageTimeout(s, now)
  <2>1. d = TimeoutEvent(s, now)
    BY <1>3, <1>5
  <2>2. CASE s.state \in {"Closed", "Down"}
    BY <1>4, <2>1, <2>2 DEF TimeoutEvent, OpenStates, d
  <2>3. CASE s.state \notin {"Closed", "Down"}
    <3>1. Closes(s, CloseConnection(s, "Timeout", TRUE, now))
      BY <1>1, CloseConnectionCloses DEF DiscReasons
    <3>2. Closes(c, CloseConnection(s, "Timeout", TRUE, now))
      BY <1>4, <3>1, StillCloses
    <3> QED
      BY <2>1, <2>3, <3>2 DEF TimeoutEvent, d
  <2> QED
    BY <2>2, <2>3
<1>6. CASE ~ IsMessageTimeout(s, now)
  <2>1. Minus(now, c.ctsR) <= c.ti
    BY <1>2, <1>4, <1>6 DEF IsMessageTimeout
  <2>2. d \in {s, SendHbMessage(s, now)}
    BY <1>3, <1>6 DEF SendHbEvent
  <2>3. Quiet(c, SendHbMessage(s, now))
    <3>1. Sends(s, SendHbMessage(s, now), 1)
      BY <1>1, SendMessageSends DEF SendHbMessage, MessageTypes
    <3>2. Still(c, SendHbMessage(s, now), 0 + 1)
      BY <1>1, <1>4, <3>1, SendsStill, StillTransitive
    <3> QED
      BY <3>2, StillQuiet
  <2> QED
    BY <1>4, <2>1, <2>2, <2>3 DEF d
<1> QED
  BY <1>5, <1>6

(* srapi_CloseConnection, and srapi_OpenConnection of one that is open.    *)
LEMMA CloseCallCloses ==
  ASSUME NEW c, ConnInv(c), c.state # "Closed", NEW now \in SeqNums, NEW sn
  PROVE  /\ Closes(c, CloseConnectionCall(c, now))
         /\ Closes(c, OpenConnection(c, sn, now))
<1>1. Closes(c, CloseRedundancyChannel(c, FALSE))
  BY CloseRedundancyChannelCloses
<1>2. \A reason \in DiscReasons : Closes(c, CloseConnection(c, reason, FALSE, now))
  BY CloseConnectionCloses
<1> QED
  BY <1>1, <1>2 DEF CloseConnectionCall, OpenConnection, DiscReasons

(* srapi_SendData                                                          *)
LEMMA SendDataEffect ==
  ASSUME NEW c, ConnInv(c), c.state # "Closed", NEW payload \in Nat, NEW now \in SeqNums
  PROVE  Closes(c, SendData(c, payload, now)) \/ Quiet(c, SendData(c, payload, now))
<1> DEFINE r == Require(c, ~ c.temp, "InternalError")
           written == [r EXCEPT !.temp = TRUE]
           q == Require(written, written.temp, "InternalError")
           taken == [q EXCEPT !.temp = FALSE]
<1>1. ASSUME NEW p, ConnInv(p), NEW flag \in BOOLEAN
      PROVE  Sends(p, [p EXCEPT !.temp = flag], 0)
  <2> DEFINE e == [p EXCEPT !.temp = flag]
  <2>1. /\ e \in Connection /\ SendSide(p, e) /\ e.sendBuf = p.sendBuf /\ e.snT = p.snT
        /\ e.fatal = p.fatal
    BY <1>1 DEF ConnInv, Connection, SendSide
  <2> HIDE DEF e
  <2>2. Used(p) \in Nat
    BY <1>1, UsedSize
  <2>3. Sends(p, e, 0)
    BY <1>1, <2>1, <2>2 DEF Sends, ConnInv, SendSide, Used
  <2> QED
    BY <2>3 DEF e
<1>2. ASSUME NEW p, ConnInv(p), NEW condition \in BOOLEAN
      PROVE  Sends(p, Require(p, condition, "InternalError"), 0)
  BY <1>2, RequireSends DEF Errors
<1>3. Sends(c, r, 0) /\ ConnInv(r)
  <2>1. (~ c.temp) \in BOOLEAN
    OBVIOUS
  <2>2. Sends(c, r, 0)
    BY <1>2, <2>1
  <2> QED
    BY <2>2 DEF Sends
<1>4. Sends(c, written, 0) /\ ConnInv(written) /\ written.temp = TRUE
  <2> HIDE DEF r
  <2>1. Sends(r, written, 0) /\ written.temp = TRUE
    BY <1>1, <1>3 DEF ConnInv, Connection
  <2> HIDE DEF written
  <2>2. Sends(c, written, 0 + 0)
    BY <1>3, <2>1, SendsTransitive
  <2> QED
    BY <2>1, <2>2 DEF Sends
<1> HIDE DEF r, written
<1>5. Sends(c, q, 0) /\ ConnInv(q)
  <2>1. q = written
    BY <1>4 DEF Require
  <2> QED
    BY <1>4, <2>1
<1> HIDE DEF q
<1>6. Sends(c, taken, 0) /\ ConnInv(taken)
  <2>1. Sends(q, taken, 0)
    BY <1>1, <1>5
  <2> HIDE DEF taken
  <2>2. Sends(c, taken, 0 + 0)
    BY <1>5, <2>1, SendsTransitive
  <2> QED
    BY <2>1, <2>2 DEF Sends
<1> HIDE DEF taken
<1>7. CASE c.state = "Down"
  <2>1. SendData(c, payload, now) = CloseRedundancyChannel(written, FALSE)
    BY <1>7 DEF SendData, written, r
  <2>2. Closes(written, CloseRedundancyChannel(written, FALSE))
    BY <1>4, <1>7, CloseRedundancyChannelCloses DEF Sends, SendSide
  <2> QED
    BY <1>4, <2>1, <2>2, SendsStill, StillCloses
<1>8. CASE c.state = "Start"
  <2>1. SendData(c, payload, now) = CloseConnection(written, "ServiceNotAllowed", FALSE, now)
    BY <1>8 DEF SendData, written, r
  <2>2. Closes(written, CloseConnection(written, "ServiceNotAllowed", FALSE, now))
    BY <1>4, CloseConnectionCloses DEF DiscReasons
  <2> QED
    BY <1>4, <2>1, <2>2, SendsStill, StillCloses
<1>9. CASE c.state \notin {"Down", "Start"}
  <2> DEFINE e == SendMessage(taken, "Data", payload, now)
  <2>1. SendData(c, payload, now) = e
    BY <1>9 DEF SendData, SendDataMessage, taken, q, written, r
  <2>2. Sends(taken, e, 1)
    BY <1>6, SendMessageSends DEF MessageTypes
  <2> HIDE DEF e
  <2>3. Sends(c, e, 0 + 1)
    BY <1>6, <2>2, SendsTransitive
  <2> QED
    BY <2>1, <2>3, SendsQuiet
<1> QED
  BY <1>7, <1>8, <1>9

(* Nothing but the messages that wait in the redundancy channel, the data  *)
(* that waits for the application and the calls of sr_diagnostics differ.  *)
SameButQueues(c, d) ==
  /\ d.server = c.server /\ d.nSendMax = c.nSendMax /\ d.state = c.state
  /\ d.inputSn = c.inputSn /\ d.input = c.input /\ d.csT = c.csT
  /\ d.snR = c.snR
  /\ d.ctsR = c.ctsR /\ d.ti = c.ti
  /\ d.sendBuf = c.sendBuf /\ d.snT = c.snT /\ d.fatal = c.fatal

(* A message arrives at the redundancy channel.                            *)
LEMMA ArrivedKeeps ==
  ASSUME NEW c, ConnInv(c), NEW m \in PDU
  PROVE  LET d == [c EXCEPT !.inbox = Append(@, m)]
         IN  /\ ConnInv(d) /\ SameButQueues(c, d)
             /\ d.inbox = Append(c.inbox, m) /\ c.inbox \in Seq(PDU)
             /\ d.recvBuf = c.recvBuf /\ d.calls = c.calls
<1> DEFINE d == [c EXCEPT !.inbox = Append(@, m)]
<1>1. c \in Connection /\ c.inbox \in Seq(PDU) /\ Append(c.inbox, m) \in Seq(PDU)
  BY DEF ConnInv, Connection
<1>2. /\ d \in Connection /\ d.inbox = Append(c.inbox, m)
      /\ d.recvBuf = c.recvBuf /\ d.calls = c.calls
      /\ d.server = c.server /\ d.nSendMax = c.nSendMax /\ d.state = c.state
      /\ d.inputSn = c.inputSn /\ d.input = c.input /\ d.csT = c.csT
      /\ d.snR = c.snR
      /\ d.ctsR = c.ctsR /\ d.ti = c.ti
      /\ d.sendBuf = c.sendBuf /\ d.snT = c.snT /\ d.fatal = c.fatal
  BY <1>1 DEF Connection
<1> HIDE DEF d
<1>3. ConnInv(d) /\ SameButQueues(c, d)
  BY <1>2 DEF ConnInv, SameButQueues
<1> QED
  BY <1>1, <1>2, <1>3 DEF d

(* The application reads data.                                             *)
LEMMA ReadDataKeeps ==
  ASSUME NEW c, ConnInv(c), c.recvBuf # <<>>
  PROVE  LET d == ReadData(c)
         IN  /\ ConnInv(d) /\ SameButQueues(c, d)
             /\ d.inbox = c.inbox /\ d.calls = c.calls
             /\ Len(d.recvBuf) = Len(c.recvBuf) - 1
<1> DEFINE d == [c EXCEPT !.recvBuf = Tail(@)]
<1>1. c \in Connection /\ c.recvBuf \in Seq(Nat) /\ c.nSendMax \in Nat
  BY SizesKnown DEF ConnInv, Connection
<1>2. Tail(c.recvBuf) \in Seq(Nat) /\ Len(Tail(c.recvBuf)) = Len(c.recvBuf) - 1
      /\ Len(c.recvBuf) \in Nat
  BY <1>1
<1>3. /\ d \in Connection /\ d.recvBuf = Tail(c.recvBuf)
      /\ d.inbox = c.inbox /\ d.calls = c.calls
      /\ d.server = c.server /\ d.nSendMax = c.nSendMax /\ d.state = c.state
      /\ d.inputSn = c.inputSn /\ d.input = c.input /\ d.csT = c.csT
      /\ d.snR = c.snR
      /\ d.ctsR = c.ctsR /\ d.ti = c.ti
      /\ d.sendBuf = c.sendBuf /\ d.snT = c.snT /\ d.fatal = c.fatal
  <2>1. c \in Connection /\ Tail(c.recvBuf) \in Seq(Nat)
    BY <1>1, <1>2
  <2> QED
    BY <2>1 DEF Connection
<1>4. ReadData(c) = d
  BY DEF ReadData
<1> HIDE DEF d
<1>5. Len(d.recvBuf) <= d.nSendMax
  BY <1>1, <1>2, <1>3 DEF ConnInv
<1>6. ConnInv(d) /\ SameButQueues(c, d)
  BY <1>3, <1>5 DEF ConnInv, SameButQueues
<1> QED
  BY <1>2, <1>3, <1>4, <1>6

(* A call ends.                                                            *)
LEMMA CallEndedKeeps ==
  ASSUME NEW c, ConnInv(c)
  PROVE  LET d == CallEnded(c)
         IN  /\ ConnInv(d) /\ SameButQueues(c, d)
             /\ d.inbox = c.inbox /\ d.recvBuf = c.recvBuf /\ d.calls = <<>>
<1> DEFINE d == [c EXCEPT !.out = <<>>, !.calls = <<>>]
<1>1. <<>> \in Seq(PDU) /\ <<>> \in Seq(DiagnosticCall)
  OBVIOUS
<1>2. /\ d \in Connection /\ d.recvBuf = c.recvBuf
      /\ d.inbox = c.inbox /\ d.calls = <<>>
      /\ d.server = c.server /\ d.nSendMax = c.nSendMax /\ d.state = c.state
      /\ d.inputSn = c.inputSn /\ d.input = c.input /\ d.csT = c.csT
      /\ d.snR = c.snR
      /\ d.ctsR = c.ctsR /\ d.ti = c.ti
      /\ d.sendBuf = c.sendBuf /\ d.snT = c.snT /\ d.fatal = c.fatal
  BY <1>1 DEF ConnInv, Connection
<1>3. CallEnded(c) = d
  BY DEF CallEnded
<1> HIDE DEF d
<1>4. ConnInv(d) /\ SameButQueues(c, d)
  BY <1>2 DEF ConnInv, SameButQueues
<1> QED
  BY <1>2, <1>3, <1>4

(* The connection when it is initialised.                                  *)
LEMMA InitialConnectionGood ==
  ASSUME NEW server \in BOOLEAN, NEW nSendMax \in 2 .. MaxNSendMax
  PROVE  LET c == InitialConnection(server, nSendMax)
         IN  ConnInv(c) /\ c.state = "Closed" /\ c.calls = <<>>
<1> DEFINE c == InitialConnection(server, nSendMax)
<1>1. EmptyBuffer \in SendBuffer /\ Gapless(EmptyBuffer, 0)
  BY SizesKnown DEF EmptyBuffer, SendBuffer, Gapless
<1>2. 0 \in SeqNums /\ 0 \in 0 .. TMax /\ nSendMax \in Nat
  BY SizesKnown, SmallNumbers
<1>3. c \in Connection
  BY <1>1, <1>2 DEF InitialConnection, Connection, States, DiscReasons, Errors
<1>4. /\ c.state = "Closed" /\ c.calls = <<>> /\ c.sendBuf = EmptyBuffer /\ c.snT = 0
      /\ c.recvBuf = <<>> /\ c.fatal = "None" /\ c.nSendMax = nSendMax
  BY DEF InitialConnection
<1> HIDE DEF c
<1>5. Len(c.recvBuf) <= c.nSendMax
  BY <1>2, <1>4
<1>6. ConnInv(c)
  BY <1>1, <1>3, <1>4, <1>5 DEF ConnInv
<1> QED
  BY <1>4, <1>6 DEF c

(* A connection that is opened: nothing of an earlier session is left.     *)
Opens(c, d, now) ==
  /\ ConnInv(d) /\ d.server = c.server /\ d.nSendMax = c.nSendMax
  /\ d.state = IF c.server THEN "Down" ELSE "Start"
  /\ d.ti = TMax
  /\ ~ c.server => d.ctsR = now
  /\ d.csT = 0 /\ ~ d.input /\ d.inbox = <<>> /\ d.recvBuf = <<>>
  /\ d.calls = Append(c.calls, [call |-> "Init"])

(* It is opened, and has sent nothing yet.                                 *)
Blank(c, d, sn) ==
  /\ ConnInv(d) /\ d.server = c.server /\ d.nSendMax = c.nSendMax
  /\ d.state = IF c.server THEN "Down" ELSE "Start"
  /\ d.sendBuf = EmptyBuffer /\ d.snT = sn /\ d.csR = 0 /\ ~ d.temp
  /\ d.opposite = c.nSendMax /\ d.inbox = <<>> /\ d.recvBuf = <<>> /\ d.fatal = c.fatal

(* srapi_OpenConnection of a connection that is closed.                    *)
LEMMA OpenConnectionOpens ==
  ASSUME NEW c, ConnInv(c), c.state = "Closed", NEW sn \in SeqNums, NEW now \in SeqNums
  PROVE  /\ Opens(c, OpenConnection(c, sn, now), now)
         /\ \E z : /\ Blank(c, z, sn)
                   /\ OpenConnection(c, sn, now)
                        = IF c.server THEN z ELSE SendMessage(z, "ConnReq", c.nSendMax, now)
<1> DEFINE ctsR == IF c.server THEN 0 ELSE now
           calls == Append(c.calls, [call |-> "Init"])
           i == [c EXCEPT
             !.snT = sn, !.snR = 0, !.csT = 0, !.lastCsT = 0, !.csR = 0,
             !.tsR = 0, !.tsT = 0, !.ctsR = ctsR, !.ti = TMax,
             !.opposite = c.nSendMax, !.pending = FALSE, !.input = FALSE, !.temp = FALSE,
             !.sendBuf = EmptyBuffer, !.recvBuf = <<>>, !.inbox = <<>>, !.calls = calls]
           state == IF c.server THEN "Down" ELSE "Start"
           ready == UpdateConnectionState(i, state)
<1>1. /\ c \in Connection /\ c.calls \in Seq(DiagnosticCall) /\ c.nSendMax \in Nat
  BY SizesKnown DEF ConnInv, Connection
<1>2. EmptyBuffer \in SendBuffer /\ Gapless(EmptyBuffer, sn)
  BY SizesKnown DEF EmptyBuffer, SendBuffer, Gapless
<1>3. 0 \in SeqNums /\ ctsR \in SeqNums /\ TMax \in 0 .. TMax
  BY SizesKnown, SmallNumbers
<1>4. calls \in Seq(DiagnosticCall)
  <2>1. [call |-> "Init"] \in DiagnosticCall
    BY DEF DiagnosticCall
  <2> QED
    BY <1>1, <2>1
<1>5. state \in States /\ state # "Closed"
  BY DEF States
<1>6. InitRaStaConnData(c, sn, now) = i
  BY <1>1 DEF InitRaStaConnData, Connection
<1> HIDE DEF ctsR, calls
<1>7. <<>> \in Seq(Nat) /\ <<>> \in Seq(PDU)
  OBVIOUS
<1>8. /\ i \in Connection /\ i.server = c.server /\ i.nSendMax = c.nSendMax
      /\ i.state = c.state /\ i.ti = TMax /\ i.ctsR = ctsR /\ i.csT = 0 /\ i.input = FALSE
      /\ i.inbox = <<>> /\ i.recvBuf = <<>> /\ i.calls = calls
      /\ i.sendBuf = EmptyBuffer /\ i.snT = sn /\ i.fatal = c.fatal
      /\ i.csR = 0 /\ i.temp = FALSE /\ i.opposite = c.nSendMax
  BY <1>1, <1>2, <1>3, <1>4, <1>7 DEF Connection
<1> HIDE DEF i, state
<1>9. ConnInv(i)
  <2>1. Len(i.recvBuf) <= i.nSendMax
    BY <1>1, <1>8
  <2> QED
    BY <1>2, <1>8, <2>1 DEF ConnInv
<1>10. Turns(i, ready, state)
  BY <1>5, <1>9, StateTurns
<1>11. Blank(c, ready, sn)
  <2>1. /\ ready.sendBuf = i.sendBuf /\ ready.snT = i.snT /\ ready.csR = i.csR
        /\ ready.temp = i.temp /\ ready.opposite = i.opposite /\ ready.fatal = i.fatal
    BY <1>8 DEF UpdateConnectionState, Connection
  <2> HIDE DEF ready
  <2> QED
    BY <1>8, <1>10, <2>1 DEF Blank, Turns, state
<1> HIDE DEF ready
<1>12. Opens(c, ready, now)
  BY <1>8, <1>10 DEF Opens, Turns, ctsR, calls, state
<1>13. CASE c.server
  <2>1. OpenConnection(c, sn, now) = ready
    BY <1>6, <1>13 DEF OpenConnection, ready, state
  <2> QED
    BY <1>11, <1>12, <1>13, <2>1
<1>14. CASE ~ c.server
  <2> DEFINE z == [ready EXCEPT !.tsR = 0]
             e == SendMessage(z, "ConnReq", c.nSendMax, now)
  <2>1. OpenConnection(c, sn, now) = e
    <3>1. ready.nSendMax = c.nSendMax
      BY <1>12 DEF Opens
    <3> QED
      BY <1>6, <1>14, <3>1 DEF OpenConnection, SendConnReqMessage, ready, state
  <2>2. /\ z \in Connection /\ SendSide(ready, z) /\ z.sendBuf = ready.sendBuf
        /\ z.snT = ready.snT /\ z.fatal = ready.fatal
        /\ z.csR = ready.csR /\ z.temp = ready.temp /\ z.opposite = ready.opposite
    <3>1. ready \in Connection /\ 0 \in SeqNums
      BY <1>3, <1>12 DEF Opens, ConnInv
    <3> QED
      BY <3>1 DEF Connection, SendSide
  <2>3. ConnInv(z)
    BY <1>12, <2>2 DEF Opens, ConnInv, SendSide
  <2>4. Sends(z, e, 1)
    BY <1>1, <2>3, SendMessageSends DEF MessageTypes
  <2> HIDE DEF e, z
  <2>5. Opens(c, e, now)
    BY <1>12, <2>2, <2>4 DEF Opens, Sends, SendSide
  <2>6. Blank(c, z, sn)
    BY <1>11, <2>2, <2>3 DEF Blank, SendSide
  <2> QED
    BY <1>14, <2>1, <2>5, <2>6 DEF e
<1> QED
  BY <1>13, <1>14
=============================================================================

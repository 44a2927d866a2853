------------------------ MODULE SrAssertions_proofs ------------------------
(***************************************************************************)
(* No message stops the program, unless the peer misleads this end: what   *)
(* the assertions of srcor_HandleRetrReq and of the send buffer rely on    *)
(* holds in every connection, as long as the messages that wait in the     *)
(* redundancy channel confirm only what was sent, and ask for one          *)
(* retransmission at a time.  The two assertions the code leaves exposed   *)
(* to the configuration and to the first number are those of Exposed.      *)
(***************************************************************************)
EXTENDS SrEndpoint_proofs

-----------------------------------------------------------------------------
(* Confirmed numbers, counted back from the next number sn.                *)

(* A message that confirms the number of a sent message.                   *)
Confirming(m) == m.type # "ConnReq"

(* cs is the confirmed number, `used' messages are in the send buffer, and *)
(* `waiting' of them are not sent.  At most a send buffer of numbers was   *)
(* given up since cs, and the messages of q confirm numbers of messages    *)
(* that are sent, none much older than cs or than what a message before it *)
(* confirms.                                                               *)
InOrder(sn, cs, used, waiting, q) ==
  /\ Minus(sn, cs) \in used + 1 .. used + 1 + SendBufferSize
  /\ \A i \in DOMAIN q : Confirming(q[i]) =>
       /\ Minus(sn, q[i].cs) > waiting
       /\ Minus(sn, q[i].cs) <= Minus(sn, cs) + 2 * SendBufferSize
       /\ \A j \in DOMAIN q : i < j /\ Confirming(q[j]) =>
            Minus(sn, q[j].cs) <= Minus(sn, q[i].cs) + 2 * SendBufferSize

(* The sizes as numbers.                                                   *)
LEMMA RoomKnown ==
  /\ SendBufferSize \in Nat /\ SendBufferSize >= 4
  /\ SeqMod \in Nat /\ 4 * SendBufferSize + 2 < SeqMod
  /\ PeerNSendMax \in Nat /\ PeerNSendMax >= 1
BY SizesKnown, RoomAssumption, EndpointAssumption

(* Distances are numbers.                                                  *)
LEMMA DistanceType ==
  ASSUME NEW a \in SeqNums, NEW b \in SeqNums
  PROVE  Minus(a, b) \in Nat /\ Minus(a, b) < SeqMod
BY SizesKnown DEF Minus, SeqNums

(* The numbers the messages of a queue confirm.                            *)
LEMMA ConfirmedNumbers ==
  ASSUME NEW q \in Seq(PDU)
  PROVE  \A i \in DOMAIN q : q[i] \in PDU /\ q[i].cs \in SeqNums
<1>1. \A i \in DOMAIN q : q[i] \in PDU
  OBVIOUS
<1> QED
  BY <1>1 DEF PDU

(* Between cs and the last number that was sent.                           *)
LEMMA SentSince ==
  ASSUME NEW sn \in SeqNums, NEW cs \in SeqNums, NEW x \in SeqNums, NEW waiting \in Nat,
         waiting + 1 <= Minus(sn, cs),
         Minus(x, cs) <= Minus(Minus(sn, 1 + waiting), cs)
  PROVE  Minus(sn, x) > waiting /\ Minus(sn, x) <= Minus(sn, cs)
<1>1. Minus(Minus(sn, 1 + waiting), cs) = Minus(sn, cs) - (1 + waiting)
  BY SizesKnown DEF Minus, SeqNums
<1>2. Minus(x, cs) <= Minus(sn, cs) - (1 + waiting)
  BY <1>1
<1>3. Minus(sn, x) = Minus(sn, cs) - Minus(x, cs)
  BY <1>2, SizesKnown DEF Minus, SeqNums
<1> QED
  BY <1>2, <1>3, DistanceType

(* What CheckConfirmedSequenceNumber accepts is not before cs, if it is    *)
(* not much older.                                                         *)
LEMMA AcceptedSince ==
  ASSUME NEW sn \in SeqNums, NEW cs \in SeqNums, NEW x \in SeqNums, NEW n \in Nat,
         Minus(sn, cs) <= n + 1, Minus(sn, x) <= Minus(sn, cs) + n, 2 * n + 2 < SeqMod,
         Minus(x, cs) <= Minus(sn, Minus(cs, 1))
  PROVE  Minus(sn, x) <= Minus(sn, cs)
<1> DEFINE a == Minus(sn, x)
           b == Minus(sn, cs)
<1>1. a \in Nat /\ b \in Nat /\ SeqMod \in Nat
  BY DistanceType, SizesKnown
<1>2. Minus(sn, Minus(cs, 1)) <= b + 1
  BY SizesKnown DEF Minus, SeqNums
<1>3. a > b => Minus(x, cs) = SeqMod - (a - b)
  BY SizesKnown DEF Minus, SeqNums
<1>4. Minus(x, cs) \in Nat /\ Minus(sn, Minus(cs, 1)) \in Int
  BY SizesKnown DEF Minus, SeqNums
<1> HIDE DEF a, b
<1>5. a <= b + n /\ b <= n + 1 /\ Minus(x, cs) <= Minus(sn, Minus(cs, 1))
  BY DEF a, b
<1>6. ASSUME a > b
      PROVE  FALSE
  BY <1>1, <1>2, <1>3, <1>4, <1>5, <1>6
<1> QED
  BY <1>1, <1>6 DEF a, b

(* Giving numbers moves every number back.                                 *)
LEMMA MovesBack ==
  ASSUME NEW sn \in SeqNums, NEW x \in SeqNums, NEW k \in Nat, Minus(sn, x) + k < SeqMod
  PROVE  Minus(Plus(sn, k), x) = Minus(sn, x) + k
BY SizesKnown DEF Plus, Minus, SeqNums

(* More may be sent.                                                       *)
LEMMA InOrderSent ==
  ASSUME NEW sn \in SeqNums, NEW cs \in SeqNums, NEW used, NEW waiting \in Nat,
         NEW q \in Seq(PDU), InOrder(sn, cs, used, waiting, q),
         NEW fewer \in Nat, fewer <= waiting
  PROVE  InOrder(sn, cs, used, fewer, q)
<1>1. \A i \in DOMAIN q : q[i].cs \in SeqNums
  BY ConfirmedNumbers
<1>2. \A i \in DOMAIN q : Minus(sn, q[i].cs) \in Nat
  BY <1>1, DistanceType
<1>3. \A i \in DOMAIN q : Minus(sn, q[i].cs) > waiting => Minus(sn, q[i].cs) > fewer
  BY <1>2
<1> QED
  BY <1>3 DEF InOrder

(* k numbers are given, to messages that wait.                             *)
LEMMA InOrderGiven ==
  ASSUME NEW sn \in SeqNums, NEW cs \in SeqNums, NEW used \in Nat, NEW waiting \in Nat,
         NEW q \in Seq(PDU), InOrder(sn, cs, used, waiting, q),
         NEW k \in Nat, NEW more \in Nat, NEW wait \in Nat, wait <= waiting + k,
         Minus(sn, cs) + 2 * SendBufferSize + k < SeqMod,
         Minus(sn, cs) + k \in more + 1 .. more + 1 + SendBufferSize
  PROVE  InOrder(Plus(sn, k), cs, more, wait, q)
<1>1. \A i \in DOMAIN q : q[i].cs \in SeqNums
  BY ConfirmedNumbers
<1>2. \A i \in DOMAIN q : Minus(sn, q[i].cs) \in Nat
  BY <1>1, DistanceType
<1>3. Minus(sn, cs) \in Nat /\ SendBufferSize \in Nat /\ SeqMod \in Nat
  BY DistanceType, SizesKnown
<1>4. Minus(Plus(sn, k), cs) = Minus(sn, cs) + k
  BY <1>3, MovesBack
<1>5. ASSUME NEW i \in DOMAIN q, Confirming(q[i])
      PROVE  Minus(Plus(sn, k), q[i].cs) = Minus(sn, q[i].cs) + k
  <2>1. Minus(sn, q[i].cs) <= Minus(sn, cs) + 2 * SendBufferSize
    BY <1>5 DEF InOrder
  <2>2. Minus(sn, q[i].cs) + k < SeqMod
    BY <1>2, <1>3, <2>1
  <2> QED
    BY <1>1, <2>2, MovesBack
<1>6. ASSUME NEW i \in DOMAIN q, Confirming(q[i])
      PROVE  /\ Minus(Plus(sn, k), q[i].cs) > wait
             /\ Minus(Plus(sn, k), q[i].cs) <= Minus(Plus(sn, k), cs) + 2 * SendBufferSize
  <2>1. Minus(sn, q[i].cs) > waiting /\ Minus(sn, q[i].cs) <= Minus(sn, cs) + 2 * SendBufferSize
    BY <1>6 DEF InOrder
  <2> QED
    BY <1>2, <1>3, <1>4, <1>5, <1>6, <2>1
<1>7. ASSUME NEW i \in DOMAIN q, Confirming(q[i]), NEW j \in DOMAIN q, i < j, Confirming(q[j])
      PROVE  Minus(Plus(sn, k), q[j].cs) <= Minus(Plus(sn, k), q[i].cs) + 2 * SendBufferSize
  <2>1. Minus(sn, q[j].cs) <= Minus(sn, q[i].cs) + 2 * SendBufferSize
    BY <1>7 DEF InOrder
  <2>2. /\ Minus(Plus(sn, k), q[i].cs) = Minus(sn, q[i].cs) + k
        /\ Minus(Plus(sn, k), q[j].cs) = Minus(sn, q[j].cs) + k
    BY <1>5, <1>7
  <2>3. Minus(sn, q[i].cs) \in Nat /\ Minus(sn, q[j].cs) \in Nat
    BY <1>2
  <2> QED
    BY <1>3, <2>1, <2>2, <2>3
<1> QED
  BY <1>4, <1>6, <1>7 DEF InOrder

(* A message that arrives and confirms a message that was sent after cs.   *)
LEMMA InOrderArrived ==
  ASSUME NEW sn \in SeqNums, NEW cs \in SeqNums, NEW used \in 0 .. SendBufferSize,
         NEW waiting \in 0 .. used,
         NEW q \in Seq(PDU), InOrder(sn, cs, used, waiting, q),
         NEW m \in PDU,
         Confirming(m) => Minus(m.cs, cs) <= Minus(Minus(sn, 1 + waiting), cs)
  PROVE  InOrder(sn, cs, used, waiting, Append(q, m))
<1> DEFINE r == Append(q, m)
<1>1. \A i \in DOMAIN q : q[i].cs \in SeqNums
  BY ConfirmedNumbers
<1>2. m.cs \in SeqNums
  BY DEF PDU
<1>3. /\ \A i \in DOMAIN q : Minus(sn, q[i].cs) \in Nat
      /\ Minus(sn, cs) \in Nat /\ Minus(sn, m.cs) \in Nat
  BY <1>1, <1>2, DistanceType
<1>4. Minus(sn, cs) >= used + 1 /\ Minus(sn, cs) <= used + 1 + SendBufferSize
  BY <1>3, RoomKnown DEF InOrder
<1>5. Confirming(m) => Minus(sn, m.cs) > waiting /\ Minus(sn, m.cs) <= Minus(sn, cs)
  <2>1. waiting \in Nat /\ waiting + 1 <= Minus(sn, cs)
    BY <1>3, <1>4, RoomKnown
  <2> QED
    BY <1>2, <2>1, SentSince
<1>6. /\ DOMAIN r = 1 .. Len(q) + 1 /\ DOMAIN q = 1 .. Len(q) /\ Len(q) \in Nat
      /\ r[Len(q) + 1] = m /\ \A i \in DOMAIN q : r[i] = q[i]
  OBVIOUS
<1> HIDE DEF r
<1>7. ASSUME NEW i \in DOMAIN r, Confirming(r[i])
      PROVE  /\ Minus(sn, r[i].cs) > waiting
             /\ Minus(sn, r[i].cs) <= Minus(sn, cs) + 2 * SendBufferSize
  <2>1. CASE i \in DOMAIN q
    BY <1>6, <1>7, <2>1 DEF InOrder
  <2>2. CASE i = Len(q) + 1
    BY <1>3, <1>5, <1>6, <1>7, <2>2, RoomKnown
  <2> QED
    BY <1>6, <2>1, <2>2
<1>8. ASSUME NEW i \in DOMAIN r, Confirming(r[i]), NEW j \in DOMAIN r, i < j, Confirming(r[j])
      PROVE  Minus(sn, r[j].cs) <= Minus(sn, r[i].cs) + 2 * SendBufferSize
  <2>1. i \in DOMAIN q /\ r[i] = q[i]
    BY <1>6, <1>8
  <2>2. CASE j \in DOMAIN q
    BY <1>6, <1>8, <2>1, <2>2 DEF InOrder
  <2>3. CASE j = Len(q) + 1
    <3>1. Minus(sn, r[j].cs) <= Minus(sn, cs) /\ Minus(sn, cs) <= 2 * SendBufferSize + 1
      <4>1. r[j] = m
        BY <1>6, <2>3
      <4>2. Minus(sn, r[j].cs) <= Minus(sn, cs)
        BY <1>5, <1>8, <4>1
      <4>3. Minus(sn, cs) <= 2 * SendBufferSize + 1
        BY <1>3, <1>4, RoomKnown
      <4> QED
        BY <4>2, <4>3
    <3>2. Minus(sn, q[i].cs) > waiting
      BY <1>8, <2>1 DEF InOrder
    <3> QED
      BY <1>3, <1>6, <2>1, <2>3, <3>1, <3>2, RoomKnown
  <2> QED
    BY <1>6, <2>2, <2>3
<1> QED
  BY <1>4, <1>7, <1>8, <1>3, RoomKnown DEF InOrder, r

(* A message is taken from the queue.                                      *)
LEMMA TailElements ==
  ASSUME NEW T, NEW q \in Seq(T), q # <<>>
  PROVE  /\ Tail(q) \in Seq(T) /\ Head(q) \in T /\ Head(q) = q[1] /\ 1 \in DOMAIN q
         /\ \A i \in DOMAIN Tail(q) : i + 1 \in DOMAIN q /\ Tail(q)[i] = q[i + 1] /\ i \in Nat
OBVIOUS

(* What is left in the queue is still in order.                            *)
LEMMA InOrderRead ==
  ASSUME NEW sn, NEW cs, NEW used, NEW waiting, NEW q \in Seq(PDU), q # <<>>,
         InOrder(sn, cs, used, waiting, q)
  PROVE  InOrder(sn, cs, used, waiting, Tail(q))
<1> DEFINE r == Tail(q)
<1>1. \A i \in DOMAIN r : i + 1 \in DOMAIN q /\ r[i] = q[i + 1] /\ i \in Nat
  BY TailElements
<1> HIDE DEF r
<1>2. \A i, j \in DOMAIN r : i < j => i + 1 < j + 1
  BY <1>1
<1> QED
  BY <1>1, <1>2 DEF InOrder, r

(* What the first message of the queue confirms is taken over, and leaves  *)
(* the send buffer.                                                        *)
LEMMA InOrderTaken ==
  ASSUME NEW sn \in SeqNums, NEW cs \in SeqNums, NEW used \in 0 .. SendBufferSize,
         NEW waiting \in 0 .. used,
         NEW q \in Seq(PDU), q # <<>>, InOrder(sn, cs, used, waiting, q),
         Confirming(Head(q)),
         Minus(Head(q).cs, cs) <= Minus(sn, Minus(cs, 1))
  PROVE  LET x == Head(q).cs
             left == IF Minus(sn, x) > used THEN used ELSE Minus(sn, x) - 1
         IN  /\ Minus(sn, x) \in waiting + 1 .. Minus(sn, cs)
             /\ left \in waiting .. used
             /\ InOrder(sn, x, left, waiting, Tail(q))
<1> DEFINE x == Head(q).cs
           left == IF Minus(sn, x) > used THEN used ELSE Minus(sn, x) - 1
           r == Tail(q)
<1>1. /\ \A i \in DOMAIN r : i + 1 \in DOMAIN q /\ r[i] = q[i + 1] /\ i \in Nat
      /\ x = q[1].cs /\ 1 \in DOMAIN q /\ x \in SeqNums /\ Confirming(q[1])
  <2>1. Head(q) \in PDU
    BY TailElements
  <2>2. Head(q).cs \in SeqNums
    BY <2>1 DEF PDU
  <2> QED
    BY <2>2, TailElements
<1>2. \A i \in DOMAIN q : q[i].cs \in SeqNums
  BY ConfirmedNumbers
<1>3. \A i \in DOMAIN q : Minus(sn, q[i].cs) \in Nat
  BY <1>2, DistanceType
<1>4. /\ Minus(sn, cs) \in used + 1 .. used + 1 + SendBufferSize
      /\ Minus(sn, x) > waiting /\ Minus(sn, x) <= Minus(sn, cs) + 2 * SendBufferSize
  BY <1>1 DEF InOrder
<1> HIDE DEF r
<1>5. Minus(x, cs) <= Minus(sn, Minus(cs, 1))
  OBVIOUS
<1> HIDE DEF x
<1>6. Minus(sn, x) <= Minus(sn, cs)
  <2> DEFINE n == 2 * SendBufferSize
             b == Minus(sn, cs)
  <2>0. b \in Nat /\ b \in used + 1 .. used + 1 + SendBufferSize
    BY <1>4, DistanceType
  <2> HIDE DEF b
  <2>1. n \in Nat /\ Minus(sn, cs) <= n + 1 /\ 2 * n + 2 < SeqMod
    <3>1. n \in Nat /\ b <= n + 1 /\ 2 * n + 2 < SeqMod
      BY <2>0, RoomKnown
    <3> QED
      BY <3>1 DEF b
  <2>2. Minus(sn, x) <= Minus(sn, cs) + n
    BY <1>4
  <2> HIDE DEF n
  <2> QED
    BY <1>1, <1>5, <2>1, <2>2, AcceptedSince
<1>7. Minus(sn, x) \in waiting + 1 .. Minus(sn, cs)
  BY <1>1, <1>3, <1>4, <1>6
<1>8. left \in waiting .. used /\ Minus(sn, x) \in left + 1 .. left + 1 + SendBufferSize
  <2> DEFINE a == Minus(sn, x)
             b == Minus(sn, cs)
  <2>1. a \in Nat /\ b \in Nat /\ SendBufferSize \in Nat
    BY <1>1, DistanceType, RoomKnown
  <2>2. a \in waiting + 1 .. b /\ b \in used + 1 .. used + 1 + SendBufferSize
    BY <1>4, <1>7
  <2> HIDE DEF a, b
  <2>3. CASE a > used
    <3>1. left = used
      BY <2>3 DEF a
    <3> HIDE DEF left
    <3> QED
      BY <2>1, <2>2, <2>3, <3>1 DEF a
  <2>4. CASE a <= used
    <3>1. left = a - 1
      BY <2>1, <2>4 DEF a
    <3> HIDE DEF left
    <3>2. left \in waiting .. used /\ a \in left + 1 .. left + 1 + SendBufferSize
      BY <2>1, <2>2, <2>4, <3>1
    <3> QED
      BY <3>2 DEF a
  <2> QED
    BY <2>1, <2>3, <2>4
<1>9. ASSUME NEW i \in DOMAIN r, Confirming(r[i])
      PROVE  /\ Minus(sn, r[i].cs) > waiting
             /\ Minus(sn, r[i].cs) <= Minus(sn, x) + 2 * SendBufferSize
  <2>1. 1 < i + 1 /\ i + 1 \in DOMAIN q /\ Confirming(q[i + 1]) /\ r[i] = q[i + 1]
    <3>1. i \in 1 .. Len(r)
      BY <1>1 DEF r
    <3> QED
      BY <1>1, <1>9, <3>1
  <2> QED
    BY <1>1, <2>1 DEF InOrder
<1>10. ASSUME NEW i \in DOMAIN r, Confirming(r[i]), NEW j \in DOMAIN r, i < j, Confirming(r[j])
       PROVE  Minus(sn, r[j].cs) <= Minus(sn, r[i].cs) + 2 * SendBufferSize
  <2>1. i + 1 < j + 1
    BY <1>1, <1>10
  <2> QED
    BY <1>1, <1>10, <2>1 DEF InOrder
<1> HIDE DEF left
<1>11. InOrder(sn, x, left, waiting, r)
  BY <1>8, <1>9, <1>10 DEF InOrder
<1> QED
  BY <1>7, <1>8, <1>11 DEF x, left, r

-----------------------------------------------------------------------------
(* What waits in the send buffer.                                          *)

UnsentAt(b) == b.sent + 1 .. Len(b.msgs)

(* A message of this type waits to be sent.                                *)
Waits(b, type) == \E i \in UnsentAt(b) : b.msgs[i].type = type

(* Only these messages wait to be sent, and data to be sent again comes    *)
(* before new data and requests.                                           *)
Tidy(b) ==
  /\ \A i \in UnsentAt(b) :
       b.msgs[i].type \in {"RetrResp", "RetrData", "Hb", "Data", "RetrReq"}
  /\ \A i, j \in UnsentAt(b) :
       i < j /\ b.msgs[j].type = "RetrData" => b.msgs[i].type \notin {"Data", "RetrReq"}

(* The parts of a send buffer.                                             *)
LEMMA SendBufferType ==
  ASSUME NEW b \in SendBuffer
  PROVE  /\ b.msgs \in Seq(Message) /\ Len(b.msgs) \in Nat /\ Len(b.msgs) <= SendBufferSize
         /\ b.sent \in Nat /\ b.sent <= Len(b.msgs)
         /\ \A i \in 1 .. Len(b.msgs) : b.msgs[i] \in Message
BY DEF SendBuffer

(* What waits in e, waits in b as well, n places further on.               *)
LEMMA FewerWait ==
  ASSUME NEW b \in SendBuffer, NEW e \in SendBuffer, NEW n \in Nat,
         \A i \in UnsentAt(e) : i + n \in UnsentAt(b) /\ e.msgs[i] = b.msgs[i + n]
  PROVE  /\ Tidy(b) => Tidy(e)
         /\ \A type : Waits(e, type) => Waits(b, type)
<1>1. \A i \in UnsentAt(e) : i \in Int
  BY SendBufferType DEF UnsentAt
<1>2. \A i, j \in UnsentAt(e) : i < j => i + n < j + n
  BY <1>1
<1> QED
  BY <1>2 DEF Tidy, Waits

(* A message is put behind those that wait.                                *)
LEMMA OneMoreWaits ==
  ASSUME NEW b \in SendBuffer, NEW e \in SendBuffer, NEW m,
         m.type \in {"Hb", "Data", "RetrReq"},
         e.sent = b.sent, e.msgs = Append(b.msgs, m)
  PROVE  /\ Tidy(b) => Tidy(e)
         /\ \A type : Waits(e, type) => Waits(b, type) \/ type = m.type
<1> DEFINE k == Len(b.msgs) + 1
<1>1. /\ Len(e.msgs) = k /\ e.msgs[k] = m /\ \A i \in 1 .. Len(b.msgs) : e.msgs[i] = b.msgs[i]
      /\ b.sent \in Nat /\ Len(b.msgs) \in Nat
  <2>1. b.msgs \in Seq(Message) /\ b.sent \in Nat /\ Len(b.msgs) \in Nat
    BY SendBufferType
  <2> QED
    BY <2>1
<1>2. \A i \in UnsentAt(e) : i # k => i \in UnsentAt(b) /\ e.msgs[i] = b.msgs[i] /\ i \in Int
  BY <1>1 DEF UnsentAt
<1>3. \A i, j \in UnsentAt(e) : i < j => i # k
  BY <1>1 DEF UnsentAt
<1> HIDE DEF k
<1>4. ASSUME Tidy(b)
      PROVE  Tidy(e)
  <2>1. ASSUME NEW i \in UnsentAt(e)
        PROVE  e.msgs[i].type \in {"RetrResp", "RetrData", "Hb", "Data", "RetrReq"}
    BY <1>1, <1>2, <1>4 DEF Tidy
  <2>2. ASSUME NEW i \in UnsentAt(e), NEW j \in UnsentAt(e), i < j, e.msgs[j].type = "RetrData"
        PROVE  e.msgs[i].type \notin {"Data", "RetrReq"}
    <3>1. j # k
      BY <1>1, <2>2
    <3>2. /\ i \in UnsentAt(b) /\ j \in UnsentAt(b)
          /\ e.msgs[i] = b.msgs[i] /\ e.msgs[j] = b.msgs[j]
      BY <1>2, <1>3, <2>2, <3>1
    <3> QED
      BY <1>4, <2>2, <3>2 DEF Tidy
  <2> QED
    BY <2>1, <2>2 DEF Tidy
<1>5. ASSUME NEW type, Waits(e, type)
      PROVE  Waits(b, type) \/ type = m.type
  BY <1>1, <1>2, <1>5 DEF Waits
<1> QED
  BY <1>4, <1>5

(* What a confirmation removes was sent: the rest waits as before.         *)
LEMMA RemovedWaits ==
  ASSUME NEW b \in SendBuffer, NEW x
  PROVE  LET e == RemoveFromBuffer(b, x)
         IN  /\ e \in SendBuffer /\ e.sent <= b.sent
             /\ Len(e.msgs) = Len(b.msgs) - NumberConfirmed(b, x)
             /\ Len(e.msgs) - e.sent = Len(b.msgs) - b.sent
             /\ Tidy(b) => Tidy(e)
             /\ \A type : Waits(e, type) => Waits(b, type)
<1> DEFINE n == NumberConfirmed(b, x)
           msgs == b.msgs
           after == SubSeq(msgs, n + 1, Len(msgs))
           e == [msgs |-> after, sent |-> b.sent - n]
<1>1. /\ msgs \in Seq(Message) /\ Len(msgs) \in Nat /\ Len(msgs) <= SendBufferSize
      /\ b.sent \in Nat /\ b.sent <= Len(msgs)
  BY SendBufferType
<1>2. n \in 0 .. b.sent
  BY NumberConfirmedType
<1>3. RemoveFromBuffer(b, x) = e
  BY DEF RemoveFromBuffer
<1> HIDE DEF n, msgs
<1>4. /\ after \in Seq(Message) /\ Len(after) = Len(msgs) - n
      /\ \A i \in 1 .. Len(msgs) - n : after[i] = msgs[n + i]
  BY <1>1, <1>2
<1> HIDE DEF after
<1>5. /\ e \in SendBuffer /\ e.sent <= b.sent /\ Len(e.msgs) = Len(msgs) - n
      /\ Len(e.msgs) - e.sent = Len(msgs) - b.sent
  BY <1>1, <1>2, <1>4, SizesKnown DEF SendBuffer
<1>6. ASSUME NEW i \in UnsentAt(e)
      PROVE  i + n \in UnsentAt(b) /\ e.msgs[i] = b.msgs[i + n]
  <2>1. i \in b.sent - n + 1 .. Len(msgs) - n /\ e.msgs[i] = after[i]
    BY <1>4, <1>6 DEF UnsentAt
  <2>2. i \in 1 .. Len(msgs) - n /\ i + n \in b.sent + 1 .. Len(msgs) /\ n + i = i + n
    BY <1>1, <1>2, <2>1
  <2> QED
    BY <1>4, <2>1, <2>2 DEF UnsentAt, msgs
<1>7. n \in Nat
  BY <1>1, <1>2
<1> HIDE DEF e
<1>8. (Tidy(b) => Tidy(e)) /\ \A type : Waits(e, type) => Waits(b, type)
  BY <1>5, <1>6, <1>7, FewerWait
<1> QED
  BY <1>3, <1>5, <1>8 DEF msgs, n

(* A confirmed number removes exactly the messages up to the one with this *)
(* number, if none of those that wait has it.                              *)
LEMMA RemovesConfirmed ==
  ASSUME NEW b \in SendBuffer, NEW sn \in SeqNums, Gapless(b, sn),
         NEW x \in SeqNums,
         Minus(sn, x) \in Len(b.msgs) - b.sent + 1 .. 2 * SendBufferSize + 1
  PROVE  NumberConfirmed(b, x)
           = IF Minus(sn, x) > Len(b.msgs) THEN 0 ELSE Len(b.msgs) + 1 - Minus(sn, x)
<1> DEFINE used == Len(b.msgs)
           a == Minus(sn, x)
           IsConfirmed(i) == Minus(x, b.msgs[i].sn) < SendBufferSize
           Stops(n) == \/ n = b.sent
                       \/ ~ IsConfirmed(n + 1)
                       \/ n > 0 /\ b.msgs[n].sn = x
           n0 == IF a > used THEN 0 ELSE used + 1 - a
<1>1. /\ used \in Nat /\ used <= SendBufferSize /\ b.sent \in Nat /\ b.sent <= used
      /\ SendBufferSize \in Nat /\ 4 * SendBufferSize + 2 < SeqMod /\ a \in Nat
      /\ b.msgs \in Seq(Message)
  BY SendBufferType, RoomKnown, DistanceType
<1>2. a \in used - b.sent + 1 .. 2 * SendBufferSize + 1
  OBVIOUS
<1>3. ASSUME NEW i \in 1 .. used
      PROVE  /\ IsConfirmed(i) <=> used + 1 - i >= a
             /\ b.msgs[i].sn = x <=> used + 1 - i = a
  <2> DEFINE y == used + 1 - i
  <2>1. y \in 1 .. used /\ y \in Nat /\ y < SeqMod /\ a < SeqMod
    BY <1>1, <1>2, RoomKnown
  <2>2. b.msgs[i].sn = Minus(sn, y)
    BY <1>1 DEF Gapless
  <2>3. /\ Minus(x, Minus(sn, y)) = IF y >= a THEN y - a ELSE y - a + SeqMod
        /\ Minus(sn, y) = x <=> y = a
    <3>1. x = Minus(sn, a) /\ a \in SeqNums /\ y \in SeqNums
      BY <2>1, SizesKnown DEF Minus, SeqNums
    <3> HIDE DEF a, y
    <3> QED
      BY <2>1, <3>1, SizesKnown DEF Minus, SeqNums
  <2> HIDE DEF a, y, used
  <2>4. CASE y >= a
    <3>1. y - a < SendBufferSize
      BY <1>1, <1>2, <2>1, <2>4
    <3> QED
      BY <2>2, <2>3, <2>4, <3>1 DEF y
  <2>5. CASE ~ (y >= a)
    <3>1. ~ (y - a + SeqMod < SendBufferSize)
      BY <1>1, <1>2, <2>1, <2>5, RoomKnown
    <3> QED
      BY <2>2, <2>3, <2>5, <3>1 DEF y
  <2> QED
    BY <2>4, <2>5
<1> HIDE DEF IsConfirmed, used, a
<1>4. n0 \in 0 .. b.sent
  BY <1>1, <1>2
<1>5. Stops(n0)
  <2>1. CASE a > used
    <3>1. n0 = 0 /\ n0 + 1 = 1
      BY <2>1
    <3>2. CASE b.sent = 0
      BY <3>1, <3>2
    <3>3. CASE b.sent # 0
      <4>1. 1 \in 1 .. used /\ ~ (used + 1 - 1 >= a)
        BY <1>1, <2>1, <3>3
      <4> QED
        BY <1>3, <3>1, <4>1
    <3> QED
      BY <3>2, <3>3
  <2>2. CASE a <= used
    <3>1. n0 = used + 1 - a /\ n0 \in 1 .. used /\ used + 1 - n0 = a /\ n0 > 0
      BY <1>1, <1>2, <2>2
    <3> HIDE DEF n0
    <3> QED
      BY <1>3, <3>1
  <2> QED
    BY <1>1, <2>1, <2>2
<1>6. ASSUME NEW k \in 0 .. n0 - 1
      PROVE  ~ Stops(k)
  <2>1. a <= used /\ n0 = used + 1 - a
    BY <1>1, <1>6
  <2>2. k # b.sent /\ k + 1 \in 1 .. used /\ used + 1 - (k + 1) >= a
    BY <1>1, <1>2, <1>4, <1>6, <2>1
  <2>3. k > 0 => k \in 1 .. used /\ used + 1 - k # a
    BY <1>1, <1>2, <1>4, <1>6, <2>1
  <2> QED
    BY <1>3, <2>2, <2>3
<1> HIDE DEF Stops, n0
<1>7. ASSUME NEW n \in 0 .. b.sent, Stops(n), \A k \in 0 .. n - 1 : ~ Stops(k)
      PROVE  n = n0
  <2>1. ~ (n < n0)
    <3> SUFFICES ASSUME n < n0
                 PROVE  FALSE
      OBVIOUS
    <3>1. n \in 0 .. n0 - 1
      BY <1>1, <1>4
    <3> QED
      BY <1>6, <1>7, <3>1
  <2>2. ~ (n0 < n)
    <3> SUFFICES ASSUME n0 < n
                 PROVE  FALSE
      OBVIOUS
    <3>1. n0 \in 0 .. n - 1
      BY <1>1, <1>4
    <3> QED
      BY <1>5, <1>7, <3>1
  <2> QED
    BY <1>1, <1>4, <2>1, <2>2
<1>8. (CHOOSE n \in 0 .. b.sent : Stops(n) /\ \A k \in 0 .. n - 1 : ~ Stops(k)) = n0
  BY <1>4, <1>5, <1>6, <1>7
<1> QED
  BY <1>8 DEF NumberConfirmed, Stops, IsConfirmed, n0, a, used

-----------------------------------------------------------------------------
(* What a retransmission asserts of the send buffer.                       *)

(* Counting back from sn and counting up from cs meet.                     *)
LEMMA CountedFrom ==
  ASSUME NEW sn \in SeqNums, NEW cs \in SeqNums, NEW used \in Nat, used < SeqMod - 1,
         Minus(sn, cs) = used + 1, NEW i \in Nat, i > 0, i <= used
  PROVE  Minus(sn, used + 1 - i) = Plus(cs, i)
<1>1. CASE sn >= cs
  <2>1. used + 1 = sn - cs
    BY <1>1 DEF Minus
  <2>2. used + 1 - i = sn - (cs + i) /\ cs + i < sn /\ sn < SeqMod
    BY <2>1, SizesKnown DEF SeqNums
  <2> QED
    BY <2>2, SizesKnown DEF Plus, Minus, SeqNums
<1>2. CASE ~ (sn >= cs)
  <2>1. used + 1 = sn - cs + SeqMod
    BY <1>2 DEF Minus
  <2>2. used + 1 - i = sn - (cs + i) + SeqMod
    BY <2>1, SizesKnown DEF SeqNums
  <2> QED
    BY <2>2, SizesKnown DEF Plus, Minus, SeqNums
<1> QED
  BY <1>1, <1>2

(* The numbers follow the confirmed one, if none was given to a message    *)
(* that has left the buffer since.                                         *)
LEMMA Follows ==
  ASSUME NEW b \in SendBuffer, NEW sn \in SeqNums, Gapless(b, sn), NEW cs \in SeqNums,
         b.msgs # <<>>, Minus(sn, cs) = Len(b.msgs) + 1
  PROVE  FollowsConfirmed(b, cs)
<1>1. /\ b.msgs \in Seq(Message) /\ Len(b.msgs) \in Nat /\ Len(b.msgs) < SeqMod - 1
      /\ Len(b.msgs) <= SendBufferSize
  BY SendBufferType, SizesKnown
<1>2. ASSUME NEW i \in DOMAIN b.msgs
      PROVE  b.msgs[i].sn = Plus(cs, i)
  <2> DEFINE used == Len(b.msgs)
             k == used + 1 - i
  <2>1. b.msgs[i].sn = Minus(sn, k)
    BY DEF Gapless
  <2>2. i \in 1 .. used /\ used \in Nat /\ used < SeqMod - 1
    BY <1>1
  <2> HIDE DEF used
  <2>3. Minus(sn, cs) = used + 1
    BY DEF used
  <2>4. Minus(sn, k) = Plus(cs, i)
    BY <2>2, <2>3, CountedFrom
  <2> QED
    BY <2>1, <2>4
<1> QED
  BY <1>2 DEF FollowsConfirmed

(* The message after the one with the number x is in the buffer.           *)
LEMMA NextInBuffer ==
  ASSUME NEW b \in SendBuffer, NEW sn \in SeqNums, Gapless(b, sn), NEW x \in SeqNums,
         IsSequenceNumberInBuffer(b, Plus(x, 1))
  PROVE  Minus(sn, x) \in 2 .. Len(b.msgs) + 1
<1> DEFINE used == Len(b.msgs)
<1>1. b.msgs \in Seq(Message) /\ used \in Nat /\ used < SeqMod - 1
  BY SendBufferType, SizesKnown
<1>2. PICK i \in DOMAIN b.msgs : b.msgs[i].sn = Plus(x, 1)
  BY DEF IsSequenceNumberInBuffer
<1>3. i \in 1 .. used
  BY <1>1
<1>4. Minus(sn, used + 1 - i) = Plus(x, 1)
  BY <1>2 DEF Gapless
<1> HIDE DEF used
<1>5. Minus(sn, x) = used + 2 - i
  BY <1>1, <1>3, <1>4, SizesKnown DEF Plus, Minus, SeqNums
<1> QED
  BY <1>1, <1>3, <1>5 DEF used

(* What waits can be retransmitted, unless it is the answer to a request.  *)
LEMMA TidyCanRetransmit ==
  ASSUME NEW b \in SendBuffer, Tidy(b), ~ Waits(b, "RetrResp")
  PROVE  CanRetransmit(b)
<1> DEFINE u == Unsent(b)
           n == b.sent
<1>1. /\ b.msgs \in Seq(Message) /\ Len(b.msgs) \in Nat /\ n \in Nat /\ n <= Len(b.msgs)
  BY SendBufferType
<1>2. /\ DOMAIN u = 1 .. Len(b.msgs) - n
      /\ \A i \in 1 .. Len(b.msgs) - n : u[i] = b.msgs[n + i]
  BY <1>1 DEF Unsent
<1> HIDE DEF u
<1>3. ASSUME NEW i \in DOMAIN u
      PROVE  n + i \in UnsentAt(b) /\ u[i] = b.msgs[n + i] /\ i \in Int
  BY <1>1, <1>2 DEF UnsentAt
<1>4. ASSUME NEW i \in DOMAIN u
      PROVE  u[i].type \in {"Data", "RetrData", "RetrReq", "Hb"}
  BY <1>3 DEF Tidy, Waits
<1>5. ASSUME NEW i \in DOMAIN u, NEW j \in DOMAIN u, i < j, u[j].type = "RetrData"
      PROVE  u[i].type \notin {"Data", "RetrReq"}
  <2>1. n + i < n + j
    BY <1>1, <1>3, <1>5
  <2> QED
    BY <1>3, <1>5, <2>1 DEF Tidy
<1> QED
  BY <1>4, <1>5 DEF CanRetransmit, u

(* What a retransmission puts into the buffer is tidy.                     *)
LEMMA RetransmissionTidy ==
  ASSUME NEW b \in SendBuffer, NEW sn, NEW cts
  PROVE  Tidy(PrepareBufferForRetr(b, sn, cts))
<1> DEFINE P == [type : MessageTypes, payload : Nat]
           again == Again(b)
           fresh == OfTypes(Unsent(b), {"Data", "RetrReq"})
           Plain(type) == << [type |-> type, payload |-> 0] >>
           repeated == [i \in DOMAIN again |-> [type |-> "RetrData", payload |-> again[i].payload]]
           end == IF fresh # <<>> /\ fresh[1].type = "Data" THEN <<>> ELSE Plain("Hb")
           new == [i \in DOMAIN fresh |-> [type |-> fresh[i].type, payload |-> fresh[i].payload]]
           list == RetransmissionOf(b)
<1>1. /\ b.msgs \in Seq(Message) /\ Len(b.msgs) \in Nat /\ b.sent \in Nat /\ b.sent <= Len(b.msgs)
  BY SendBufferType
<1>2. SubSeq(b.msgs, 1, b.sent) \in Seq(Message) /\ Unsent(b) \in Seq(Message)
  BY <1>1 DEF Unsent
<1>3. again \in Seq(Message)
  <2> DEFINE A == {"Data", "RetrData"}
             B == {"RetrData"}
             none == {}
  <2>1. A \cap none = {} /\ B \cap none = {}
    OBVIOUS
  <2> HIDE DEF A, B, none
  <2>2. OfTypes(SubSeq(b.msgs, 1, b.sent), A) \in Seq(Message)
        /\ OfTypes(Unsent(b), B) \in Seq(Message)
    BY <1>2, <2>1, OfTypesCount
  <2> QED
    BY <2>2 DEF Again, A, B
<1>4. fresh \in Seq(Message) /\ \A i \in DOMAIN fresh : fresh[i].type \in {"Data", "RetrReq"}
  <2> DEFINE A == {"Data", "RetrReq"}
             none == {}
  <2>1. A \cap none = {}
    OBVIOUS
  <2> HIDE DEF A, none
  <2>2. OfTypes(Unsent(b), A) \in Seq(Message)
        /\ \A i \in DOMAIN OfTypes(Unsent(b), A) : OfTypes(Unsent(b), A)[i].type \in A
    BY <1>2, <2>1, OfTypesCount
  <2> QED
    BY <2>2 DEF A
<1> HIDE DEF again, fresh
<1>5. /\ again \in Seq(Message) /\ DOMAIN again = 1 .. Len(again) /\ Len(again) \in Nat
      /\ fresh \in Seq(Message) /\ DOMAIN fresh = 1 .. Len(fresh) /\ Len(fresh) \in Nat
      /\ \A i \in DOMAIN again : again[i] \in Message
      /\ \A i \in DOMAIN fresh : fresh[i] \in Message
  BY <1>3, <1>4
<1>6. /\ repeated \in Seq(P) /\ new \in Seq(P)
      /\ \A i \in DOMAIN repeated : repeated[i].type = "RetrData"
      /\ \A i \in DOMAIN new : new[i].type \in {"Data", "RetrReq"}
  <2>1. \A i \in DOMAIN again : [type |-> "RetrData", payload |-> again[i].payload] \in P
    BY <1>5 DEF Message, MessageTypes
  <2>2. \A i \in DOMAIN fresh : [type |-> fresh[i].type, payload |-> fresh[i].payload] \in P
    BY <1>5 DEF Message
  <2> HIDE DEF P
  <2>3. repeated \in Seq(P) /\ new \in Seq(P)
    BY <1>5, <2>1, <2>2
  <2> QED
    BY <1>4, <2>3
<1>7. /\ Plain("RetrResp") \in Seq(P) /\ end \in Seq(P)
      /\ Plain("RetrResp")[1].type = "RetrResp" /\ Len(Plain("RetrResp")) = 1
      /\ \A i \in DOMAIN end : end[i].type = "Hb"
  <2> DEFINE hb == [type |-> "Hb", payload |-> 0]
             resp == [type |-> "RetrResp", payload |-> 0]
  <2>1. hb \in P /\ resp \in P /\ hb.type = "Hb" /\ resp.type = "RetrResp"
    BY DEF MessageTypes
  <2> HIDE DEF P, hb, resp
  <2>2. << resp >> \in Seq(P) /\ Len(<< resp >>) = 1 /\ << resp >>[1] = resp
    BY <2>1
  <2>3. << hb >> \in Seq(P) /\ \A i \in DOMAIN << hb >> : << hb >>[i] = hb
    BY <2>1
  <2>4. <<>> \in Seq(P) /\ DOMAIN <<>> = {}
    OBVIOUS
  <2>5. end \in {<<>>, << hb >>}
    BY DEF hb
  <2> HIDE DEF end
  <2>6. end \in Seq(P) /\ \A i \in DOMAIN end : end[i].type = "Hb"
    BY <2>1, <2>3, <2>4, <2>5
  <2> QED
    BY <2>1, <2>2, <2>6 DEF resp
<1>8. list = Plain("RetrResp") \o repeated \o end \o new
  BY DEF RetransmissionOf, again, fresh
<1> HIDE DEF repeated, new, end, P
<1> DEFINE head == Plain("RetrResp") \o repeated
           tail == end \o new
<1>9. /\ head \in Seq(P) /\ \A i \in DOMAIN head : head[i].type \in {"RetrResp", "RetrData"}
  <2> DEFINE first == Plain("RetrResp")
  <2>1. first \in Seq(P) /\ Len(first) = 1 /\ first[1].type = "RetrResp"
    BY <1>7
  <2> HIDE DEF first
  <2>2. first \o repeated \in Seq(P) /\ Len(first \o repeated) = 1 + Len(repeated)
        /\ \A i \in 1 .. 1 + Len(repeated) :
             (first \o repeated)[i] = IF i <= 1 THEN first[i] ELSE repeated[i - 1]
    <3>1. first \in Seq(P) /\ repeated \in Seq(P)
      BY <1>6, <2>1
    <3> QED
      BY <2>1, <3>1, ConcatProperties
  <2>3. Len(repeated) \in Nat /\ DOMAIN repeated = 1 .. Len(repeated)
    BY <1>6
  <2>4. ASSUME NEW i \in 1 .. 1 + Len(repeated)
        PROVE  (first \o repeated)[i].type \in {"RetrResp", "RetrData"}
    <3>1. CASE i = 1
      BY <2>1, <2>2, <3>1
    <3>2. CASE i # 1
      <4>1. i - 1 \in DOMAIN repeated /\ (first \o repeated)[i] = repeated[i - 1]
        BY <2>2, <2>3, <3>2
      <4> QED
        BY <1>6, <4>1
    <3> QED
      BY <3>1, <3>2
  <2>5. DOMAIN (first \o repeated) = 1 .. 1 + Len(repeated)
    BY <2>2, <2>3
  <2> QED
    BY <2>2, <2>4, <2>5 DEF first
<1>10. /\ tail \in Seq(P) /\ \A i \in DOMAIN tail : tail[i].type \in {"Hb", "Data", "RetrReq"}
  <2>1. tail \in Seq(P) /\ Len(tail) = Len(end) + Len(new)
        /\ Len(end) \in Nat /\ Len(new) \in Nat
        /\ \A i \in 1 .. Len(end) + Len(new) :
             tail[i] = IF i <= Len(end) THEN end[i] ELSE new[i - Len(end)]
    BY <1>6, <1>7
  <2>2. ASSUME NEW i \in 1 .. Len(end) + Len(new)
        PROVE  tail[i].type \in {"Hb", "Data", "RetrReq"}
    <3>1. CASE i <= Len(end)
      <4>1. i \in DOMAIN end /\ tail[i] = end[i]
        BY <1>7, <2>1, <3>1
      <4> QED
        BY <1>7, <4>1
    <3>2. CASE ~ (i <= Len(end))
      <4>1. i - Len(end) \in DOMAIN new /\ tail[i] = new[i - Len(end)]
        BY <1>6, <2>1, <3>2
      <4> QED
        BY <1>6, <4>1
    <3> QED
      BY <3>1, <3>2
  <2>3. DOMAIN tail = 1 .. Len(end) + Len(new)
    BY <2>1
  <2> QED
    BY <2>1, <2>2, <2>3
<1>11. list = head \o tail
  BY <1>6, <1>7, <1>8
<1> HIDE DEF head, tail
<1>12. /\ list \in Seq(P) /\ Len(list) = Len(head) + Len(tail)
       /\ Len(head) \in Nat /\ Len(tail) \in Nat
       /\ DOMAIN head = 1 .. Len(head) /\ DOMAIN tail = 1 .. Len(tail)
       /\ \A i \in 1 .. Len(head) + Len(tail) :
            list[i] = IF i <= Len(head) THEN head[i] ELSE tail[i - Len(head)]
  BY <1>9, <1>10, <1>11
<1> HIDE DEF list
<1>13. ASSUME NEW i \in DOMAIN list
       PROVE  /\ list[i].type \in {"RetrResp", "RetrData", "Hb", "Data", "RetrReq"}
              /\ i <= Len(head) => list[i].type \in {"RetrResp", "RetrData"}
              /\ ~ (i <= Len(head)) => list[i].type # "RetrData"
              /\ i \in Int
  <2>1. i \in 1 .. Len(head) + Len(tail) /\ i \in Int
    BY <1>12
  <2>2. CASE i <= Len(head)
    <3>1. i \in DOMAIN head /\ list[i] = head[i]
      BY <1>12, <2>1, <2>2
    <3> QED
      BY <1>9, <2>1, <2>2, <3>1
  <2>3. CASE ~ (i <= Len(head))
    <3>1. i - Len(head) \in DOMAIN tail /\ list[i] = tail[i - Len(head)]
      BY <1>12, <2>1, <2>3
    <3> QED
      BY <1>10, <2>1, <2>3, <3>1
  <2> QED
    BY <2>2, <2>3
<1>14. ASSUME NEW i \in DOMAIN list, NEW j \in DOMAIN list, i < j, list[j].type = "RetrData"
       PROVE  list[i].type \notin {"Data", "RetrReq"}
  <2>1. j <= Len(head)
    BY <1>13, <1>14
  <2>2. i <= Len(head)
    BY <1>12, <1>13, <1>14, <2>1
  <2>3. list[i].type \in {"RetrResp", "RetrData"}
    BY <1>13, <2>2
  <2> QED
    BY <2>3
<1> DEFINE e == PrepareBufferForRetr(b, sn, cts)
           msgs == [i \in DOMAIN list |->
                      [type |-> list[i].type, sn |-> Plus(sn, i - 1), cts |-> cts,
                       payload |-> list[i].payload]]
<1>15. e = [msgs |-> msgs, sent |-> 0]
  BY DEF PrepareBufferForRetr, list
<1>16. /\ e.sent = 0 /\ Len(e.msgs) = Len(list) /\ DOMAIN list = 1 .. Len(list)
       /\ \A i \in DOMAIN list : e.msgs[i].type = list[i].type
  <2>1. DOMAIN list = 1 .. Len(list) /\ Len(list) \in Nat
    BY <1>12
  <2>2. Len(msgs) = Len(list) /\ \A i \in DOMAIN list : msgs[i].type = list[i].type
    BY <2>1
  <2> HIDE DEF msgs, e
  <2> QED
    BY <1>15, <2>1, <2>2
<1> HIDE DEF e
<1>17. \A i \in UnsentAt(e) : i \in DOMAIN list /\ e.msgs[i].type = list[i].type
  BY <1>16 DEF UnsentAt
<1>18. Tidy(e)
  BY <1>13, <1>14, <1>17 DEF Tidy
<1> QED
  BY <1>18 DEF e

-----------------------------------------------------------------------------
(* Connections that no message stops.                                      *)

(* What sending and retransmitting leaves alone.                           *)
Alike(cn, dn) ==
  /\ dn.server = cn.server /\ dn.nSendMax = cn.nSendMax /\ dn.state = cn.state
  /\ dn.temp = cn.temp /\ dn.opposite = cn.opposite /\ dn.csR = cn.csR
  /\ dn.inbox = cn.inbox /\ dn.recvBuf = cn.recvBuf

(* At most one request for retransmission is in the queue, and none while  *)
(* the answer to the last one waits to be sent.                            *)
OneRequest(b, q) ==
  /\ \A i, j \in DOMAIN q : q[i].type = "RetrReq" /\ q[j].type = "RetrReq" => i = j
  /\ Waits(b, "RetrResp") => \A i \in DOMAIN q : q[i].type # "RetrReq"

(* A connection that has exchanged numbers with its peer has the size of   *)
(* its received buffer; and unless it was misled, the messages of q do not *)
(* violate an assertion.                                                   *)
Safe(cn, q, M) ==
  /\ ~ cn.temp /\ cn.opposite = PeerNSendMax /\ cn.sendBuf.sent <= PeerNSendMax
  /\ Tidy(cn.sendBuf)
  /\ "InvalidSequenceNumber" \notin M =>
       InOrder(cn.snT, cn.csR, Used(cn), GetNumberOfMessagesToSend(cn.sendBuf), q)
  /\ "InternalError" \notin M => OneRequest(cn.sendBuf, q)

(* The parts of a connection that matter here.                             *)
LEMMA ConnParts ==
  ASSUME NEW cn, ConnInv(cn)
  PROVE  /\ cn \in Connection /\ cn.sendBuf \in SendBuffer /\ cn.snT \in SeqNums
         /\ cn.csR \in SeqNums /\ cn.inbox \in Seq(PDU) /\ cn.opposite \in Nat
         /\ cn.state \in States /\ cn.temp \in BOOLEAN /\ cn.server \in BOOLEAN
         /\ Gapless(cn.sendBuf, cn.snT)
         /\ Used(cn) = Len(cn.sendBuf.msgs) /\ Used(cn) \in 0 .. SendBufferSize
         /\ GetNumberOfMessagesToSend(cn.sendBuf) = Used(cn) - cn.sendBuf.sent
         /\ GetNumberOfMessagesToSend(cn.sendBuf) \in 0 .. Used(cn)
         /\ cn.sendBuf.sent \in 0 .. Used(cn)
<1>1. cn \in Connection /\ Gapless(cn.sendBuf, cn.snT)
  BY DEF ConnInv
<1>2. /\ cn.sendBuf \in SendBuffer /\ cn.snT \in SeqNums
      /\ cn.csR \in SeqNums /\ cn.inbox \in Seq(PDU) /\ cn.opposite \in Nat
      /\ cn.state \in States /\ cn.temp \in BOOLEAN /\ cn.server \in BOOLEAN
  BY <1>1 DEF Connection
<1>3. /\ Used(cn) = Len(cn.sendBuf.msgs) /\ Used(cn) \in 0 .. SendBufferSize
      /\ GetNumberOfMessagesToSend(cn.sendBuf) = Used(cn) - cn.sendBuf.sent
      /\ GetNumberOfMessagesToSend(cn.sendBuf) \in 0 .. Used(cn)
      /\ cn.sendBuf.sent \in 0 .. Used(cn)
  BY <1>2, SendBufferType, SizesKnown DEF Used, GetNumberOfMessagesToSend
<1> QED
  BY <1>1, <1>2, <1>3

(* srcor_SendPendingMessages only sends.                                   *)
LEMMA PendingSent ==
  ASSUME NEW cn, ConnInv(cn), NEW at \in SeqNums
  PROVE  LET dn == SendPendingMessages(cn, at)
         IN  /\ ConnInv(dn) /\ Alike(cn, dn) /\ dn.fatal = cn.fatal /\ dn.snT = cn.snT
             /\ dn.sendBuf.msgs = cn.sendBuf.msgs
             /\ dn.sendBuf.sent = SentWithFlowControl(cn)
             /\ SentWithFlowControl(cn) \in cn.sendBuf.sent .. Used(cn)
             /\ SentWithFlowControl(cn) = cn.sendBuf.sent \/ SentWithFlowControl(cn) <= cn.opposite
<1> DEFINE b == cn.sendBuf
           k == SentWithFlowControl(cn)
           n == k - b.sent
           cs == IF n > 0 /\ b.msgs[b.sent + 1].type = "ConnReq" THEN 0 ELSE cn.csT
           pdus == [i \in 1 .. n |-> Completed(b.msgs[b.sent + i], cs, at)]
           sent == [cn EXCEPT !.sendBuf.sent = @ + n, !.csT = cs, !.lastCsT = cs, !.tsT = at]
           dn == SendPendingMessages(cn, at)
<1>1. /\ b.msgs \in Seq(Message) /\ Len(b.msgs) \in Nat /\ b.sent \in 0 .. Len(b.msgs)
      /\ cn.opposite \in Nat /\ Used(cn) = Len(b.msgs) /\ b \in SendBuffer /\ cn \in Connection
  BY ConnParts, SendBufferType
<1>2. k \in b.sent .. Len(b.msgs) /\ (k = b.sent \/ k <= cn.opposite)
  BY <1>1 DEF SentWithFlowControl, Min2, GetUsedBufferEntries
<1>3. ConnInv(dn)
  BY SendPendingSends DEF Sends
<1>4. CASE n = 0
  <2>1. dn = cn
    BY <1>4 DEF SendPendingMessages
  <2>2. k = b.sent
    BY <1>1, <1>2, <1>4
  <2> QED
    BY <1>1, <1>2, <1>3, <2>1, <2>2 DEF Alike
<1>5. CASE n # 0
  <2>1. dn = SradinSend(sent, pdus)
    BY <1>5 DEF SendPendingMessages
  <2> HIDE DEF pdus, cs
  <2>2. b.sent + n = k
    BY <1>1, <1>2
  <2>3. /\ Alike(cn, sent) /\ sent.fatal = cn.fatal /\ sent.snT = cn.snT
        /\ sent.sendBuf.msgs = b.msgs /\ sent.sendBuf.sent = b.sent + n
        /\ DOMAIN sent = DOMAIN cn
    <3>1. b \in [msgs : Seq(Message), sent : Nat]
      BY <1>1 DEF SendBuffer
    <3> HIDE DEF n
    <3> QED
      BY <1>1, <3>1 DEF Alike, Connection
  <2>4. /\ Alike(sent, dn) /\ dn.fatal = sent.fatal /\ dn.snT = sent.snT
        /\ dn.sendBuf = sent.sendBuf
    <3> HIDE DEF dn
    <3>1. CASE sent.state = "Closed"
      BY <2>1, <3>1 DEF SradinSend, Alike
    <3>2. CASE sent.state # "Closed"
      <4>1. dn = [sent EXCEPT !.out = @ \o pdus]
        BY <2>1, <3>2 DEF SradinSend
      <4> HIDE DEF sent
      <4> QED
        BY <1>1, <2>3, <4>1 DEF Alike, Connection
    <3> QED
      BY <3>1, <3>2
  <2> HIDE DEF sent, dn, k, n
  <2> QED
    BY <1>1, <1>2, <1>3, <2>2, <2>3, <2>4 DEF Alike, dn, k
<1> QED
  BY <1>4, <1>5

(* More is sent, and nothing else changes: the connection stays safe.      *)
LEMMA SafePending ==
  ASSUME NEW cn, ConnInv(cn), NEW at \in SeqNums,
         NEW q \in Seq(PDU), NEW M, Safe(cn, q, M)
  PROVE  Safe(SendPendingMessages(cn, at), q, M)
<1> DEFINE dn == SendPendingMessages(cn, at)
<1>1. /\ ConnInv(dn) /\ Alike(cn, dn) /\ dn.snT = cn.snT
      /\ dn.sendBuf.msgs = cn.sendBuf.msgs
      /\ dn.sendBuf.sent \in cn.sendBuf.sent .. Used(cn)
      /\ dn.sendBuf.sent = cn.sendBuf.sent \/ dn.sendBuf.sent <= cn.opposite
  BY PendingSent
<1> HIDE DEF dn
<1>2. dn.sendBuf.sent <= PeerNSendMax
  BY <1>1 DEF Safe
<1>3. /\ cn.sendBuf \in SendBuffer /\ dn.sendBuf \in SendBuffer
      /\ \A i \in UnsentAt(dn.sendBuf) : i + 0 \in UnsentAt(cn.sendBuf)
                                        /\ dn.sendBuf.msgs[i] = cn.sendBuf.msgs[i + 0]
  <2>1. cn.sendBuf \in SendBuffer /\ dn.sendBuf \in SendBuffer
    BY <1>1, ConnParts
  <2>2. Len(cn.sendBuf.msgs) \in Nat /\ cn.sendBuf.sent \in Nat /\ dn.sendBuf.sent \in Nat
        /\ cn.sendBuf.sent <= dn.sendBuf.sent
    BY <1>1, <2>1, SendBufferType, ConnParts
  <2>3. \A i \in UnsentAt(dn.sendBuf) : i \in UnsentAt(cn.sendBuf) /\ i + 0 = i
    BY <1>1, <2>2 DEF UnsentAt
  <2> QED
    BY <1>1, <2>1, <2>3
<1>4. Tidy(dn.sendBuf) /\ \A type : Waits(dn.sendBuf, type) => Waits(cn.sendBuf, type)
  BY <1>3, FewerWait DEF Safe
<1>5. ASSUME "InvalidSequenceNumber" \notin M
      PROVE  InOrder(dn.snT, dn.csR, Used(dn), GetNumberOfMessagesToSend(dn.sendBuf), q)
  <2> DEFINE w == GetNumberOfMessagesToSend(cn.sendBuf)
             v == GetNumberOfMessagesToSend(dn.sendBuf)
  <2>1. w \in Nat /\ v \in Nat /\ v <= w /\ Used(dn) = Used(cn)
    <3>1. Used(dn) = Used(cn)
      BY <1>1 DEF Used
    <3>2. w = Used(cn) - cn.sendBuf.sent /\ w \in 0 .. Used(cn)
      BY ConnParts
    <3>3. v = Used(dn) - dn.sendBuf.sent /\ v \in 0 .. Used(dn)
      BY <1>1, ConnParts
    <3>4. cn.sendBuf.sent <= dn.sendBuf.sent /\ cn.sendBuf.sent \in Nat /\ dn.sendBuf.sent \in Nat
          /\ Used(cn) \in Nat
      BY <1>1, ConnParts, SizesKnown
    <3> QED
      BY <3>1, <3>2, <3>3, <3>4
  <2>2. InOrder(cn.snT, cn.csR, Used(cn), w, q)
    BY <1>5 DEF Safe
  <2> HIDE DEF w, v
  <2>3. InOrder(cn.snT, cn.csR, Used(cn), v, q)
    BY <2>1, <2>2, ConnParts, InOrderSent
  <2> QED
    BY <1>1, <2>1, <2>3 DEF Alike, v
<1>6. "InternalError" \notin M => OneRequest(dn.sendBuf, q)
  BY <1>4 DEF Safe, OneRequest
<1>7. Safe(dn, q, M)
  BY <1>1, <1>2, <1>4, <1>5, <1>6 DEF Safe, Alike
<1> QED
  BY <1>7 DEF dn

(* A message is put into a send buffer that is not full, and sent.         *)
LEMMA MessageAdded ==
  ASSUME NEW cn, ConnInv(cn), NEW type \in MessageTypes, NEW payload \in Nat,
         NEW at \in SeqNums, Used(cn) < SendBufferSize
  PROVE  \E e : /\ ConnInv(e) /\ Alike(cn, e) /\ e.fatal = cn.fatal
                /\ e.snT = Plus(cn.snT, 1)
                /\ e.sendBuf.msgs = Append(cn.sendBuf.msgs, NewMessage(cn, type, payload))
                /\ e.sendBuf.sent = cn.sendBuf.sent
                /\ SendMessage(cn, type, payload, at) = SendPendingMessages(e, at)
<1> DEFINE m == NewMessage(cn, type, payload)
           b == [cn.sendBuf EXCEPT !.msgs = Append(@, m)]
           sn == Plus(cn.snT, 1)
           e == [cn EXCEPT !.snT = Plus(@, 1), !.sendBuf.msgs = Append(@, m)]
<1>1. /\ cn.snT \in SeqNums /\ cn.tsR \in SeqNums /\ sn \in SeqNums /\ cn \in Connection
      /\ cn.sendBuf \in SendBuffer /\ Used(cn) \in Nat /\ Used(cn) <= SendBufferSize
  BY UsedSize, PlusMinusType, SmallNumbers DEF ConnInv, Connection
<1>2. m \in Message /\ m.sn = cn.snT
  BY <1>1 DEF NewMessage, Message
<1>3. Numbered(cn.sendBuf, cn.snT, Used(cn))
  BY <1>1 DEF Numbered, ConnInv, Used
<1>4. GetFreeBufferEntries(cn.sendBuf) # 0
  BY <1>1, SizesKnown DEF GetFreeBufferEntries, Used
<1>5. SendMessage(cn, type, payload, at) = SendPendingMessages(e, at)
  BY <1>4 DEF SendMessage
<1>6. e = [cn EXCEPT !.sendBuf = b, !.snT = sn]
  BY <1>1 DEF Connection
<1>7. b.msgs = Append(cn.sendBuf.msgs, m) /\ b.sent = cn.sendBuf.sent
  BY <1>1 DEF SendBuffer
<1> HIDE DEF m
<1>8. Numbered(b, sn, Used(cn) + 1)
  BY <1>1, <1>2, <1>3, AppendNumbered
<1> HIDE DEF b, sn, e
<1>9. ConnInv(e)
  BY <1>1, <1>6, <1>8, BufferReplaced DEF Sends
<1>10. Alike(cn, e) /\ e.fatal = cn.fatal /\ e.snT = sn /\ e.sendBuf = b
  BY <1>1, <1>6 DEF Alike, Connection
<1> QED
  BY <1>5, <1>7, <1>9, <1>10 DEF sn, m

(* One number more is given.                                               *)
LEMMA OneMoreGiven ==
  ASSUME NEW used \in Nat, used < SendBufferSize,
         NEW B \in used + 1 .. used + 1 + SendBufferSize
  PROVE  LET more == used + 1
         IN  /\ B + 2 * SendBufferSize + 1 < SeqMod
             /\ more \in Nat /\ B + 1 \in more + 1 .. more + 1 + SendBufferSize
BY RoomKnown

(* A message that waits behind the others: the connection stays safe.      *)
LEMMA SafeMessage ==
  ASSUME NEW cn, ConnInv(cn), NEW type \in {"Hb", "Data", "RetrReq"},
         NEW payload \in Nat, NEW at \in SeqNums, Used(cn) < SendBufferSize,
         NEW q \in Seq(PDU), NEW M, Safe(cn, q, M)
  PROVE  LET dn == SendMessage(cn, type, payload, at)
         IN  ConnInv(dn) /\ Alike(cn, dn) /\ dn.fatal = cn.fatal /\ Safe(dn, q, M)
<1> DEFINE dn == SendMessage(cn, type, payload, at)
           m == NewMessage(cn, type, payload)
<1>1. type \in MessageTypes /\ m.type = type
  BY DEF MessageTypes, NewMessage
<1> HIDE DEF m
<1>2. PICK e : /\ ConnInv(e) /\ Alike(cn, e) /\ e.fatal = cn.fatal
               /\ e.snT = Plus(cn.snT, 1)
               /\ e.sendBuf.msgs = Append(cn.sendBuf.msgs, m)
               /\ e.sendBuf.sent = cn.sendBuf.sent
               /\ dn = SendPendingMessages(e, at)
  BY <1>1, MessageAdded DEF m
<1> HIDE DEF dn
<1>3. cn.sendBuf \in SendBuffer /\ e.sendBuf \in SendBuffer
  BY <1>2, ConnParts
<1>4. /\ Tidy(e.sendBuf)
      /\ \A t : Waits(e.sendBuf, t) => Waits(cn.sendBuf, t) \/ t = m.type
  <2>1. m.type \in {"Hb", "Data", "RetrReq"}
    BY <1>1
  <2>2. Tidy(cn.sendBuf)
    BY DEF Safe
  <2> DEFINE b == cn.sendBuf
             f == e.sendBuf
  <2>3. b \in SendBuffer /\ f \in SendBuffer /\ f.sent = b.sent /\ f.msgs = Append(b.msgs, m)
    BY <1>2, <1>3
  <2> HIDE DEF b, f
  <2>4. (Tidy(b) => Tidy(f)) /\ \A t : Waits(f, t) => Waits(b, t) \/ t = m.type
    BY <2>1, <2>3, OneMoreWaits
  <2> QED
    BY <2>2, <2>4 DEF b, f
<1>5. Waits(e.sendBuf, "RetrResp") => Waits(cn.sendBuf, "RetrResp")
  BY <1>1, <1>4
<1>6. ASSUME "InvalidSequenceNumber" \notin M
      PROVE  InOrder(e.snT, e.csR, Used(e), GetNumberOfMessagesToSend(e.sendBuf), q)
  <2> DEFINE w == GetNumberOfMessagesToSend(cn.sendBuf)
             v == GetNumberOfMessagesToSend(e.sendBuf)
             used == Used(cn)
             B == Minus(cn.snT, cn.csR)
  <2>1. Used(e) = used + 1 /\ v = w + 1 /\ w \in Nat /\ used \in Nat /\ used < SendBufferSize
        /\ v \in Nat
    <3>1. cn.sendBuf.msgs \in Seq(Message)
      BY <1>3, SendBufferType
    <3>2. Len(e.sendBuf.msgs) = Len(cn.sendBuf.msgs) + 1
      BY <1>2, <3>1
    <3>3. Used(e) = used + 1
      BY <1>2, <3>2, ConnParts
    <3> QED
      BY <1>2, <3>3, ConnParts
  <2>2. InOrder(cn.snT, cn.csR, used, w, q)
    BY <1>6 DEF Safe
  <2>3. B \in used + 1 .. used + 1 + SendBufferSize /\ B \in Nat
    BY <2>2, ConnParts, DistanceType DEF InOrder
  <2> HIDE DEF w, v, used, B
  <2> DEFINE more == used + 1
  <2>4. v <= w + 1 /\ 1 \in Nat
    BY <2>1
  <2>6. /\ B + 2 * SendBufferSize + 1 < SeqMod
        /\ more \in Nat /\ B + 1 \in more + 1 .. more + 1 + SendBufferSize
    BY <2>1, <2>3, OneMoreGiven
  <2> HIDE DEF more
  <2>7. InOrder(Plus(cn.snT, 1), cn.csR, more, v, q)
    BY <2>1, <2>2, <2>4, <2>6, ConnParts, InOrderGiven DEF B
  <2> QED
    BY <1>2, <2>1, <2>7 DEF Alike, v, more
<1>7. Safe(e, q, M)
  BY <1>2, <1>4, <1>5, <1>6 DEF Safe, Alike, OneRequest
<1>8. Safe(dn, q, M) /\ ConnInv(dn) /\ Alike(e, dn) /\ dn.fatal = e.fatal
  BY <1>2, <1>7, SafePending, PendingSent
<1>9. Alike(cn, dn) /\ dn.fatal = cn.fatal
  BY <1>2, <1>8 DEF Alike
<1> QED
  BY <1>8, <1>9 DEF dn

-----------------------------------------------------------------------------
(* Connections that are safe, unless the program has stopped.              *)

(* If the program has stopped, the peer has misled this end, or it was the *)
(* assertion on the alive time.                                            *)
Allowed(cn, M) == cn.fatal \in {"None", "InvalidParameter"} \cup M

Fit(cn, q, M) ==
  /\ ConnInv(cn) /\ Allowed(cn, M)
  /\ cn.fatal = "None" => Safe(cn, q, M)

(* The connection can answer a request for retransmission: no number was   *)
(* given up since the confirmed one, and no answer waits to be sent.       *)
Answers(cn, q, M) ==
  /\ "InvalidSequenceNumber" \notin M =>
       Used(cn) > 0 /\ Minus(cn.snT, cn.csR) = Used(cn) + 1
  /\ "InternalError" \notin M =>
       ~ Waits(cn.sendBuf, "RetrResp") /\ \A i \in DOMAIN q : q[i].type # "RetrReq"

(* What matters for all that.                                              *)
Inside(cn, dn) ==
  /\ dn.server = cn.server /\ dn.temp = cn.temp /\ dn.opposite = cn.opposite
  /\ dn.csR = cn.csR /\ dn.snT = cn.snT /\ dn.sendBuf = cn.sendBuf

(* Nothing that matters has changed.                                       *)
LEMMA InsideFit ==
  ASSUME NEW cn, NEW q, NEW M, Fit(cn, q, M), NEW dn, ConnInv(dn), Inside(cn, dn),
         dn.fatal \in {cn.fatal, "InvalidParameter"}
  PROVE  /\ Fit(dn, q, M)
         /\ Answers(cn, q, M) => Answers(dn, q, M)
<1>1. Used(dn) = Used(cn)
  BY DEF Inside, Used
<1>2. Safe(cn, q, M) => Safe(dn, q, M)
  BY <1>1 DEF Inside, Safe
<1>3. dn.fatal = "None" => cn.fatal = "None"
  OBVIOUS
<1>4. Allowed(dn, M)
  BY DEF Fit, Allowed
<1> QED
  BY <1>1, <1>2, <1>3, <1>4 DEF Fit, Inside, Answers

(* More is sent.                                                           *)
LEMMA FitPending ==
  ASSUME NEW cn, NEW q \in Seq(PDU), NEW M, Fit(cn, q, M), NEW at \in SeqNums
  PROVE  LET dn == SendPendingMessages(cn, at)
         IN  Fit(dn, q, M) /\ Alike(cn, dn) /\ dn.fatal = cn.fatal
<1> DEFINE dn == SendPendingMessages(cn, at)
<1>1. ConnInv(cn)
  BY DEF Fit
<1>2. ConnInv(dn) /\ Alike(cn, dn) /\ dn.fatal = cn.fatal
  BY <1>1, PendingSent
<1>3. Safe(cn, q, M) => Safe(dn, q, M)
  BY <1>1, SafePending
<1> HIDE DEF dn
<1> QED
  BY <1>2, <1>3 DEF Fit, Allowed, dn

(* A message more is sent, or waits.                                       *)
LEMMA FitMessage ==
  ASSUME NEW cn, NEW q \in Seq(PDU), NEW M, Fit(cn, q, M),
         NEW type \in {"Hb", "Data", "RetrReq"}, NEW payload \in Nat, NEW at \in SeqNums,
         Used(cn) < SendBufferSize
  PROVE  LET dn == SendMessage(cn, type, payload, at)
         IN  Fit(dn, q, M) /\ Alike(cn, dn) /\ dn.fatal = cn.fatal
<1> DEFINE dn == SendMessage(cn, type, payload, at)
<1>1. ConnInv(cn) /\ type \in MessageTypes
  BY DEF Fit, MessageTypes
<1>2. ConnInv(dn) /\ Alike(cn, dn) /\ dn.fatal = cn.fatal
  <2>1. PICK e : /\ ConnInv(e) /\ Alike(cn, e) /\ e.fatal = cn.fatal
                 /\ dn = SendPendingMessages(e, at)
    BY <1>1, MessageAdded
  <2> HIDE DEF dn
  <2>2. ConnInv(dn) /\ Alike(e, dn) /\ dn.fatal = e.fatal
    BY <2>1, PendingSent
  <2> QED
    BY <2>1, <2>2 DEF Alike
<1>3. Safe(cn, q, M) => Safe(dn, q, M)
  BY <1>1, SafeMessage
<1> HIDE DEF dn
<1> QED
  BY <1>2, <1>3 DEF Fit, Allowed, dn

(* ReceivedFlowControlCheck.                                               *)
LEMMA FitFlowControl ==
  ASSUME NEW cn, NEW q \in Seq(PDU), NEW M, Fit(cn, q, M), NEW m,
         NEW at \in SeqNums, Used(cn) < SendBufferSize
  PROVE  LET dn == ReceivedFlowControlCheck(cn, m, at)
         IN  Fit(dn, q, M) /\ Alike(cn, dn) /\ dn.fatal = cn.fatal
<1>1. Alike(cn, cn)
  BY DEF Alike
<1>2. LET dn == SendHbMessage(cn, at) IN Fit(dn, q, M) /\ Alike(cn, dn) /\ dn.fatal = cn.fatal
  BY FitMessage, 0 \in Nat DEF SendHbMessage
<1>3. LET dn == SendPendingMessages(cn, at)
      IN  Fit(dn, q, M) /\ Alike(cn, dn) /\ dn.fatal = cn.fatal
  BY FitPending
<1>4. ReceivedFlowControlCheck(cn, m, at)
        \in {cn, SendHbMessage(cn, at), SendPendingMessages(cn, at)}
  BY DEF ReceivedFlowControlCheck
<1> QED
  BY <1>1, <1>2, <1>3, <1>4

(* A message is taken from the queue, and changes nothing else.            *)
LEMMA FitRead ==
  ASSUME NEW cn, NEW q \in Seq(PDU), q # <<>>, NEW M, Fit(cn, q, M)
  PROVE  Fit(cn, Tail(q), M)
<1> DEFINE r == Tail(q)
<1>1. \A i \in DOMAIN r : i + 1 \in DOMAIN q /\ r[i] = q[i + 1] /\ i \in Nat
  BY TailElements
<1>2. \A b : OneRequest(b, q) => OneRequest(b, r)
  <2> HIDE DEF r
  <2>1. \A i, j \in DOMAIN r : i + 1 = j + 1 => i = j
    BY <1>1
  <2> QED
    BY <1>1, <2>1 DEF OneRequest
<1>3. Safe(cn, q, M) => Safe(cn, r, M)
  <2> SUFFICES ASSUME Safe(cn, q, M)
               PROVE  Safe(cn, r, M)
    OBVIOUS
  <2>1. "InvalidSequenceNumber" \notin M =>
          InOrder(cn.snT, cn.csR, Used(cn), GetNumberOfMessagesToSend(cn.sendBuf), r)
    BY InOrderRead DEF Safe
  <2> HIDE DEF r
  <2> QED
    BY <1>2, <2>1 DEF Safe
<1> HIDE DEF r
<1>4. Fit(cn, r, M)
  BY <1>3 DEF Fit
<1> QED
  BY <1>4 DEF r

(* What the confirmed number of the first message leaves in the buffer.    *)
LEMMA TakenLeaves ==
  ASSUME NEW cn, ConnInv(cn), NEW q \in Seq(PDU), q # <<>>,
         InOrder(cn.snT, cn.csR, Used(cn), GetNumberOfMessagesToSend(cn.sendBuf), q),
         Confirming(Head(q)),
         Minus(Head(q).cs, cn.csR) <= Minus(cn.snT, Minus(cn.csR, 1)),
         NEW e, \/ e = RemoveFromBuffer(cn.sendBuf, Head(q).cs)
                \/ e = cn.sendBuf /\ Head(q).cs = cn.csR
  PROVE  LET x == Head(q).cs
         IN  /\ InOrder(cn.snT, x, Len(e.msgs), GetNumberOfMessagesToSend(e), Tail(q))
             /\ Retransmits(cn, Head(q)) =>
                  Len(e.msgs) > 0 /\ Minus(cn.snT, x) = Len(e.msgs) + 1
<1> DEFINE x == Head(q).cs
           sn == cn.snT
           cs == cn.csR
           b == cn.sendBuf
           used == Len(b.msgs)
           w == GetNumberOfMessagesToSend(b)
           a == Minus(sn, x)
           left == IF a > used THEN used ELSE a - 1
           r == Tail(q)
<1>1. /\ sn \in SeqNums /\ cs \in SeqNums /\ b \in SendBuffer /\ Gapless(b, sn)
      /\ used \in 0 .. SendBufferSize /\ w \in 0 .. used /\ Used(cn) = used
      /\ w = used - b.sent /\ used \in Nat /\ b.sent \in Nat
  BY ConnParts, SendBufferType
<1>2. x \in SeqNums
  <2>1. Head(q) \in PDU
    BY TailElements
  <2> QED
    BY <2>1 DEF PDU
<1>3. a \in Nat
  BY <1>1, <1>2, DistanceType
<1>4. InOrder(sn, cs, used, w, q)
  BY <1>1
<1>5. a \in w + 1 .. Minus(sn, cs) /\ left \in w .. used /\ InOrder(sn, x, left, w, r)
  <2> HIDE DEF used, w
  <2>1. Minus(x, cs) <= Minus(sn, Minus(cs, 1))
    OBVIOUS
  <2>2. LET y == Head(q).cs
            rest == IF Minus(sn, y) > used THEN used ELSE Minus(sn, y) - 1
        IN  /\ Minus(sn, y) \in w + 1 .. Minus(sn, cs)
            /\ rest \in w .. used
            /\ InOrder(sn, y, rest, w, Tail(q))
    BY <1>1, <1>4, <2>1, InOrderTaken
  <2> QED
    BY <2>2
<1>6. Minus(sn, cs) \in used + 1 .. used + 1 + SendBufferSize /\ Minus(sn, cs) \in Nat
  BY <1>1, <1>4, DistanceType DEF InOrder
<1>7. Retransmits(cn, Head(q)) => a \in 2 .. used + 1
  BY <1>1, <1>2, NextInBuffer DEF Retransmits
<1>8. Len(e.msgs) = left /\ GetNumberOfMessagesToSend(e) = w
  <2>1. CASE e = RemoveFromBuffer(b, x)
    <3>1. a \in used - b.sent + 1 .. 2 * SendBufferSize + 1
      <4> HIDE DEF a, used, w
      <4> QED
        BY <1>1, <1>3, <1>5, <1>6, SizesKnown
    <3>2. NumberConfirmed(b, x) = IF a > used THEN 0 ELSE used + 1 - a
      BY <1>1, <1>2, <3>1, RemovesConfirmed
    <3>3. /\ Len(e.msgs) = used - NumberConfirmed(b, x)
          /\ Len(e.msgs) - e.sent = used - b.sent
      BY <1>1, <2>1, RemovedWaits
    <3> HIDE DEF a, used, w, b
    <3> QED
      BY <1>1, <1>3, <3>2, <3>3 DEF GetNumberOfMessagesToSend
  <2>2. CASE e = b /\ x = cs
    <3>1. a > used
      <4>1. a = Minus(sn, cs)
        BY <2>2
      <4> HIDE DEF a, used
      <4> QED
        BY <1>1, <1>6, <4>1
    <3>2. left = used
      BY <3>1
    <3> QED
      BY <2>2, <3>2
  <2> QED
    BY <2>1, <2>2
<1>9. Retransmits(cn, Head(q)) => left > 0 /\ a = left + 1
  <2> HIDE DEF a, used
  <2> QED
    BY <1>1, <1>3, <1>7
<1> HIDE DEF left, w, r
<1> QED
  BY <1>5, <1>8, <1>9 DEF r

(* A message confirms a number, and leaves the queue.                      *)
LEMMA FitTaken ==
  ASSUME NEW cn, NEW q \in Seq(PDU), q # <<>>, NEW M, Fit(cn, q, M),
         NEW m, m = Head(q), m.type \notin {"ConnReq", "ConnResp"},
         ConfirmedSequenceNumberOk(cn, m),
         NEW dn, ConnInv(dn), dn.temp = cn.temp, dn.opposite = cn.opposite, dn.snT = cn.snT,
         dn.csR = m.cs, dn.fatal = cn.fatal,
         \/ dn.sendBuf = RemoveFromBuffer(cn.sendBuf, m.cs)
         \/ dn.sendBuf = cn.sendBuf /\ m.cs = cn.csR
  PROVE  /\ Fit(dn, Tail(q), M)
         /\ m.type = "RetrReq" /\ Retransmits(cn, m) /\ cn.fatal = "None" => Answers(dn, Tail(q), M)
<1> DEFINE r == Tail(q)
           b == cn.sendBuf
           e == dn.sendBuf
<1>1. ConnInv(cn) /\ b \in SendBuffer /\ e \in SendBuffer /\ Used(dn) = Len(e.msgs)
  BY ConnParts DEF Fit
<1>2. Confirming(m) /\ Minus(m.cs, cn.csR) <= Minus(cn.snT, Minus(cn.csR, 1))
  BY DEF Confirming, ConfirmedSequenceNumberOk
<1>3. /\ e.sent <= b.sent /\ e.sent \in Nat /\ b.sent \in Nat
      /\ Tidy(b) => Tidy(e)
      /\ \A type : Waits(e, type) => Waits(b, type)
  <2>1. e.sent \in Nat /\ b.sent \in Nat
    BY <1>1, SendBufferType
  <2>2. CASE e = RemoveFromBuffer(b, m.cs)
    BY <1>1, <2>1, <2>2, RemovedWaits
  <2>3. CASE e = b
    BY <2>1, <2>3
  <2> QED
    BY <2>2, <2>3
<1>4. /\ \A i \in DOMAIN r : i + 1 \in DOMAIN q /\ r[i] = q[i + 1] /\ i \in Nat
      /\ 1 \in DOMAIN q /\ q[1] = m
  BY TailElements
<1>5. ASSUME cn.fatal = "None", "InvalidSequenceNumber" \notin M
      PROVE  /\ InOrder(dn.snT, dn.csR, Used(dn), GetNumberOfMessagesToSend(e), r)
             /\ Retransmits(cn, m) => Used(dn) > 0 /\ Minus(dn.snT, dn.csR) = Used(dn) + 1
  <2>1. InOrder(cn.snT, cn.csR, Used(cn), GetNumberOfMessagesToSend(b), q)
    BY <1>5 DEF Fit, Safe
  <2>2. LET x == Head(q).cs
        IN  /\ InOrder(cn.snT, x, Len(e.msgs), GetNumberOfMessagesToSend(e), Tail(q))
            /\ Retransmits(cn, Head(q)) =>
                 Len(e.msgs) > 0 /\ Minus(cn.snT, x) = Len(e.msgs) + 1
    BY <1>1, <1>2, <2>1, TakenLeaves
  <2> QED
    BY <1>1, <2>2
<1> HIDE DEF r
<1>6. ASSUME cn.fatal = "None", "InternalError" \notin M
      PROVE  /\ OneRequest(e, r)
             /\ m.type = "RetrReq" =>
                  ~ Waits(e, "RetrResp") /\ \A i \in DOMAIN r : r[i].type # "RetrReq"
  <2>1. OneRequest(b, q)
    BY <1>6 DEF Fit, Safe
  <2>2. \A i, j \in DOMAIN r : (i + 1 = j + 1 => i = j) /\ i + 1 # 1
    <3>1. \A i \in DOMAIN r : i >= 1
      BY DEF r
    <3> QED
      BY <1>4, <3>1
  <2> QED
    BY <1>3, <1>4, <2>1, <2>2 DEF OneRequest
<1>7. ASSUME cn.fatal = "None"
      PROVE  Safe(dn, r, M)
  <2>1. Safe(cn, q, M)
    BY <1>7 DEF Fit
  <2>2. e.sent <= PeerNSendMax
    BY <1>3, <2>1, RoomKnown DEF Safe
  <2> QED
    BY <1>3, <1>5, <1>6, <1>7, <2>1, <2>2 DEF Safe
<1>8. Fit(dn, r, M)
  BY <1>7 DEF Fit, Allowed
<1>9. m.type = "RetrReq" /\ Retransmits(cn, m) /\ cn.fatal = "None" => Answers(dn, r, M)
  BY <1>5, <1>6 DEF Answers
<1> QED
  BY <1>8, <1>9 DEF r

(* The sum of the numbers given back and in a retransmission.              *)
LEMMA RetransmissionGiven ==
  ASSUME NEW used \in Nat, used <= SendBufferSize,
         NEW k \in Nat, k <= SendBufferSize
  PROVE  LET B == used + 1
         IN  /\ B + 2 * SendBufferSize + k < SeqMod
             /\ B + k \in k + 1 .. k + 1 + SendBufferSize
BY RoomKnown

(* srcor_HandleRetrReq fails no assertion, unless this end was misled, and *)
(* leaves a safe connection behind.                                        *)
LEMMA FitAnswered ==
  ASSUME NEW cn, NEW q \in Seq(PDU), NEW M, Fit(cn, q, M),
         Used(cn) + 3 <= SendBufferSize, cn.fatal = "None" => Answers(cn, q, M)
  PROVE  LET dn == HandleRetrReq(cn) IN Fit(dn, q, M) /\ Alike(cn, dn)
<1> DEFINE b == cn.sendBuf
           new == PrepareBufferForRetr(b, cn.snT, cn.tsR)
           ok == FollowsConfirmed(b, cn.csR)
           can == CanRetransmit(b)
           fits == RetransmissionFits(b)
           free == GetFreeBufferEntries(b) > 0
           c1 == Require(cn, ok, "InvalidSequenceNumber")
           c2 == Require(c1, can, "InternalError")
           c3 == Require(c2, fits, "SendBufferFull")
           c4 == Require(c3, free, "InternalError")
           k == Len(new.msgs)
           dn == HandleRetrReq(cn)
<1>1. /\ ConnInv(cn) /\ cn \in Connection /\ b \in SendBuffer /\ Used(cn) = Len(b.msgs)
      /\ Used(cn) \in Nat /\ cn.snT \in SeqNums /\ cn.csR \in SeqNums /\ cn.tsR \in SeqNums
      /\ Gapless(b, cn.snT) /\ SendBufferSize \in Nat
      /\ cn.fatal \in Errors
  <2>1. ConnInv(cn) /\ cn \in Connection
    BY DEF Fit, ConnInv
  <2>2. cn.tsR \in SeqNums /\ cn.fatal \in Errors
    BY <2>1 DEF Connection
  <2> QED
    BY <2>1, <2>2, ConnParts, UsedSize, SizesKnown
<1>2. ConnInv(dn) /\ Used(dn) <= Used(cn) + 2
  <2>1. Used(cn) + 2 <= SendBufferSize
    BY <1>1
  <2> QED
    BY <1>1, <2>1, HandleRetrReqSends DEF Sends
<1>3. fits /\ free
  <2>1. Len(RetransmissionOf(b)) <= Len(b.msgs) + 2
        /\ Len(RetransmissionOf(b)) \in Nat
    BY <1>1, RetransmissionSize
  <2> QED
    BY <1>1, <2>1 DEF RetransmissionFits, GetFreeBufferEntries
<1> HIDE DEF fits, free, ok, can
<1>4. c4 = c2
  <2>1. c3 = c2
    BY <1>3 DEF Require
  <2> HIDE DEF c3
  <2> QED
    BY <1>3, <2>1 DEF Require
<1>5. c2 = IF cn.fatal # "None" \/ (ok /\ can) THEN cn
           ELSE [cn EXCEPT !.fatal = IF ok THEN "InternalError" ELSE "InvalidSequenceNumber"]
  <2>1. CASE cn.fatal # "None"
    BY <2>1 DEF Require
  <2>2. CASE cn.fatal = "None" /\ ok
    <3>1. c1 = cn
      BY <2>2 DEF Require
    <3> HIDE DEF c1
    <3> QED
      BY <2>2, <3>1 DEF Require
  <2>3. CASE cn.fatal = "None" /\ ~ ok
    <3>1. c1 = [cn EXCEPT !.fatal = "InvalidSequenceNumber"]
      BY <2>3 DEF Require
    <3>2. c1.fatal = "InvalidSequenceNumber"
      BY <1>1, <3>1 DEF Connection
    <3> HIDE DEF c1
    <3> QED
      BY <2>3, <3>1, <3>2 DEF Require
  <2> QED
    BY <2>1, <2>2, <2>3
<1>6. dn = [c2 EXCEPT !.sendBuf = new, !.snT = Plus(@, k)]
  BY <1>4 DEF HandleRetrReq, ok, can, fits, free
<1> HIDE DEF c2, new, k
<1>7. /\ DOMAIN c2 = DOMAIN cn
      /\ c2.fatal \in {cn.fatal, "InternalError", "InvalidSequenceNumber"}
      /\ c2.fatal = (IF cn.fatal # "None" \/ (ok /\ can) THEN cn.fatal
                     ELSE IF ok THEN "InternalError" ELSE "InvalidSequenceNumber")
      /\ Alike(cn, c2) /\ c2.snT = cn.snT
  BY <1>1, <1>5 DEF Connection, Alike
<1>8. Alike(cn, dn) /\ dn.fatal = c2.fatal /\ dn.sendBuf = new /\ dn.snT = Plus(cn.snT, k)
  <2>1. {"server", "nSendMax", "state", "temp", "opposite", "csR", "inbox", "recvBuf",
         "fatal", "sendBuf", "snT"} \subseteq DOMAIN c2
    BY <1>1, <1>7 DEF Connection
  <2> QED
    BY <1>6, <1>7, <2>1 DEF Alike
<1> HIDE DEF dn
<1>9. cn.fatal = "None" => (ok \/ "InvalidSequenceNumber" \in M) /\ (can \/ "InternalError" \in M)
  <2>1. ASSUME cn.fatal = "None", "InvalidSequenceNumber" \notin M
        PROVE  ok
    <3>1. Used(cn) > 0 /\ Minus(cn.snT, cn.csR) = Used(cn) + 1
      BY <2>1 DEF Answers
    <3>2. b.msgs # <<>>
      BY <1>1, <3>1
    <3> QED
      BY <1>1, <3>1, <3>2, Follows DEF ok
  <2>2. ASSUME cn.fatal = "None", "InternalError" \notin M
        PROVE  can
    <3>1. ~ Waits(b, "RetrResp") /\ Tidy(b)
      BY <2>2 DEF Answers, Fit, Safe
    <3> QED
      BY <1>1, <3>1, TidyCanRetransmit DEF can
  <2> QED
    BY <2>1, <2>2
<1>10. Allowed(dn, M)
  BY <1>7, <1>8, <1>9 DEF Allowed, Fit
<1>11. ASSUME dn.fatal = "None"
       PROVE  Safe(dn, q, M)
  <2>1. cn.fatal = "None" /\ Safe(cn, q, M) /\ Answers(cn, q, M)
    BY <1>7, <1>8, <1>11 DEF Fit
  <2>2. new.sent = 0 /\ Tidy(new)
    BY <1>1, RetransmissionTidy DEF PrepareBufferForRetr, new
  <2>3. Used(dn) = k /\ k \in Nat /\ k <= SendBufferSize /\ GetNumberOfMessagesToSend(new) = k
    <3>1. new \in SendBuffer
      BY <1>2, <1>8, ConnParts
    <3>2. Len(new.msgs) \in Nat /\ Len(new.msgs) <= SendBufferSize
      BY <3>1, SendBufferType
    <3> QED
      BY <1>8, <2>2, <3>2 DEF k, Used, GetNumberOfMessagesToSend
  <2>4. ASSUME "InvalidSequenceNumber" \notin M
        PROVE  InOrder(dn.snT, dn.csR, Used(dn), GetNumberOfMessagesToSend(new), q)
    <3> DEFINE w == GetNumberOfMessagesToSend(b)
               used == Used(cn)
               B == Minus(cn.snT, cn.csR)
    <3>1. InOrder(cn.snT, cn.csR, used, w, q)
      BY <2>1, <2>4 DEF Safe
    <3>2. B = used + 1 /\ used \in Nat /\ used <= SendBufferSize
      BY <1>1, <2>1, <2>4 DEF Answers
    <3>3. w \in Nat
      BY <1>1, ConnParts
    <3> HIDE DEF B, used, w
    <3>4. B + 2 * SendBufferSize + k < SeqMod /\ B + k \in k + 1 .. k + 1 + SendBufferSize
          /\ k <= w + k
      BY <2>3, <3>2, <3>3, RetransmissionGiven
    <3>5. InOrder(Plus(cn.snT, k), cn.csR, k, k, q)
      BY <1>1, <2>3, <3>1, <3>2, <3>3, <3>4, InOrderGiven DEF B
    <3> QED
      BY <1>8, <2>3, <3>5 DEF Alike
  <2>5. "InternalError" \notin M => OneRequest(new, q)
    BY <2>1 DEF Answers, OneRequest
  <2> QED
    BY <1>8, <2>1, <2>2, <2>4, <2>5, RoomKnown DEF Safe, Alike
<1> QED
  BY <1>2, <1>8, <1>10, <1>11 DEF Fit, dn

-----------------------------------------------------------------------------
(* What processing a message leaves alone.                                 *)

(* A connection that is closed, and what had stopped the program.          *)
Ended(cn, dn) ==
  /\ ConnInv(dn) /\ dn.state = "Closed" /\ dn.inbox = <<>>
  /\ dn.fatal = cn.fatal /\ dn.server = cn.server

(* Closing stops no program.                                               *)
LEMMA ClosingEnds ==
  ASSUME NEW cn, ConnInv(cn), NEW incoming \in BOOLEAN, NEW at \in SeqNums
  PROVE  /\ \A reason \in DiscReasons : Ended(cn, CloseConnection(cn, reason, incoming, at))
         /\ cn.state # "Closed" => Ended(cn, CloseRedundancyChannel(cn, incoming))
<1> DEFINE noted == IF incoming THEN UpdateConfirmedTx(cn) ELSE cn
           m == Completed(NewMessage(noted, "DiscReq", 0), noted.csT, at)
           sent == SradinSend(noted, << m >>)
<1>1. cn \in Connection /\ DOMAIN cn = DOMAIN InitialConnection(TRUE, 0)
  BY DEF ConnInv, Connection, InitialConnection
<1>2. noted.fatal = cn.fatal /\ DOMAIN noted = DOMAIN cn
  BY <1>1 DEF UpdateConfirmedTx, Connection
<1> HIDE DEF noted, m
<1>3. sent.fatal = cn.fatal /\ DOMAIN sent = DOMAIN cn
  BY <1>1, <1>2 DEF SradinSend, InitialConnection
<1> HIDE DEF sent
<1>4. ASSUME NEW reason \in DiscReasons
      PROVE  Ended(cn, CloseConnection(cn, reason, incoming, at))
  <2> DEFINE e == SendDiscReqMessage(noted, at)
             dn == CloseConnection(cn, reason, incoming, at)
  <2>1. e = [sent EXCEPT !.snT = Plus(@, 1), !.sendBuf = EmptyBuffer]
    BY DEF SendDiscReqMessage, sent, m
  <2>2. e.fatal = cn.fatal /\ DOMAIN e = DOMAIN cn
    BY <1>1, <1>3, <2>1 DEF InitialConnection
  <2> HIDE DEF e
  <2>3. dn = [ChannelClosed(e) EXCEPT !.state = "Closed", !.reason = reason]
    BY DEF CloseConnection, e, noted
  <2>4. dn.fatal = cn.fatal
    BY <1>1, <2>2, <2>3 DEF ChannelClosed, Diagnose, InitialConnection
  <2>5. Closes(cn, dn)
    BY CloseConnectionCloses
  <2> QED
    BY <2>4, <2>5 DEF Closes, Continues, Ended
<1>5. ASSUME cn.state # "Closed"
      PROVE  Ended(cn, CloseRedundancyChannel(cn, incoming))
  <2> DEFINE dn == CloseRedundancyChannel(cn, incoming)
             e == ChannelClosed(noted)
  <2>1. e.fatal = cn.fatal /\ DOMAIN e = DOMAIN cn
    BY <1>1, <1>2 DEF ChannelClosed, Diagnose, InitialConnection
  <2>2. dn = UpdateConnectionState(e, "Closed")
    BY DEF CloseRedundancyChannel, e, noted
  <2> HIDE DEF e
  <2>3. dn.fatal = cn.fatal
    BY <1>1, <2>1, <2>2 DEF UpdateConnectionState, InitialConnection
  <2>4. Closes(cn, dn)
    BY <1>5, CloseRedundancyChannelCloses
  <2> QED
    BY <2>3, <2>4 DEF Closes, Continues, Ended
<1> QED
  BY <1>4, <1>5

(* Another state is inside the same.                                       *)
LEMMA StateInside ==
  ASSUME NEW cn, ConnInv(cn), NEW state \in States
  PROVE  LET dn == UpdateConnectionState(cn, state)
         IN  Turns(cn, dn, state) /\ Inside(cn, dn) /\ dn.fatal = cn.fatal
<1>1. Inside(cn, UpdateConnectionState(cn, state))
      /\ UpdateConnectionState(cn, state).fatal = cn.fatal
  BY DEF UpdateConnectionState, Inside, ConnInv, Connection
<1> QED
  BY <1>1, StateTurns

(* The input buffer and the queues are outside.                            *)
LEMMA InputInside ==
  ASSUME NEW cn, ConnInv(cn)
  PROVE  LET dn == [cn EXCEPT !.input = FALSE]
         IN  Inside(cn, dn) /\ dn.fatal = cn.fatal /\ Still(cn, dn, 0) /\ ConnInv(dn)
<1> DEFINE dn == [cn EXCEPT !.input = FALSE]
<1>1. Inside(cn, dn) /\ dn.fatal = cn.fatal
  BY DEF Inside, ConnInv, Connection
<1>2. Still(cn, dn, 0)
  BY InputTakenStill
<1> HIDE DEF dn
<1>3. ConnInv(dn)
  BY <1>2 DEF Still, Continues
<1> QED
  BY <1>1, <1>2, <1>3 DEF dn

(* The numbers of a message are taken over.                                *)
LEMMA NotedInside ==
  ASSUME NEW cn, ConnInv(cn), NEW m, NEW at
  PROVE  LET n == NotedHeader(cn, m, at)
         IN  /\ n.server = cn.server /\ n.temp = cn.temp /\ n.opposite = cn.opposite
             /\ n.snT = cn.snT /\ n.fatal = cn.fatal
             /\ n.csR = IF m.type = "ConnReq" THEN Minus(cn.snT, 1) ELSE m.cs
             /\ n.sendBuf = IF m.type # "ConnReq" /\ m.cs # cn.csR
                               THEN RemoveFromBuffer(cn.sendBuf, m.cs) ELSE cn.sendBuf
BY DEF NotedHeader, ConnInv, Connection

(* Its payload is used.                                                    *)
LEMMA TakenInside ==
  ASSUME NEW cn, ConnInv(cn), NEW m, Len(cn.recvBuf) < cn.nSendMax
  PROVE  LET t == TakenPayload(cn, m)
         IN  /\ t.fatal = cn.fatal
             /\ m.type \notin {"ConnReq", "ConnResp"} => Inside(cn, t)
             /\ t.server = cn.server /\ t.temp = cn.temp /\ t.csR = cn.csR /\ t.snT = cn.snT
             /\ t.sendBuf = cn.sendBuf
             /\ m.type \in {"ConnReq", "ConnResp"} => t.opposite = m.payload
BY DEF TakenPayload, Require, Inside, ConnInv, Connection

-----------------------------------------------------------------------------
(* The events of messages.                                                 *)

(* A connection that has ended, or is still in order.                      *)
Closed(cn, M) == ConnInv(cn) /\ cn.state = "Closed" /\ cn.inbox = <<>> /\ Allowed(cn, M)

(* The first message of q is in the input buffer.                          *)
Gets(cn, m, q, M) ==
  /\ Receives(cn, m) /\ Fit(cn, q, M)
  /\ q \in Seq(PDU) /\ q # <<>> /\ m = Head(q)
  /\ m.type \notin {"ConnReq", "ConnResp"} => ConfirmedSequenceNumberOk(cn, m)

(* It was processed.                                                       *)
Processed(cn, m, p, q, M) ==
  /\ Fit(p, Tail(q), M)
  /\ p.state = cn.state /\ p.server = cn.server /\ p.inbox = cn.inbox
  /\ Used(p) <= Used(cn) + IF m.type = "RetrReq" THEN 0 ELSE 1
  /\ m.type = "RetrReq" /\ Retransmits(cn, m) /\ p.fatal = "None" => Answers(p, Tail(q), M)

(* ProcessReceivedMessage of a message that is not part of the handshake.  *)
LEMMA ProcessFits ==
  ASSUME NEW cn, NEW m, NEW q, NEW M, Gets(cn, m, q, M), NEW at \in SeqNums,
         m.type \notin {"ConnReq", "ConnResp"}
  PROVE  LET p == ProcessReceivedMessage(cn, m, at)
         IN  Closed(p, M) \/ Processed(cn, m, p, q, M)
<1> DEFINE p == ProcessReceivedMessage(cn, m, at)
           r == Tail(q)
           n == NotedHeader(cn, m, at)
           t == TakenPayload(n, m)
           f == ReceivedFlowControlCheck(t, m, at)
           alive == Minus(at, cn.ctsR) <= TMax
           g == Require(f, alive, "InvalidParameter")
           times == [call |-> "Update", rtd |-> RoundTripDelay(m, at),
                     alive |-> Minus(at, cn.ctsR)]
<1>1. /\ ConnInv(cn) /\ Fit(cn, q, M) /\ Allowed(cn, M) /\ Holds(cn, m) /\ m \in PDU
      /\ Len(cn.recvBuf) < cn.nSendMax /\ Used(cn) \in Nat /\ Used(cn) < SendBufferSize
      /\ cn.state \in States \ {"Closed"} /\ ConfirmedSequenceNumberOk(cn, m)
  <2>1. ConnInv(cn) /\ Used(cn) + 3 <= SendBufferSize /\ Used(cn) \in Nat /\ SendBufferSize \in Nat
    BY UsedSize, SizesKnown DEF Gets, Receives, Holds
  <2> QED
    BY <2>1 DEF Gets, Receives, Holds, Fit
<1>2. r \in Seq(PDU)
  BY DEF Gets
<1>3. CASE ~ TimelinessRespected(m, at)
  <2> DEFINE late == [cn EXCEPT !.ti = 0, !.input = FALSE]
  <2>1. p = CloseConnection(late, "Timeout", TRUE, at)
    BY <1>3 DEF ProcessReceivedMessage
  <2>2. ConnInv(late) /\ late.fatal = cn.fatal
    <3>1. cn \in Connection /\ 0 \in 0 .. TMax
      BY <1>1, SizesKnown DEF ConnInv
    <3>2. /\ late \in Connection /\ late.fatal = cn.fatal /\ late.sendBuf = cn.sendBuf
          /\ late.snT = cn.snT /\ late.recvBuf = cn.recvBuf /\ late.nSendMax = cn.nSendMax
      BY <3>1 DEF Connection
    <3> HIDE DEF late
    <3> QED
      BY <1>1, <3>2 DEF ConnInv
  <2> HIDE DEF late
  <2>3. Ended(late, CloseConnection(late, "Timeout", TRUE, at))
    BY <2>2, ClosingEnds DEF DiscReasons
  <2> QED
    BY <1>1, <2>1, <2>2, <2>3 DEF Ended, Closed, Allowed
<1>4. CASE TimelinessRespected(m, at)
  <2>1. /\ ConnInv(n) /\ n.nSendMax = cn.nSendMax /\ n.state = cn.state
        /\ n.inbox = cn.inbox /\ n.recvBuf = cn.recvBuf /\ Used(n) <= Used(cn)
    BY <1>1, <1>4, NotedHeaderKeeps
  <2>2. /\ n.server = cn.server /\ n.temp = cn.temp /\ n.opposite = cn.opposite
        /\ n.snT = cn.snT /\ n.fatal = cn.fatal /\ n.csR = m.cs
        /\ n.sendBuf = IF m.cs # cn.csR THEN RemoveFromBuffer(cn.sendBuf, m.cs) ELSE cn.sendBuf
  BY <1>1, NotedInside
  <2> HIDE DEF n
  <2>3. /\ Fit(n, r, M)
        /\ m.type = "RetrReq" /\ Retransmits(cn, m) /\ cn.fatal = "None" => Answers(n, r, M)
    BY <1>1, <2>1, <2>2, FitTaken DEF Gets
  <2> HIDE DEF r
  <2>4. /\ ConnInv(t) /\ t.state = n.state /\ t.inbox = n.inbox /\ Used(t) = Used(n)
        /\ Inside(n, t) /\ t.fatal = n.fatal
    BY <1>1, <2>1, TakenPayloadKeeps, TakenInside
  <2> HIDE DEF t
  <2>5. Fit(t, r, M) /\ (Answers(n, r, M) => Answers(t, r, M))
    BY <2>3, <2>4, InsideFit
  <2>6. Used(t) \in Nat /\ Used(t) < SendBufferSize /\ Used(t) <= Used(cn)
    BY <1>1, <2>1, <2>4, UsedSize, SizesKnown
  <2>7. /\ Fit(f, r, M) /\ Alike(t, f) /\ f.fatal = t.fatal /\ ConnInv(f)
        /\ Used(f) <= Used(t) + 1
    <3>1. Fit(f, r, M) /\ Alike(t, f) /\ f.fatal = t.fatal
      BY <1>2, <2>5, <2>6, FitFlowControl
    <3>2. Sends(t, f, 1)
      BY <2>4, FlowControlSends
    <3> QED
      BY <3>1, <3>2 DEF Sends
  <2>8. m.type = "RetrReq" => f = t
    BY DEF ReceivedFlowControlCheck
  <2> HIDE DEF f
  <2>9. ConnInv(p)
    <3>1. \/ Closes(cn, p)
          \/ cn.state \in OpenStates /\ Lives(cn, p, at)
          \/ Noted(cn, m, p, at)
          \/ cn.state = "Down" /\ m.type \in TimeoutRelated
      BY <1>1, ProcessReceivedMessageEffect DEF OpenStates
    <3>2. CASE cn.state = "Down" /\ m.type \in TimeoutRelated
      <4> HIDE DEF times
      <4>1. p = [g EXCEPT !.input = FALSE, !.calls = Append(@, times)]
        BY <1>4, <3>2 DEF ProcessReceivedMessage, g, f, t, n, alive, times
      <4>2. times \in DiagnosticCall
        <5>1. RoundTripDelay(m, at) \in SeqNums /\ cn.ctsR \in SeqNums
          BY <1>1, RoundTripDelayType DEF ConnInv, Connection
        <5> QED
          BY <5>1, PlusMinusType DEF DiagnosticCall, times
      <4> HIDE DEF alive
      <4>3. g \in Connection /\ Append(g.calls, times) \in Seq(DiagnosticCall)
            /\ g.sendBuf = f.sendBuf /\ g.snT = f.snT /\ g.recvBuf = f.recvBuf
            /\ g.nSendMax = f.nSendMax /\ g.fatal \in {f.fatal, "InvalidParameter"}
        <5>1. f \in Connection /\ f.calls \in Seq(DiagnosticCall)
          BY <2>7 DEF ConnInv, Connection
        <5>2. g = f \/ g = [f EXCEPT !.fatal = "InvalidParameter"]
          BY DEF Require
        <5> HIDE DEF g
        <5>3. /\ g \in Connection /\ g.calls = f.calls /\ g.sendBuf = f.sendBuf /\ g.snT = f.snT
              /\ g.recvBuf = f.recvBuf /\ g.nSendMax = f.nSendMax
              /\ g.fatal \in {f.fatal, "InvalidParameter"}
          <6>1. CASE g = f
            BY <5>1, <6>1
          <6>2. CASE g = [f EXCEPT !.fatal = "InvalidParameter"]
            <7>1. "InvalidParameter" \in Errors
              BY DEF Errors
            <7>2. /\ g.calls = f.calls /\ g.sendBuf = f.sendBuf /\ g.snT = f.snT
                  /\ g.recvBuf = f.recvBuf /\ g.nSendMax = f.nSendMax
                  /\ g.fatal = "InvalidParameter"
              BY <5>1, <6>2 DEF Connection
            <7>3. g \in Connection
              BY <5>1, <6>2, <7>1 DEF Connection
            <7> QED
              BY <7>2, <7>3
          <6> QED
            BY <5>2, <6>1, <6>2
        <5>4. Append(g.calls, times) \in Seq(DiagnosticCall)
          BY <4>2, <5>1, <5>3
        <5> QED
          BY <5>3, <5>4
      <4> HIDE DEF g, p
      <4>4. /\ p \in Connection /\ p.sendBuf = g.sendBuf /\ p.snT = g.snT
            /\ p.recvBuf = g.recvBuf /\ p.nSendMax = g.nSendMax /\ p.fatal = g.fatal
        BY <4>1, <4>3 DEF Connection
      <4> QED
        BY <2>7, <4>3, <4>4 DEF ConnInv
    <3> QED
      BY <3>1, <3>2 DEF Closes, Lives, Noted, Continues
  <2>10. /\ Inside(f, p) /\ p.state = f.state /\ p.inbox = f.inbox
         /\ p.fatal \in {f.fatal, "InvalidParameter"}
    <3>1. CASE m.type \notin TimeoutRelated
      <4>1. p = [f EXCEPT !.input = FALSE]
        BY <1>4, <3>1 DEF ProcessReceivedMessage, f, t, n
      <4> HIDE DEF p
      <4> QED
        BY <2>7, <4>1 DEF Inside, ConnInv, Connection
    <3>2. CASE m.type \in TimeoutRelated
      <4>1. p = [g EXCEPT !.input = FALSE, !.calls = Append(@, times)]
        BY <1>4, <3>2 DEF ProcessReceivedMessage, g, f, t, n, alive, times
      <4> HIDE DEF alive, times
      <4>2. /\ DOMAIN g = DOMAIN f /\ Inside(f, g) /\ g.state = f.state /\ g.inbox = f.inbox
            /\ g.fatal \in {f.fatal, "InvalidParameter"}
        BY <2>7 DEF Require, Inside, ConnInv, Connection
      <4> HIDE DEF p, g
      <4> QED
        BY <2>7, <4>1, <4>2 DEF Inside, ConnInv, Connection
    <3> QED
      BY <3>1, <3>2
  <2> HIDE DEF p
  <2>11. Fit(p, r, M) /\ (Answers(f, r, M) => Answers(p, r, M)) /\ Used(p) = Used(f)
    BY <2>7, <2>9, <2>10, InsideFit DEF Inside, Used
  <2>12. m.type = "RetrReq" /\ Retransmits(cn, m) /\ p.fatal = "None" => Answers(p, r, M)
    <3>1. p.fatal = "None" => cn.fatal = "None"
      BY <2>2, <2>4, <2>7, <2>10
    <3> QED
      BY <2>3, <2>5, <2>8, <2>11, <3>1
  <2>13. Used(p) <= Used(cn) + IF m.type = "RetrReq" THEN 0 ELSE 1
    <3>1. Used(f) \in Nat
      BY <2>7, UsedSize
    <3> QED
      BY <1>1, <2>6, <2>7, <2>8, <2>11, <3>1
  <2>14. p.state = cn.state /\ p.server = cn.server /\ p.inbox = cn.inbox
    BY <2>1, <2>2, <2>4, <2>7, <2>10 DEF Alike, Inside
  <2>15. Processed(cn, m, p, q, M)
    BY <2>11, <2>12, <2>13, <2>14 DEF Processed, r
  <2> QED
    BY <2>15 DEF p
<1> QED
  BY <1>3, <1>4

(* A connection that has exchanged numbers with its peer.                  *)
Settled(cn) == cn.state \in OpenStates /\ (cn.state = "Start" => cn.server)

(* What the first message of q, which is in the input buffer, leaves.      *)
Results(cn, dn, q, M) ==
  \/ Closed(dn, M)
  \/ Fit(dn, Tail(q), M) /\ Settled(dn) /\ dn.inbox = cn.inbox

(* A message that closes the connection.                                   *)
LEMMA RejectionResults ==
  ASSUME NEW cn, NEW m, NEW q, NEW M, Gets(cn, m, q, M), NEW at \in SeqNums
  PROVE  /\ \A reason \in DiscReasons :
              Results(cn, CloseConnection(cn, reason, TRUE, at), q, M)
         /\ Results(cn, CloseRedundancyChannel(cn, TRUE), q, M)
<1>1. ConnInv(cn) /\ Allowed(cn, M) /\ cn.state # "Closed"
  BY DEF Gets, Fit, Receives
<1>2. \A dn : Ended(cn, dn) => Closed(dn, M)
  BY <1>1 DEF Ended, Closed, Allowed
<1> QED
  BY <1>1, <1>2, ClosingEnds DEF Results

(* A message that is ignored.                                              *)
LEMMA IgnoredResults ==
  ASSUME NEW cn, NEW m, NEW q, NEW M, Gets(cn, m, q, M), Settled(cn)
  PROVE  Results(cn, cn, q, M)
BY FitRead DEF Gets, Results

(* The state that follows what was done with a message.                    *)
LEMMA StateResults ==
  ASSUME NEW cn, NEW q, NEW M, NEW dn, Fit(dn, Tail(q), M), dn.inbox = cn.inbox,
         NEW state \in OpenStates \ {"Start"}
  PROVE  Results(cn, UpdateConnectionState(dn, state), q, M)
<1> DEFINE e == UpdateConnectionState(dn, state)
<1>1. ConnInv(dn) /\ state \in States
  BY DEF Fit, OpenStates
<1>2. Turns(dn, e, state) /\ Inside(dn, e) /\ e.fatal = dn.fatal
  BY <1>1, StateInside
<1> HIDE DEF e
<1>3. ConnInv(e) /\ e.inbox = cn.inbox /\ e.state = state
  BY <1>2 DEF Turns
<1>4. Fit(e, Tail(q), M)
  BY <1>2, <1>3, InsideFit
<1>5. Results(cn, e, q, M)
  BY <1>3, <1>4 DEF Results, Settled
<1> QED
  BY <1>5 DEF e

(* A sign of life that is in sequence.                                     *)
LEMMA InSequenceResults ==
  ASSUME NEW cn, NEW m, NEW q, NEW M, Gets(cn, m, q, M), NEW at \in SeqNums,
         m.type \in TimeoutRelated, NEW state \in OpenStates \ {"Start"}
  PROVE  Results(cn, ProcessInSequence(cn, m, state, at), q, M)
<1> DEFINE p == ProcessReceivedMessage(cn, m, at)
           dn == UpdateConnectionState(p, state)
<1>1. Results(cn, CloseConnection(cn, "ProtocolSequenceError", TRUE, at), q, M)
  BY RejectionResults DEF DiscReasons
<1>2. Closed(p, M) \/ Processed(cn, m, p, q, M)
  BY ProcessFits DEF TimeoutRelated
<1> HIDE DEF p
<1>3. Closed(p, M) => Results(cn, Unless(p, dn), q, M)
  BY DEF Closed, Unless, Results
<1>4. ASSUME Processed(cn, m, p, q, M)
      PROVE  Results(cn, Unless(p, dn), q, M)
  <2>1. Results(cn, dn, q, M)
    BY <1>4, StateResults DEF Processed
  <2>2. p.state # "Closed"
    BY <1>4 DEF Processed, Gets, Receives
  <2> QED
    BY <2>1, <2>2 DEF Unless
<1> QED
  BY <1>1, <1>2, <1>3, <1>4 DEF ProcessInSequence, p

(* A message out of sequence.                                              *)
LEMMA RequestResults ==
  ASSUME NEW cn, NEW m, NEW q, NEW M, Gets(cn, m, q, M), NEW at \in SeqNums
  PROVE  Results(cn, RequestRetransmission(cn, at), q, M)
<1> DEFINE dn == [cn EXCEPT !.input = FALSE]
           e == SendRetrReqMessage(dn, at)
           r == Tail(q)
<1>1. ConnInv(cn) /\ Fit(cn, r, M) /\ r \in Seq(PDU) /\ Used(cn) + 3 <= SendBufferSize
  BY FitRead DEF Gets, Fit, Receives
<1> HIDE DEF r
<1>2. Inside(cn, dn) /\ dn.fatal = cn.fatal /\ Still(cn, dn, 0) /\ ConnInv(dn)
  BY <1>1, InputInside
<1> HIDE DEF dn
<1>3. Fit(dn, r, M) /\ Used(dn) < SendBufferSize /\ dn.inbox = cn.inbox
  <2>1. Used(dn) = Used(cn) /\ Used(cn) \in Nat
    BY <1>1, <1>2, UsedSize DEF Inside, Used
  <2> QED
    BY <1>1, <1>2, <2>1, InsideFit, SizesKnown DEF Still
<1>4. Fit(e, r, M) /\ e.inbox = cn.inbox
  <2>1. e = SendMessage(dn, "RetrReq", 0, at) /\ "RetrReq" \in {"Hb", "Data", "RetrReq"}
    BY DEF SendRetrReqMessage
  <2>2. Fit(e, r, M) /\ Alike(dn, e)
    BY <1>1, <1>3, <2>1, FitMessage, 0 \in Nat
  <2> QED
    BY <1>3, <2>2 DEF Alike
<1> HIDE DEF e
<1>5. Results(cn, UpdateConnectionState(e, "RetransRequest"), q, M)
  BY <1>4, StateResults DEF OpenStates, States, r
<1> QED
  BY <1>5 DEF RequestRetransmission, e, dn

(* A request for retransmission, in sequence ...                           *)
LEMMA AnswerResults ==
  ASSUME NEW cn, NEW m, NEW q, NEW M, Gets(cn, m, q, M), NEW at \in SeqNums,
         m.type = "RetrReq", Retransmits(cn, m), Settled(cn)
  PROVE  Results(cn, AnswerRetrReq(cn, m, at), q, M)
<1> DEFINE p == ProcessReceivedMessage(cn, m, at)
           dn == HandleRetrReq(p)
<1>1. Closed(p, M) \/ Processed(cn, m, p, q, M)
  BY ProcessFits
<1> HIDE DEF p
<1>2. Closed(p, M) => Results(cn, Unless(p, dn), q, M)
  BY DEF Closed, Unless, Results
<1>3. ASSUME Processed(cn, m, p, q, M)
      PROVE  Results(cn, Unless(p, dn), q, M)
  <2>1. Fit(p, Tail(q), M) /\ p.state # "Closed"
        /\ (p.fatal = "None" => Answers(p, Tail(q), M))
    BY <1>3 DEF Processed, Gets, Receives
  <2>2. Used(p) + 3 <= SendBufferSize
    <3>1. Used(p) \in Nat /\ Used(cn) \in Nat
      BY <2>1, UsedSize DEF Fit, Gets
    <3> QED
      BY <1>3, <3>1, SizesKnown DEF Processed, Gets, Receives
  <2>3. Tail(q) \in Seq(PDU)
    BY DEF Gets
  <2>4. Fit(dn, Tail(q), M) /\ Alike(p, dn)
    BY <2>1, <2>2, <2>3, FitAnswered
  <2> HIDE DEF dn
  <2>5. Settled(dn) /\ dn.inbox = cn.inbox
    BY <1>3, <2>4 DEF Processed, Alike, Settled
  <2> QED
    BY <2>1, <2>4, <2>5 DEF Unless, Results
<1> QED
  BY <1>1, <1>2, <1>3 DEF AnswerRetrReq, p, dn

(* ... or not.                                                             *)
LEMMA RetransmissionResults ==
  ASSUME NEW cn, NEW m, NEW q, NEW M, Gets(cn, m, q, M), NEW at \in SeqNums,
         m.type = "RetrReq", Retransmits(cn, m), NEW requested \in BOOLEAN
  PROVE  Results(cn, StartRetransmission(cn, m, requested, at), q, M)
<1> DEFINE u == UpdateConfirmedRx(cn, m)
           a == HandleRetrReq(u)
           e == SendRetrReqMessage(a, at)
           dn == IF requested THEN e ELSE a
           r == Tail(q)
<1>1. /\ ConnInv(cn) /\ m \in PDU /\ cn.input /\ Used(cn) \in Nat /\ r \in Seq(PDU)
      /\ Used(cn) + 3 <= SendBufferSize /\ ConfirmedSequenceNumberOk(cn, m)
      /\ Fit(cn, q, M) /\ q \in Seq(PDU) /\ q # <<>> /\ m = Head(q)
  BY UsedSize DEF Gets, Receives, Holds
<1>2. Still(cn, u, 0)
  BY <1>1, ConfirmedRxStill
<1>3. /\ u.temp = cn.temp /\ u.opposite = cn.opposite /\ u.snT = cn.snT
      /\ u.csR = m.cs /\ u.fatal = cn.fatal
      /\ u.sendBuf = RemoveFromBuffer(cn.sendBuf, m.cs)
  BY <1>1 DEF UpdateConfirmedRx, ConnInv, Connection
<1> HIDE DEF u
<1>4. ConnInv(u) /\ Used(u) + 3 <= SendBufferSize /\ u.inbox = cn.inbox
  <2>1. ConnInv(u) /\ Used(u) <= Used(cn) + 0 /\ u.inbox = cn.inbox
    BY <1>2 DEF Still, Continues
  <2>2. Used(u) \in Nat
    BY <2>1, UsedSize
  <2> QED
    BY <1>1, <2>1, <2>2, SizesKnown
<1>5. Fit(u, r, M) /\ (cn.fatal = "None" => Answers(u, r, M))
  BY <1>1, <1>3, <1>4, FitTaken
<1> HIDE DEF r
<1>6. Fit(a, r, M) /\ Alike(u, a)
  BY <1>1, <1>3, <1>4, <1>5, FitAnswered
<1>7. Used(a) < SendBufferSize
  <2>1. Used(u) \in Nat
    BY <1>4, UsedSize
  <2>2. Used(u) + 2 <= SendBufferSize
    BY <1>4, <2>1, SizesKnown
  <2>3. Used(a) <= Used(u) + 2
    BY <1>4, <2>2, HandleRetrReqSends DEF Sends
  <2>4. Used(a) \in Nat
    BY <1>6, UsedSize DEF Fit
  <2> QED
    BY <1>4, <2>1, <2>3, <2>4, SizesKnown
<1> HIDE DEF a
<1>8. Fit(e, r, M) /\ Alike(a, e)
  <2>1. e = SendMessage(a, "RetrReq", 0, at) /\ "RetrReq" \in {"Hb", "Data", "RetrReq"}
    BY DEF SendRetrReqMessage
  <2> QED
    BY <1>1, <1>6, <1>7, <2>1, FitMessage, 0 \in Nat
<1> HIDE DEF e
<1>9. Fit(dn, r, M) /\ dn.inbox = cn.inbox
  BY <1>4, <1>6, <1>8 DEF Alike
<1> HIDE DEF dn
<1>10. Results(cn, UpdateConnectionState(dn, "RetransRequest"), q, M)
  BY <1>9, StateResults DEF OpenStates, States, r
<1> QED
  BY <1>10 DEF StartRetransmission, dn, e, a, u

(* The states a message can lead to.                                       *)
LEMMA StatesAfter ==
  /\ {"Up", "RetransRequest", "RetransRunning"} \subseteq OpenStates \ {"Start"}
  /\ \A m : StateAfter(m) \in OpenStates \ {"Start"}
BY DEF OpenStates, States, StateAfter

(* The events of a server that has answered the connection request, ...    *)
LEMMA StartResults ==
  ASSUME NEW cn, NEW m, NEW q, NEW M, Gets(cn, m, q, M), NEW at \in SeqNums,
         Settled(cn), cn.state = "Start"
  PROVE  Results(cn, StartEvents(cn, m, at), q, M)
<1>1. cn.server /\ \A reason \in DiscReasons :
                     Results(cn, CloseConnection(cn, reason, TRUE, at), q, M)
  BY RejectionResults DEF Settled
<1>2. m.type = "Hb" => Results(cn, ProcessInSequence(cn, m, "Up", at), q, M)
  BY InSequenceResults, StatesAfter DEF TimeoutRelated
<1>3. Results(cn, CloseRedundancyChannel(cn, TRUE), q, M)
  BY RejectionResults
<1> QED
  BY <1>1, <1>2, <1>3 DEF StartEvents, DiscReasons

(* ... of an established connection, ...                                   *)
LEMMA UpResults ==
  ASSUME NEW cn, NEW m, NEW q, NEW M, Gets(cn, m, q, M), NEW at \in SeqNums,
         Settled(cn)
  PROVE  Results(cn, UpEvents(cn, m, at), q, M)
<1>1. \A reason \in DiscReasons : Results(cn, CloseConnection(cn, reason, TRUE, at), q, M)
  BY RejectionResults
<1>2. m.type \in {"Hb", "Data"} =>
        /\ Results(cn, ProcessInSequence(cn, m, "Up", at), q, M)
        /\ Results(cn, RequestRetransmission(cn, at), q, M)
  BY InSequenceResults, RequestResults, StatesAfter DEF TimeoutRelated
<1>3. Results(cn, CloseRedundancyChannel(cn, TRUE), q, M)
  BY RejectionResults
<1>4. m.type = "RetrReq" /\ Retransmits(cn, m) =>
        /\ Results(cn, AnswerRetrReq(cn, m, at), q, M)
        /\ Results(cn, StartRetransmission(cn, m, TRUE, at), q, M)
  BY AnswerResults, RetransmissionResults
<1> QED
  BY <1>1, <1>2, <1>3, <1>4 DEF UpEvents, DiscReasons

(* ... of one that has requested a retransmission, ...                     *)
LEMMA RetransRequestResults ==
  ASSUME NEW cn, NEW m, NEW q, NEW M, Gets(cn, m, q, M), NEW at \in SeqNums,
         Settled(cn)
  PROVE  Results(cn, RetransRequestEvents(cn, m, at), q, M)
<1>1. \A reason \in DiscReasons : Results(cn, CloseConnection(cn, reason, TRUE, at), q, M)
  BY RejectionResults
<1>2. Results(cn, cn, q, M)
  BY IgnoredResults
<1>3. Results(cn, CloseRedundancyChannel(cn, TRUE), q, M)
  BY RejectionResults
<1>4. m.type = "RetrReq" /\ Retransmits(cn, m) =>
        /\ Results(cn, AnswerRetrReq(cn, m, at), q, M)
        /\ Results(cn, StartRetransmission(cn, m, FALSE, at), q, M)
  BY AnswerResults, RetransmissionResults
<1>5. ASSUME m.type = "RetrResp"
      PROVE  Results(cn, UpdateConnectionState(ProcessReceivedMessage(cn, m, at),
                                              "RetransRunning"), q, M)
  <2> DEFINE p == ProcessReceivedMessage(cn, m, at)
             dn == UpdateConnectionState(p, "RetransRunning")
  <2>1. Closed(p, M) \/ Processed(cn, m, p, q, M)
    BY <1>5, ProcessFits
  <2>2. p.state # "Closed"
    <3>1. Still(cn, p, 1)
      BY <1>5, NotedStill DEF TimeoutRelated, Gets
    <3> QED
      BY <3>1 DEF Still, Gets, Receives
  <2> HIDE DEF p
  <2>3. Fit(p, Tail(q), M) /\ p.inbox = cn.inbox
    BY <2>1, <2>2 DEF Closed, Processed
  <2>4. Results(cn, dn, q, M)
    BY <2>3, StateResults, StatesAfter
  <2> QED
    BY <2>4 DEF dn, p
<1> QED
  BY <1>1, <1>2, <1>3, <1>4, <1>5 DEF RetransRequestEvents, DiscReasons

(* ... and of one whose retransmission runs.                               *)
LEMMA RetransRunningResults ==
  ASSUME NEW cn, NEW m, NEW q, NEW M, Gets(cn, m, q, M), NEW at \in SeqNums,
         Settled(cn)
  PROVE  Results(cn, RetransRunningEvents(cn, m, at), q, M)
<1>1. \A reason \in DiscReasons : Results(cn, CloseConnection(cn, reason, TRUE, at), q, M)
  BY RejectionResults
<1>2. m.type \in TimeoutRelated =>
        /\ Results(cn, ProcessInSequence(cn, m, StateAfter(m), at), q, M)
        /\ Results(cn, RequestRetransmission(cn, at), q, M)
  BY InSequenceResults, RequestResults, StatesAfter
<1>3. Results(cn, CloseRedundancyChannel(cn, TRUE), q, M)
  BY RejectionResults
<1>4. m.type = "RetrReq" /\ Retransmits(cn, m) =>
        Results(cn, StartRetransmission(cn, m, TRUE, at), q, M)
  BY RetransmissionResults
<1> QED
  BY <1>1, <1>2, <1>3, <1>4 DEF RetransRunningEvents, DiscReasons

(* Whatever the event of a message does.                                   *)
LEMMA EventResults ==
  ASSUME NEW cn, NEW m, NEW q, NEW M, Gets(cn, m, q, M), NEW at \in SeqNums,
         Settled(cn)
  PROVE  Results(cn, ProcessMessageEvent(cn, m, at), q, M)
<1>1. CASE cn.state = "Start"
  BY <1>1, StartResults DEF ProcessMessageEvent
<1>2. CASE cn.state = "Up"
  BY <1>2, UpResults DEF ProcessMessageEvent
<1>3. CASE cn.state = "RetransRequest"
  BY <1>3, RetransRequestResults DEF ProcessMessageEvent
<1>4. CASE cn.state = "RetransRunning"
  BY <1>4, RetransRunningResults DEF ProcessMessageEvent
<1> QED
  BY <1>1, <1>2, <1>3, <1>4 DEF Settled, OpenStates, States

-----------------------------------------------------------------------------
(* The receive loop of a connection that has exchanged numbers.            *)

(* The messages that wait in the redundancy channel do no harm to it.      *)
Fits(cn, M) == Fit(cn, cn.inbox, M) /\ Settled(cn)

(* An iteration leaves such a connection behind, or ends it.               *)
LEMMA IterationFits ==
  ASSUME NEW cn, NEW M, Closed(cn, M) \/ Fits(cn, M), ReceivingGoesOn(cn),
         NEW at \in SeqNums
  PROVE  Closed(ReceiveOne(cn, at), M) \/ Fits(ReceiveOne(cn, at), M)
<1>1. ConnInv(cn) /\ Allowed(cn, M)
  BY DEF Closed, Fits, Fit
<1>2. CASE cn.inbox = <<>>
  <2> DEFINE dn == [cn EXCEPT !.pending = FALSE]
  <2>1. ReceiveOne(cn, at) = dn
    BY <1>2 DEF ReceiveOne
  <2>2. ConnInv(dn)
    BY <1>1, PendingQuiet DEF Quiet, Continues
  <2>3. Inside(cn, dn) /\ dn.fatal = cn.fatal /\ dn.state = cn.state /\ dn.inbox = cn.inbox
    BY <1>1 DEF Inside, ConnInv, Connection
  <2> HIDE DEF dn
  <2>4. Closed(cn, M) => Closed(dn, M)
    BY <2>2, <2>3 DEF Closed, Allowed
  <2>5. Fits(cn, M) => Fits(dn, M)
    <3>1. Fit(cn, cn.inbox, M) => Fit(dn, cn.inbox, M)
      BY <2>2, <2>3, InsideFit
    <3>2. Settled(cn) => Settled(dn)
      BY <2>3 DEF Settled, Inside
    <3> QED
      BY <2>3, <3>1, <3>2 DEF Fits
  <2> QED
    BY <2>1, <2>4, <2>5
<1>3. CASE cn.inbox # <<>>
  <2> DEFINE m == Head(cn.inbox)
             q == cn.inbox
             r == Tail(q)
             e == ReceiveOne(cn, at)
  <2>1. Fits(cn, M) /\ q \in Seq(PDU) /\ q # <<>> /\ cn.state # "Closed"
    BY <1>1, <1>3, ConnParts DEF Closed, Fits, Settled, OpenStates
  <2>2. PICK dn, errors :
           /\ Reads(cn, dn, m, errors)
           /\ IF Accepted(cn, m)
                THEN Receives(dn, m) /\ e = ProcessMessageEvent(dn, m, at)
                ELSE e = dn
    BY <1>1, <1>3, <2>1, ReceiveOneReads
  <2>3. Inside(cn, dn) /\ dn.fatal = cn.fatal /\ ConnInv(dn) /\ dn.inbox = r /\ Settled(dn)
    BY <2>1, <2>2 DEF Reads, Inside, Fits, Settled
  <2>4. Fit(dn, q, M)
    BY <2>1, <2>3, InsideFit DEF Fits
  <2> HIDE DEF e
  <2>5. CASE Accepted(cn, m)
    <3>1. ConfirmedSequenceNumberOk(dn, m)
      <4>1. ConfirmedSequenceNumberOk(cn, m)
        BY <2>5 DEF Accepted
      <4> QED
        BY <2>3, <4>1 DEF ConfirmedSequenceNumberOk, Inside
    <3>2. Gets(dn, m, q, M)
      BY <2>1, <2>2, <2>4, <2>5, <3>1 DEF Gets
    <3>3. Results(dn, e, q, M)
      BY <2>2, <2>3, <2>5, <3>2, EventResults
    <3> QED
      BY <2>3, <3>3 DEF Results, Fits, e
  <2>6. CASE ~ Accepted(cn, m)
    <3>1. e = dn /\ Fit(dn, r, M)
      BY <2>1, <2>2, <2>4, <2>6, FitRead
    <3> QED
      BY <2>3, <3>1 DEF Fits, e
  <2> QED
    BY <2>5, <2>6
<1> QED
  BY <1>2, <1>3

-----------------------------------------------------------------------------
(* The handshake.                                                          *)

(* A server that waits for the connection request, ...                     *)
Waiting(cn) ==
  /\ ConnInv(cn) /\ cn.fatal = "None" /\ ~ cn.temp /\ cn.recvBuf = <<>>
  /\ cn.state = "Down" /\ cn.server /\ cn.sendBuf = EmptyBuffer

(* ... and a client that has sent it.                                      *)
Asking(cn) ==
  /\ ConnInv(cn) /\ cn.fatal = "None" /\ ~ cn.temp /\ cn.recvBuf = <<>>
  /\ cn.state = "Start" /\ ~ cn.server
  /\ Used(cn) = 1 /\ cn.sendBuf.sent = 1 /\ cn.csR = 0 /\ cn.snT = Plus(FirstNumber, 1)

(* A connection that no message stops, whatever its state.                 *)
Sound(cn, M) ==
  \/ Closed(cn, M)
  \/ (Waiting(cn) \/ Asking(cn)) /\ cn.inbox = <<>>
  \/ Fits(cn, M)

(* The peer has one received buffer.                                       *)
Agrees(m) == m.type \in {"ConnReq", "ConnResp"} => m.payload = PeerNSendMax

(* Distances between neighbours.                                           *)
LEMMA Neighbours ==
  ASSUME NEW n \in SeqNums
  PROVE  /\ Minus(Plus(n, 1), n) = 1 /\ Minus(Plus(n, 1), Minus(n, 1)) = 2
         /\ Minus(Plus(n, 1), 1) = n
BY RoomKnown DEF Plus, Minus, SeqNums

(* With everything sent, no number given up and no message that waits, a   *)
(* connection is safe.                                                     *)
LEMMA SafeAtFirst ==
  ASSUME NEW cn, ConnInv(cn), ~ cn.temp, cn.opposite = PeerNSendMax,
         cn.sendBuf.sent <= PeerNSendMax, cn.sendBuf.sent = Used(cn),
         NEW M, Minus(cn.snT, cn.csR) = Used(cn) + 1 \/ "InvalidSequenceNumber" \in M
  PROVE  Safe(cn, <<>>, M)
<1>1. UnsentAt(cn.sendBuf) = {}
  BY ConnParts, SizesKnown DEF UnsentAt
<1>2. Tidy(cn.sendBuf)
  BY <1>1 DEF Tidy
<1>3. "InvalidSequenceNumber" \notin M =>
        InOrder(cn.snT, cn.csR, Used(cn), GetNumberOfMessagesToSend(cn.sendBuf), <<>>)
  BY ConnParts, SizesKnown DEF InOrder
<1> QED
  BY <1>2, <1>3 DEF Safe, OneRequest

(* The numbers and the size of a connection request or response are taken  *)
(* over.                                                                   *)
LEMMA HandshakeTaken ==
  ASSUME NEW cn, NEW m, Receives(cn, m), NEW at \in SeqNums, m.type \in {"ConnReq", "ConnResp"}
  PROVE  LET p == ProcessReceivedMessage(cn, m, at)
         IN  /\ ConnInv(p) /\ p.state = cn.state /\ p.inbox = cn.inbox /\ p.fatal = cn.fatal
             /\ p.server = cn.server /\ p.temp = cn.temp /\ p.snT = cn.snT
             /\ p.nSendMax = cn.nSendMax /\ p.opposite = m.payload
             /\ p.csR = IF m.type = "ConnReq" THEN Minus(cn.snT, 1) ELSE m.cs
             /\ p.sendBuf = IF m.type # "ConnReq" /\ m.cs # cn.csR
                               THEN RemoveFromBuffer(cn.sendBuf, m.cs) ELSE cn.sendBuf
<1> DEFINE p == ProcessReceivedMessage(cn, m, at)
           n == NotedHeader(cn, m, at)
           t == TakenPayload(n, m)
<1>1. /\ ConnInv(cn) /\ Holds(cn, m) /\ Len(cn.recvBuf) < cn.nSendMax
      /\ cn.state \in States \ {"Closed"}
      /\ m.type \notin TimeoutRelated /\ m.type \notin {"Hb", "RetrResp", "Data", "RetrData"}
  BY DEF Receives, Holds, TimeoutRelated
<1>2. ConnInv(p) /\ p.state = cn.state /\ p.inbox = cn.inbox /\ p.nSendMax = cn.nSendMax
  BY <1>1, ProcessReceivedMessageEffect DEF Noted, Continues
<1>3. ConnInv(n) /\ n.nSendMax = cn.nSendMax /\ n.recvBuf = cn.recvBuf
  BY <1>1, NotedHeaderKeeps DEF TimelinessRespected
<1>4. /\ n.server = cn.server /\ n.temp = cn.temp
      /\ n.snT = cn.snT /\ n.fatal = cn.fatal
      /\ n.csR = IF m.type = "ConnReq" THEN Minus(cn.snT, 1) ELSE m.cs
      /\ n.sendBuf = IF m.type # "ConnReq" /\ m.cs # cn.csR
                        THEN RemoveFromBuffer(cn.sendBuf, m.cs) ELSE cn.sendBuf
  BY <1>1, NotedInside
<1> HIDE DEF n
<1>5. /\ t.server = n.server /\ t.temp = n.temp /\ t.csR = n.csR /\ t.snT = n.snT
      /\ t.sendBuf = n.sendBuf /\ t.opposite = m.payload /\ t.fatal = n.fatal
  BY <1>1, <1>3, TakenInside
<1>6. ConnInv(t)
  BY <1>1, <1>3, TakenPayloadKeeps DEF Holds
<1> HIDE DEF t
<1>7. p = [t EXCEPT !.input = FALSE]
  BY <1>1 DEF ProcessReceivedMessage, TimelinessRespected, ReceivedFlowControlCheck, t, n
<1>8. Inside(t, p) /\ p.fatal = t.fatal
  BY <1>6, <1>7, InputInside
<1> HIDE DEF p
<1> QED
  BY <1>2, <1>4, <1>5, <1>8 DEF Inside, p

(* Everything in the send buffer is sent, unless the connection is closed. *)
AllSent(cn) == cn.state = "Closed" \/ cn.sendBuf.sent = Used(cn)

(* A server gets its first message.                                        *)
LEMMA WaitingSound ==
  ASSUME NEW cn, Waiting(cn), cn.inbox = <<>>, NEW m, Receives(cn, m), Agrees(m),
         NEW M, NEW at \in SeqNums
  PROVE  Sound(DownEvents(cn, m, at), M) /\ AllSent(DownEvents(cn, m, at))
<1>1. ConnInv(cn)
  BY DEF Waiting
<1>2. CASE m.type # "ConnReq"
  <2>1. DownEvents(cn, m, at) = cn
    BY <1>2 DEF DownEvents
  <2>2. AllSent(cn)
    BY DEF AllSent, Waiting, EmptyBuffer, Used
  <2> QED
    BY <2>1, <2>2 DEF Sound
<1>3. CASE m.type = "ConnReq" /\ ~ m.version
  <2> DEFINE e == CloseConnection(cn, "ProtocolVersionError", TRUE, at)
  <2>1. Ended(cn, e)
    BY <1>1, ClosingEnds DEF DiscReasons
  <2>2. DownEvents(cn, m, at) = e
    BY <1>3 DEF DownEvents
  <2> HIDE DEF e
  <2> QED
    BY <2>1, <2>2 DEF Ended, Closed, Allowed, Waiting, Sound, AllSent
<1>4. CASE m.type = "ConnReq" /\ m.version
  <2> DEFINE p == ProcessReceivedMessage(cn, m, at)
             s == SendMessage(p, "ConnResp", p.nSendMax, at)
             dn == UpdateConnectionState(s, "Start")
  <2>1. DownEvents(cn, m, at) = dn
    BY <1>4 DEF DownEvents, SendConnRespMessage
  <2>2. /\ ConnInv(p) /\ p.state = cn.state /\ p.inbox = cn.inbox /\ p.fatal = cn.fatal
        /\ p.server = cn.server /\ p.temp = cn.temp /\ p.snT = cn.snT
        /\ p.opposite = m.payload /\ p.csR = Minus(cn.snT, 1) /\ p.sendBuf = cn.sendBuf
    BY <1>4, HandshakeTaken
  <2> HIDE DEF p
  <2>3. p.nSendMax \in Nat /\ cn.snT \in SeqNums
    <3>1. p \in Connection
      BY <2>2 DEF ConnInv
    <3>2. p.nSendMax \in 2 .. MaxNSendMax
      BY <3>1 DEF Connection
    <3> QED
      BY <1>1, <3>2, ConnParts, SizesKnown
  <2>4. Used(p) = 0 /\ p.sendBuf.sent = 0 /\ p.sendBuf.msgs = <<>>
    BY <2>2 DEF Waiting, EmptyBuffer, Used
  <2>5. PICK a : /\ ConnInv(a) /\ Alike(p, a) /\ a.fatal = p.fatal
                 /\ a.snT = Plus(p.snT, 1)
                 /\ a.sendBuf.msgs = Append(p.sendBuf.msgs, NewMessage(p, "ConnResp", p.nSendMax))
                 /\ a.sendBuf.sent = p.sendBuf.sent
                 /\ s = SendPendingMessages(a, at)
    <3>1. Used(p) < SendBufferSize /\ "ConnResp" \in MessageTypes
      BY <2>4, SizesKnown DEF MessageTypes
    <3> QED
      BY <2>2, <2>3, <3>1, MessageAdded
  <2> HIDE DEF s
  <2>6. /\ ConnInv(s) /\ Alike(a, s) /\ s.fatal = a.fatal /\ s.snT = a.snT
        /\ s.sendBuf.msgs = a.sendBuf.msgs /\ s.sendBuf.sent = SentWithFlowControl(a)
    BY <2>5, PendingSent
  <2>7. Used(a) = 1 /\ Used(s) = 1
    BY <2>4, <2>5, <2>6 DEF Used
  <2>8. a.opposite = PeerNSendMax /\ PeerNSendMax \in Nat /\ PeerNSendMax >= 1
    BY <1>4, <2>2, <2>5, RoomKnown DEF Agrees, Alike
  <2>9. s.sendBuf.sent = 1
    <3>1. GetUsedBufferEntries(a.sendBuf) = 1
      BY <2>7 DEF Used, GetUsedBufferEntries
    <3> QED
      BY <2>4, <2>5, <2>6, <2>8, <3>1 DEF SentWithFlowControl, Min2
  <2>10. Minus(s.snT, s.csR) = 2
    BY <2>2, <2>3, <2>5, <2>6, Neighbours DEF Alike
  <2>11. ~ s.temp /\ s.opposite = PeerNSendMax /\ s.server /\ s.inbox = <<>>
         /\ s.fatal = "None"
    BY <2>2, <2>5, <2>6, <2>8 DEF Alike, Waiting
  <2>12. Safe(s, <<>>, M)
    BY <2>6, <2>7, <2>8, <2>9, <2>10, <2>11, SafeAtFirst
  <2>13. Fit(s, <<>>, M)
    BY <2>6, <2>11, <2>12 DEF Fit, Allowed
  <2>14. Turns(s, dn, "Start") /\ Inside(s, dn) /\ dn.fatal = s.fatal
    BY <2>6, StateInside DEF States
  <2> HIDE DEF dn
  <2>15. Fit(dn, <<>>, M)
    BY <2>13, <2>14, InsideFit DEF Turns
  <2>16. Fits(dn, M)
    BY <2>11, <2>14, <2>15 DEF Turns, Fits, Settled, OpenStates, States
  <2>17. AllSent(dn)
    BY <2>7, <2>9, <2>14 DEF Inside, AllSent, Used
  <2> QED
    BY <2>1, <2>16, <2>17 DEF Sound
<1> QED
  BY <1>2, <1>3, <1>4

(* A client gets its first message: it confirms the request, which has the *)
(* first number, and if that is not the one that was confirmed so far, the *)
(* request leaves the send buffer.                                         *)
LEMMA AskingSound ==
  ASSUME NEW cn, Asking(cn), cn.inbox = <<>>, NEW m, Receives(cn, m), Agrees(m),
         ConfirmedSequenceNumberOk(cn, m), NEW M, Exposed \subseteq M, NEW at \in SeqNums
  PROVE  Sound(StartEvents(cn, m, at), M)
<1>1. ConnInv(cn) /\ cn.state # "Closed" /\ FirstNumber \in SeqNums
  BY EndpointAssumption DEF Asking
<1>2. \A e : Ended(cn, e) => Sound(e, M)
  BY DEF Ended, Closed, Allowed, Asking, Sound
<1>3. ASSUME m.type # "ConnResp" \/ ~ m.version
      PROVE  Sound(StartEvents(cn, m, at), M)
  <2>1. \A reason \in DiscReasons : Sound(CloseConnection(cn, reason, TRUE, at), M)
    BY <1>1, <1>2, ClosingEnds
  <2>2. Sound(CloseRedundancyChannel(cn, TRUE), M)
    BY <1>1, <1>2, ClosingEnds
  <2> QED
    BY <1>3, <2>1, <2>2 DEF StartEvents, DiscReasons, Asking
<1>4. ASSUME m.type = "ConnResp", m.version
      PROVE  Sound(StartEvents(cn, m, at), M)
  <2> DEFINE p == ProcessReceivedMessage(cn, m, at)
             s == SendMessage(p, "Hb", 0, at)
             dn == UpdateConnectionState(s, "Up")
             b == cn.sendBuf
             n == NumberConfirmed(b, m.cs)
  <2>1. StartEvents(cn, m, at) = dn
    BY <1>4 DEF StartEvents, SendHbMessage, Asking
  <2>2. m.cs = FirstNumber
    BY <1>1, <1>4, Neighbours DEF ConfirmedSequenceNumberOk, Asking
  <2>3. /\ ConnInv(p) /\ p.state = cn.state /\ p.inbox = cn.inbox /\ p.fatal = cn.fatal
        /\ p.server = cn.server /\ p.temp = cn.temp /\ p.snT = cn.snT
        /\ p.opposite = PeerNSendMax /\ p.csR = FirstNumber
        /\ p.sendBuf = IF FirstNumber # 0 THEN RemoveFromBuffer(b, FirstNumber) ELSE b
    <3>1. m.cs = cn.csR <=> FirstNumber = 0
      BY <2>2 DEF Asking
    <3> QED
      BY <1>4, <2>2, <3>1, HandshakeTaken DEF Agrees
  <2> HIDE DEF p
  <2>4. Minus(cn.snT, FirstNumber) = 1
    BY <1>1, Neighbours DEF Asking
  <2>5. /\ b \in SendBuffer /\ Gapless(b, cn.snT) /\ cn.snT \in SeqNums
        /\ Len(b.msgs) = 1 /\ b.sent = 1 /\ b.msgs \in Seq(Message)
    BY <1>1, ConnParts, SendBufferType DEF Asking, Used
  <2>6. n = 1
    <3>1. 1 \in Len(b.msgs) - b.sent + 1 .. 2 * SendBufferSize + 1
      BY <2>5, RoomKnown
    <3>2. n = IF Minus(cn.snT, FirstNumber) > Len(b.msgs) THEN 0
              ELSE Len(b.msgs) + 1 - Minus(cn.snT, FirstNumber)
      BY <1>1, <2>2, <2>4, <2>5, <3>1, RemovesConfirmed
    <3> QED
      BY <2>4, <2>5, <3>2
  <2>7. /\ p.sendBuf.sent = Used(p) /\ Used(p) \in {0, 1}
        /\ Minus(p.snT, p.csR) = Used(p) + 1 \/ "InvalidSequenceNumber" \in M
    <3> HIDE DEF n, b
    <3>1. CASE FirstNumber # 0
      <4>1. p.sendBuf = [msgs |-> SubSeq(b.msgs, 2, 1), sent |-> 0]
        BY <2>2, <2>3, <2>5, <2>6, <3>1 DEF RemoveFromBuffer, n
      <4>2. Len(SubSeq(b.msgs, 2, 1)) = 0
        BY <2>5
      <4>3. p.sendBuf.sent = 0 /\ Used(p) = 0
        BY <4>1, <4>2 DEF Used
      <4> QED
        BY <2>3, <2>4, <4>3
    <3>2. CASE FirstNumber = 0
      <4>1. p.sendBuf = b /\ "InvalidSequenceNumber" \in M
        BY <2>3, <3>2 DEF Exposed
      <4> QED
        BY <2>5, <4>1 DEF Used
    <3> QED
      BY <3>1, <3>2
  <2>8. Safe(p, <<>>, M)
    <3>1. p.sendBuf.sent <= PeerNSendMax
      BY <2>7, RoomKnown
    <3> QED
      BY <2>3, <2>7, <3>1, SafeAtFirst DEF Asking
  <2>9. Fit(p, <<>>, M) /\ Used(p) < SendBufferSize /\ p.inbox = <<>>
    BY <2>3, <2>7, <2>8, SizesKnown DEF Fit, Allowed, Asking
  <2>10. Fit(s, <<>>, M) /\ Alike(p, s)
    <3>1. "Hb" \in {"Hb", "Data", "RetrReq"} /\ <<>> \in Seq(PDU) /\ 0 \in Nat
      OBVIOUS
    <3> QED
      BY <2>9, <3>1, FitMessage
  <2> HIDE DEF s
  <2>11. Turns(s, dn, "Up") /\ Inside(s, dn) /\ dn.fatal = s.fatal
    BY <2>10, StateInside DEF States, Fit
  <2> HIDE DEF dn
  <2>12. Fit(dn, <<>>, M)
    BY <2>10, <2>11, InsideFit DEF Turns
  <2>13. Fits(dn, M)
    BY <2>9, <2>10, <2>11, <2>12 DEF Alike, Turns, Fits, Settled, OpenStates, States
  <2> QED
    BY <2>1, <2>13 DEF Sound
<1> QED
  BY <1>3, <1>4

(* The receive loop, if the first iteration takes the only message.        *)
LEMMA LoopOfOne ==
  ASSUME NEW cn, Len(cn.inbox) = 1, NEW at, ReceivingGoesOn(cn),
         ReceiveOne(cn, at).inbox = <<>>
  PROVE  LET r == ReceiveOne(cn, at)
         IN  ReceiveLoop(cn, at) \in {r, [r EXCEPT !.pending = FALSE]}
<1> DEFINE N == Len(cn.inbox) + 1
           Step(dn) == IF ReceivingGoesOn(dn) THEN ReceiveOne(dn, at) ELSE dn
           Value(f, n) == IF n = 0 THEN cn ELSE Step(f[n - 1])
           after == CHOOSE f : f = [n \in 0 .. N |-> Value(f, n)]
           g == [n \in 0 .. N |-> IF n = 0 THEN cn ELSE IF n = 1 THEN Step(cn)
                                  ELSE Step(Step(cn))]
           r == ReceiveOne(cn, at)
<1>1. ReceiveLoop(cn, at) = after[N]
  BY DEF ReceiveLoop
<1>2. N = 2
  OBVIOUS
<1>3. Step(cn) = r /\ Step(r) \in {r, [r EXCEPT !.pending = FALSE]}
  BY DEF ReceiveOne
<1> HIDE DEF N, Step, r
<1>4. g = [n \in 0 .. N |-> Value(g, n)]
  <2>1. ASSUME NEW n \in 0 .. N
        PROVE  g[n] = Value(g, n)
    <3>1. n \in {0, 1, 2} /\ 0 \in 0 .. N /\ 1 \in 0 .. N
      BY <1>2
    <3>2. CASE n = 0
      BY <3>1, <3>2
    <3>3. CASE n = 1
      BY <3>1, <3>3
    <3>4. CASE n = 2
      BY <3>1, <3>4
    <3> QED
      BY <3>1, <3>2, <3>3, <3>4
  <2> QED
    BY <2>1
<1>5. after = [n \in 0 .. N |-> Value(after, n)]
  <2> HIDE DEF g
  <2> QED
    BY <1>4
<1> HIDE DEF after
<1>6. after[0] = cn
  <2>1. 0 \in 0 .. N
    BY <1>2
  <2> QED
    BY <1>5, <2>1
<1>7. after[1] = Step(cn)
  <2>1. 1 \in 0 .. N /\ 1 # 0 /\ 1 - 1 = 0
    BY <1>2
  <2>2. after[1] = Step(after[1 - 1])
    BY <1>5, <2>1
  <2> QED
    BY <1>6, <2>1, <2>2
<1>8. after[2] = Step(Step(cn))
  <2>1. 2 \in 0 .. N /\ 2 # 0 /\ 2 - 1 = 1
    BY <1>2
  <2>2. after[2] = Step(after[2 - 1])
    BY <1>5, <2>1
  <2> QED
    BY <1>7, <2>1, <2>2
<1> QED
  BY <1>1, <1>2, <1>3, <1>8 DEF r

(* Nothing that matters has changed.                                       *)
LEMMA SoundSame ==
  ASSUME NEW cn, NEW M, Sound(cn, M), NEW dn, ConnInv(dn), Inside(cn, dn), dn.fatal = cn.fatal,
         dn.state = cn.state, dn.inbox = cn.inbox, cn.recvBuf = <<>> => dn.recvBuf = <<>>
  PROVE  Sound(dn, M)
<1>1. Used(dn) = Used(cn)
  BY DEF Inside, Used
<1>2. Closed(cn, M) => Closed(dn, M)
  BY DEF Closed, Allowed
<1>3. (Waiting(cn) => Waiting(dn)) /\ (Asking(cn) => Asking(dn))
  BY <1>1 DEF Waiting, Asking, Inside
<1>4. Fits(cn, M) => Fits(dn, M)
  <2>1. Fit(cn, cn.inbox, M) => Fit(dn, cn.inbox, M)
    BY InsideFit
  <2> QED
    BY <2>1 DEF Fits, Settled, Inside
<1> QED
  BY <1>2, <1>3, <1>4 DEF Sound

(* A notification, or an iteration that finds no message.                  *)
LEMMA FlagInside ==
  ASSUME NEW cn, ConnInv(cn), NEW pending \in BOOLEAN
  PROVE  LET dn == [cn EXCEPT !.pending = pending]
         IN  /\ ConnInv(dn) /\ Inside(cn, dn) /\ dn.fatal = cn.fatal /\ dn.state = cn.state
             /\ dn.inbox = cn.inbox /\ dn.recvBuf = cn.recvBuf /\ dn.nSendMax = cn.nSendMax
             /\ dn.pending = pending
<1>1. ConnInv([cn EXCEPT !.pending = pending])
  BY PendingQuiet DEF Quiet, Continues
<1> QED
  BY <1>1 DEF Inside, ConnInv, Connection

(* Every such connection keeps the invariant of the send buffer.           *)
LEMMA SoundConn ==
  ASSUME NEW cn, NEW M, Sound(cn, M)
  PROVE  ConnInv(cn) /\ cn \in Connection /\ Allowed(cn, M)
BY DEF Sound, Closed, Waiting, Asking, Fits, Fit, Allowed, ConnInv

(* The receive loop keeps it.                                              *)
LEMMA LoopSound ==
  ASSUME NEW cn, NEW M, Sound(cn, M), NEW at \in SeqNums
  PROVE  Sound(ReceiveLoop(cn, at), M)
<1> DEFINE S == {e \in Connection : Sound(e, M)}
<1>1. KeptByIteration(S, at)
  <2> SUFFICES ASSUME NEW e \in S, ReceivingGoesOn(e)
               PROVE  ReceiveOne(e, at) \in S
    BY DEF KeptByIteration
  <2>1. Sound(e, M) /\ ConnInv(e)
    BY SoundConn
  <2> HIDE DEF S
  <2>2. CASE Closed(e, M) \/ Fits(e, M)
    <3>1. Sound(ReceiveOne(e, at), M)
      BY <2>2, IterationFits DEF Sound
    <3> QED
      BY <3>1, SoundConn DEF S
  <2>3. CASE (Waiting(e) \/ Asking(e)) /\ e.inbox = <<>>
    <3> DEFINE dn == [e EXCEPT !.pending = FALSE]
    <3>1. ReceiveOne(e, at) = dn
      BY <2>3 DEF ReceiveOne
    <3>2. Sound(dn, M)
      <4>1. /\ ConnInv(dn) /\ Inside(e, dn) /\ dn.fatal = e.fatal /\ dn.state = e.state
            /\ dn.inbox = e.inbox /\ dn.recvBuf = e.recvBuf
        BY <2>1, FlagInside
      <4> HIDE DEF dn
      <4> QED
        BY <2>1, <4>1, SoundSame
    <3> HIDE DEF dn
    <3> QED
      BY <3>1, <3>2, SoundConn DEF S
  <2> QED
    BY <2>1, <2>2, <2>3 DEF Sound
<1>2. cn \in S /\ ConnInv(cn)
  BY SoundConn
<1>3. ReceiveLoop(cn, at) \in S
  <2> HIDE DEF S
  <2> QED
    BY <1>1, <1>2, LoopKeeps
<1> QED
  BY <1>3

(* The first message a connection gets during the handshake.               *)
LEMMA FirstMessageSound ==
  ASSUME NEW cn, Waiting(cn) \/ Asking(cn), NEW m \in PDU, cn.inbox = << m >>,
         Agrees(m), cn.pending, NEW M, Exposed \subseteq M, NEW at \in SeqNums
  PROVE  /\ Sound(ReceiveLoop(cn, at), M)
         /\ Waiting(cn) => AllSent(ReceiveLoop(cn, at))
<1> DEFINE r == ReceiveOne(cn, at)
           f == [r EXCEPT !.pending = FALSE]
<1>1. ConnInv(cn) /\ cn.state # "Closed" /\ cn.inbox # <<>>
      /\ Head(cn.inbox) = m /\ Tail(cn.inbox) = <<>> /\ Len(cn.inbox) = 1
  BY DEF Waiting, Asking
<1>2. ReceivingGoesOn(cn)
  <2>1. GetFreeBufferEntries(cn.sendBuf) >= 3
    <3> DEFINE n == Len(cn.sendBuf.msgs)
    <3>1. n \in {0, 1}
      BY DEF Waiting, Asking, Used, EmptyBuffer
    <3> HIDE DEF n
    <3>2. SendBufferSize \in Nat /\ SendBufferSize >= 4
      BY RoomKnown
    <3>3. SendBufferSize - n >= 3
      BY <3>1, <3>2
    <3> QED
      BY <3>3 DEF GetFreeBufferEntries, n
  <2>2. cn.recvBuf = <<>> /\ cn.nSendMax \in 2 .. MaxNSendMax /\ MaxNSendMax \in Nat
    BY <1>1, SizesKnown DEF Waiting, Asking, ConnInv, Connection
  <2>3. cn.nSendMax - Len(cn.recvBuf) >= 1
    BY <2>2
  <2> QED
    BY <2>1, <2>3 DEF ReceivingGoesOn, kMinFreeEntriesReceivedBufferForReceive,
                      kMinFreeEntriesSendBufferForRetr
<1>3. PICK dn, errors :
         /\ Reads(cn, dn, m, errors)
         /\ r = dn \/ Goes(dn, r, at)
         /\ IF Accepted(cn, m)
              THEN Receives(dn, m) /\ r = ProcessMessageEvent(dn, m, at)
              ELSE r = dn
  BY <1>1, <1>2, ReceiveOneReads
<1> HIDE DEF r
<1>4. /\ dn.inbox = <<>> /\ (Waiting(cn) => Waiting(dn)) /\ (Asking(cn) => Asking(dn))
      /\ ConfirmedSequenceNumberOk(cn, m) => ConfirmedSequenceNumberOk(dn, m)
  BY <1>1, <1>3 DEF Reads, Waiting, Asking, Used, ConfirmedSequenceNumberOk
<1>5. r.inbox = <<>>
  BY <1>3, <1>4, GoesInbox
<1>6. Sound(r, M) /\ (Waiting(cn) => AllSent(r))
  <2>1. CASE r = dn
    BY <1>4, <2>1 DEF Sound, AllSent, Waiting, EmptyBuffer, Used
  <2>2. CASE Accepted(cn, m) /\ Waiting(cn)
    <3>1. r = DownEvents(dn, m, at) /\ Waiting(dn) /\ Receives(dn, m)
      BY <1>3, <1>4, <2>2 DEF ProcessMessageEvent, Waiting
    <3> QED
      BY <1>4, <3>1, WaitingSound
  <2>3. CASE Accepted(cn, m) /\ Asking(cn)
    <3>1. r = StartEvents(dn, m, at) /\ Asking(dn) /\ Receives(dn, m)
          /\ ConfirmedSequenceNumberOk(dn, m)
      BY <1>3, <1>4, <2>3 DEF ProcessMessageEvent, Asking, Accepted
    <3>2. Sound(r, M)
      BY <1>4, <3>1, AskingSound
    <3> QED
      BY <2>3, <3>2 DEF Asking, Waiting
  <2> QED
    BY <1>3, <2>1, <2>2, <2>3
<1>7. Sound(f, M) /\ (AllSent(r) => AllSent(f))
  <2>1. ConnInv(r)
    BY <1>6, SoundConn
  <2>2. /\ ConnInv(f) /\ Inside(r, f) /\ f.fatal = r.fatal /\ f.state = r.state
        /\ f.inbox = r.inbox /\ f.recvBuf = r.recvBuf
    BY <2>1, FlagInside
  <2> HIDE DEF f
  <2>3. Sound(f, M)
    BY <1>6, <2>2, SoundSame
  <2> QED
    BY <2>2, <2>3 DEF AllSent, Inside, Used
<1> HIDE DEF f
<1>8. ReceiveLoop(cn, at) \in {r, f}
  BY <1>1, <1>2, <1>5, LoopOfOne DEF r, f
<1> QED
  BY <1>6, <1>7, <1>8

-----------------------------------------------------------------------------
(* The calls.                                                              *)

(* A message that violates none of the assertions but those of M.          *)
Honest(cn, m, M) ==
  /\ "InvalidSequenceNumber" \notin M /\ Confirming(m) =>
       Minus(m.cs, cn.csR)
         <= Minus(Minus(cn.snT, 1 + GetNumberOfMessagesToSend(cn.sendBuf)), cn.csR)
  /\ "InternalError" \notin M /\ m.type = "RetrReq" =>
       /\ ~ Waits(cn.sendBuf, "RetrResp")
       /\ \A i \in DOMAIN cn.inbox : cn.inbox[i].type # "RetrReq"

(* A message arrives behind the others.                                    *)
LEMMA ArrivedFit ==
  ASSUME NEW cn, NEW M, Fit(cn, cn.inbox, M), NEW N, M \subseteq N,
         NEW m \in PDU, Honest(cn, m, N)
  PROVE  Fit(cn, Append(cn.inbox, m), N)
<1> DEFINE q == cn.inbox
           r == Append(q, m)
           b == cn.sendBuf
<1>1. ConnInv(cn) /\ q \in Seq(PDU)
  BY ConnParts DEF Fit
<1>2. \A i \in DOMAIN r : (i \in DOMAIN q /\ r[i] = q[i]) \/ (i = Len(q) + 1 /\ r[i] = m)
  BY <1>1
<1>3. ASSUME OneRequest(b, q),
             m.type = "RetrReq" => /\ ~ Waits(b, "RetrResp")
                                   /\ \A i \in DOMAIN q : q[i].type # "RetrReq"
      PROVE  OneRequest(b, r)
  <2> HIDE DEF r, q
  <2> QED
    BY <1>2, <1>3 DEF OneRequest
<1>4. ASSUME Safe(cn, q, M)
      PROVE  Safe(cn, r, N)
  <2>1. "InternalError" \notin N => OneRequest(b, r)
    BY <1>3, <1>4 DEF Safe, Honest
  <2>2. "InvalidSequenceNumber" \notin N =>
          InOrder(cn.snT, cn.csR, Used(cn), GetNumberOfMessagesToSend(b), r)
    <3> DEFINE w == GetNumberOfMessagesToSend(b)
               used == Used(cn)
    <3>1. SUFFICES ASSUME "InvalidSequenceNumber" \notin N
                   PROVE  InOrder(cn.snT, cn.csR, used, w, r)
      OBVIOUS
    <3>2. InOrder(cn.snT, cn.csR, used, w, q)
      BY <1>4, <3>1 DEF Safe
    <3>3. Confirming(m) => Minus(m.cs, cn.csR) <= Minus(Minus(cn.snT, 1 + w), cn.csR)
      BY <3>1 DEF Honest
    <3>4. used \in 0 .. SendBufferSize /\ w \in 0 .. used /\ cn.snT \in SeqNums
          /\ cn.csR \in SeqNums
      BY <1>1, ConnParts
    <3> HIDE DEF used, w, q
    <3> QED
      BY <1>1, <3>2, <3>3, <3>4, InOrderArrived
  <2> QED
    BY <1>4, <2>1, <2>2 DEF Safe
<1> QED
  BY <1>4 DEF Fit, Allowed

(* sradno_MessageReceivedNotification                                      *)
LEMMA NotifiedSound ==
  ASSUME NEW cn, NEW M, Sound(cn, M), cn.state # "Closed", NEW N, M \subseteq N,
         Exposed \subseteq N, NEW m \in PDU, Agrees(m), Honest(cn, m, N), NEW at \in SeqNums
  PROVE  LET dn == MessageReceivedNotification([cn EXCEPT !.inbox = Append(@, m)], at)
         IN  Sound(dn, N) /\ (Waiting(cn) => AllSent(dn))
<1> DEFINE a == [cn EXCEPT !.inbox = Append(@, m)]
           u == [a EXCEPT !.pending = TRUE]
           dn == MessageReceivedNotification(a, at)
<1>1. ConnInv(cn) /\ cn \in Connection
  BY SoundConn
<1>2. ConnInv(a)
  BY <1>1, ArrivedKeeps
<1>3. /\ Inside(cn, a) /\ a.fatal = cn.fatal /\ a.state = cn.state /\ a.recvBuf = cn.recvBuf
      /\ a.inbox = Append(cn.inbox, m)
  BY <1>1 DEF Inside, Connection
<1>4. dn = ReceiveLoop(u, at)
  BY DEF MessageReceivedNotification
<1> HIDE DEF a
<1>5. /\ ConnInv(u) /\ Inside(a, u) /\ u.fatal = a.fatal /\ u.state = a.state
      /\ u.inbox = a.inbox /\ u.recvBuf = a.recvBuf /\ u.pending = TRUE
  BY <1>2, FlagInside
<1> HIDE DEF u, dn
<1>6. /\ Inside(cn, u) /\ u.fatal = cn.fatal /\ u.state = cn.state /\ u.recvBuf = cn.recvBuf
      /\ u.inbox = Append(cn.inbox, m) /\ Used(u) = Used(cn)
  BY <1>3, <1>5 DEF Inside, Used
<1>7. CASE (Waiting(cn) \/ Asking(cn)) /\ cn.inbox = <<>>
  <2>1. u.inbox = << m >>
    BY <1>6, <1>7
  <2>2. (Waiting(cn) => Waiting(u)) /\ (Asking(cn) => Asking(u))
    BY <1>5, <1>6 DEF Inside, Waiting, Asking
  <2> QED
    BY <1>4, <1>5, <1>7, <2>1, <2>2, FirstMessageSound DEF dn, a
<1>8. CASE Fits(cn, M)
  <2>1. Fit(cn, Append(cn.inbox, m), N)
    BY <1>8, ArrivedFit DEF Fits
  <2>2. Fit(u, u.inbox, N)
    BY <1>5, <1>6, <2>1, InsideFit
  <2>3. Fits(u, N)
    BY <1>6, <1>8, <2>2 DEF Fits, Settled, Inside
  <2>4. Sound(dn, N)
    BY <1>4, <2>3, LoopSound DEF Sound
  <2>5. ~ Waiting(cn)
    BY <1>8 DEF Fits, Settled, OpenStates, Waiting
  <2> QED
    BY <2>4, <2>5 DEF dn, a
<1> QED
  BY <1>7, <1>8 DEF Sound, Closed

(* srapi_CheckTimings                                                      *)
LEMMA CheckTimersSound ==
  ASSUME NEW cn, NEW M, Sound(cn, M), Exposed \subseteq M, NEW at \in SeqNums
  PROVE  Sound(CheckTimers(cn, at), M)
<1> DEFINE s == SendPendingMessages(cn, at)
           dn == CheckTimers(cn, at)
           none == GetNumberOfMessagesToSend(s.sendBuf) = 0
<1>1. ConnInv(cn) /\ Allowed(cn, M)
  BY SoundConn
<1>2. ConnInv(s) /\ Alike(cn, s) /\ s.fatal = cn.fatal
  BY <1>1, PendingSent
<1>3. dn \in {s, TimeoutEvent(s, at)} \/ (none /\ dn = SendHbEvent(s, at))
  BY DEF CheckTimers
<1>4. TimeoutEvent(s, at) = s \/ Ended(s, TimeoutEvent(s, at))
  BY <1>2, ClosingEnds DEF TimeoutEvent, DiscReasons
<1>5. \A e : Ended(s, e) => Sound(e, M)
  BY <1>1, <1>2 DEF Ended, Closed, Allowed, Sound
<1>6. CASE Closed(cn, M)
  <2>1. SendHbEvent(s, at) = s /\ TimeoutEvent(s, at) = s
    BY <1>2, <1>6 DEF SendHbEvent, TimeoutEvent, Closed, Alike
  <2> HIDE DEF s, dn, none
  <2>2. Closed(s, M)
    BY <1>2, <1>6 DEF Closed, Allowed, Alike
  <2> QED
    BY <1>3, <2>1, <2>2 DEF Sound, dn
<1>7. CASE (Waiting(cn) \/ Asking(cn)) /\ cn.inbox = <<>>
  <2>1. s = cn
    <3>1. SentWithFlowControl(cn) \in cn.sendBuf.sent .. Used(cn) /\ cn.sendBuf.sent = Used(cn)
          /\ Used(cn) \in Nat
      <4>1. cn.sendBuf.sent = Used(cn)
        <5>1. CASE Waiting(cn)
          BY <5>1 DEF Waiting, EmptyBuffer, Used
        <5>2. CASE Asking(cn)
          BY <5>2 DEF Asking
        <5> QED
          BY <1>7, <5>1, <5>2
      <4> QED
        BY <1>1, <4>1, PendingSent, UsedSize
    <3>2. SentWithFlowControl(cn) - cn.sendBuf.sent = 0
      BY <3>1
    <3> QED
      BY <3>2 DEF SendPendingMessages
  <2> HIDE DEF s, none
  <2>2. SendHbEvent(s, at) = s
    BY <1>7, <2>1 DEF SendHbEvent, Waiting, Asking
  <2> HIDE DEF dn
  <2> QED
    BY <1>3, <1>4, <1>5, <2>1, <2>2 DEF dn
<1>8. CASE Fits(cn, M)
  <2>1. Fit(s, cn.inbox, M)
    <3>1. cn.inbox \in Seq(PDU)
      BY <1>1, ConnParts
    <3> QED
      BY <1>8, <3>1, FitPending DEF Fits
  <2> HIDE DEF s
  <2>2. Settled(s) /\ s.inbox = cn.inbox /\ Fits(s, M)
    BY <1>2, <1>8, <2>1 DEF Fits, Settled, Alike
  <2>3. none => Fits(SendHbEvent(s, at), M)
    <3>1. SUFFICES ASSUME none
                   PROVE  Fits(SendHbEvent(s, at), M)
      OBVIOUS
    <3>2. SendHbEvent(s, at) = SendMessage(s, "Hb", 0, at)
      BY <2>2 DEF SendHbEvent, SendHbMessage, Settled, OpenStates
    <3> DEFINE e == SendMessage(s, "Hb", 0, at)
    <3>3. Used(s) \in Nat /\ Used(s) <= SendBufferSize /\ SendBufferSize \in Nat
      BY <1>2, UsedSize, SizesKnown
    <3>4. Fit(e, s.inbox, M) /\ Alike(s, e)
      <4>1. CASE Used(s) < SendBufferSize
        <5>1. "Hb" \in {"Hb", "Data", "RetrReq"} /\ s.inbox \in Seq(PDU)
          BY <1>2, ConnParts
        <5> QED
          BY <2>1, <2>2, <4>1, <5>1, FitMessage, 0 \in Nat
      <4>2. CASE ~ (Used(s) < SendBufferSize)
        <5>1. Used(s) = s.sendBuf.sent
          BY <1>2, <3>1, ConnParts, SizesKnown
        <5>2. s.fatal = "None" => "SendBufferFull" \in M
          <6>1. s.fatal = "None" => PeerNSendMax >= SendBufferSize
            BY <2>1, <3>3, <4>2, <5>1, RoomKnown DEF Fit, Safe
          <6> QED
            BY <6>1 DEF Exposed
        <5>3. GetFreeBufferEntries(s.sendBuf) = 0
          BY <3>3, <4>2 DEF GetFreeBufferEntries, Used
        <5>4. e = IF s.fatal = "None" THEN [s EXCEPT !.fatal = "SendBufferFull"] ELSE s
          BY <5>3 DEF SendMessage, Require
        <5>5. CASE s.fatal # "None"
          BY <2>1, <2>2, <5>4, <5>5 DEF Alike
        <5>6. CASE s.fatal = "None"
          <6>1. e = [s EXCEPT !.fatal = "SendBufferFull"] /\ s \in Connection
            BY <1>2, <5>4, <5>6, ConnParts
          <6> HIDE DEF e
          <6>2. /\ Inside(s, e) /\ e.fatal = "SendBufferFull" /\ Alike(s, e)
                /\ e.recvBuf = s.recvBuf
            BY <6>1 DEF Inside, Alike, Connection
          <6>3. e \in Connection
            BY <6>1 DEF Connection, Errors
          <6>4. ConnInv(e)
            BY <1>2, <6>2, <6>3 DEF ConnInv, Inside, Alike
          <6> QED
            BY <2>2, <5>2, <5>6, <6>2, <6>4 DEF Fit, Allowed
        <5> QED
          BY <5>5, <5>6
      <4> QED
        BY <4>1, <4>2
    <3> HIDE DEF e
    <3>5. Fits(e, M)
      BY <2>2, <3>4 DEF Fits, Settled, Alike
    <3> QED
      BY <3>2, <3>5 DEF e
  <2> HIDE DEF dn, none
  <2> QED
    BY <1>3, <1>4, <1>5, <2>2, <2>3 DEF Sound, dn
<1> QED
  BY <1>6, <1>7, <1>8 DEF Sound

(* The whole of srapi_CheckTimings.                                        *)
LEMMA CheckTimingsSound ==
  ASSUME NEW cn, NEW M, Sound(cn, M), Exposed \subseteq M, NEW at \in SeqNums
  PROVE  Sound(CheckTimings(cn, at), M)
BY LoopSound, CheckTimersSound DEF CheckTimings

(* srapi_SendData                                                          *)
LEMMA SendDataSound ==
  ASSUME NEW cn, NEW M, Sound(cn, M), cn.fatal = "None", SendDataTakes(cn),
         NEW payload \in Nat, NEW at \in SeqNums
  PROVE  Sound(SendData(cn, payload, at), M)
<1> DEFINE r == Require(cn, ~ cn.temp, "InternalError")
           w == [r EXCEPT !.temp = TRUE]
           q == Require(w, w.temp, "InternalError")
           k == [q EXCEPT !.temp = FALSE]
           e == SendMessage(k, "Data", payload, at)
<1>1. ConnInv(cn) /\ cn \in Connection /\ Allowed(cn, M) /\ cn.state # "Closed" /\ ~ cn.temp
  <2>1. ConnInv(cn) /\ cn \in Connection /\ Allowed(cn, M) /\ cn.state # "Closed"
    BY SoundConn DEF SendDataTakes
  <2> QED
    BY <2>1 DEF Sound, Closed, Waiting, Asking, Fits, Fit, Safe
<1>2. r = cn
  BY <1>1 DEF Require
<1>3. /\ w \in Connection /\ w.temp = TRUE /\ w.fatal = cn.fatal /\ w.state = cn.state
      /\ w.sendBuf = cn.sendBuf /\ w.snT = cn.snT /\ w.recvBuf = cn.recvBuf
      /\ w.nSendMax = cn.nSendMax /\ w.server = cn.server /\ w.opposite = cn.opposite
      /\ w.csR = cn.csR /\ w.inbox = cn.inbox
  BY <1>1, <1>2 DEF Connection
<1> HIDE DEF r, w
<1>4. ConnInv(w)
  BY <1>1, <1>3 DEF ConnInv
<1>5. \A d1 : Ended(w, d1) => Sound(d1, M)
  BY <1>1, <1>3 DEF Ended, Closed, Allowed, Sound
<1>6. CASE cn.state = "Down"
  <2>1. SendData(cn, payload, at) = CloseRedundancyChannel(w, FALSE)
    BY <1>6 DEF SendData, w, r
  <2> QED
    BY <1>3, <1>4, <1>5, <1>6, <2>1, ClosingEnds
<1>7. CASE cn.state = "Start"
  <2>1. SendData(cn, payload, at) = CloseConnection(w, "ServiceNotAllowed", FALSE, at)
    BY <1>7 DEF SendData, w, r
  <2> QED
    BY <1>4, <1>5, <2>1, ClosingEnds DEF DiscReasons
<1>8. CASE cn.state \notin {"Down", "Start"}
  <2>1. SendData(cn, payload, at) = e
    BY <1>8 DEF SendData, SendDataMessage, e, k, q, w, r
  <2>2. q = w
    BY <1>3 DEF Require
  <2>3. /\ k \in Connection /\ Inside(cn, k) /\ k.fatal = cn.fatal /\ k.state = cn.state
        /\ k.recvBuf = cn.recvBuf /\ k.nSendMax = cn.nSendMax /\ k.inbox = cn.inbox
    BY <1>1, <1>3, <2>2 DEF Connection, Inside
  <2> HIDE DEF k
  <2>4. ConnInv(k)
    BY <1>1, <2>3 DEF ConnInv, Inside
  <2>5. Fits(k, M)
    <3>1. Sound(k, M)
      BY <2>3, <2>4, SoundSame
    <3> QED
      BY <1>1, <1>8, <2>3, <3>1 DEF Sound, Closed, Waiting, Asking
  <2>6. Used(k) < SendBufferSize /\ k.inbox \in Seq(PDU)
    <3>1. Used(k) = Used(cn) /\ Used(cn) \in Nat /\ k.inbox \in Seq(PDU)
      BY <1>1, <2>3, <2>4, UsedSize, ConnParts DEF Inside, Used
    <3> QED
      BY <3>1, SizesKnown DEF SendDataTakes, GetFreeBufferEntries, Used
  <2>7. Fit(e, k.inbox, M) /\ Alike(k, e)
    <3>1. "Data" \in {"Hb", "Data", "RetrReq"}
      OBVIOUS
    <3> QED
      BY <2>5, <2>6, <3>1, FitMessage DEF Fits
  <2> HIDE DEF e
  <2>8. Fits(e, M)
    BY <2>5, <2>7 DEF Fits, Settled, Alike
  <2> QED
    BY <2>1, <2>8 DEF Sound
<1> QED
  BY <1>6, <1>7, <1>8

(* srapi_CloseConnection, and srapi_OpenConnection of one that is open.    *)
LEMMA CloseCallSound ==
  ASSUME NEW cn, NEW M, Sound(cn, M), cn.state # "Closed", NEW at \in SeqNums, NEW sn
  PROVE  Sound(CloseConnectionCall(cn, at), M) /\ Sound(OpenConnection(cn, sn, at), M)
<1>1. ConnInv(cn) /\ Allowed(cn, M)
  BY SoundConn
<1>2. \A e : Ended(cn, e) => Sound(e, M)
  BY <1>1 DEF Ended, Closed, Allowed, Sound
<1>3. /\ \A reason \in DiscReasons : Sound(CloseConnection(cn, reason, FALSE, at), M)
      /\ Sound(CloseRedundancyChannel(cn, FALSE), M)
  BY <1>1, <1>2, ClosingEnds
<1> QED
  BY <1>3 DEF CloseConnectionCall, OpenConnection, DiscReasons

(* srapi_OpenConnection of a connection that is closed.                    *)
LEMMA OpenSound ==
  ASSUME NEW cn, ConnInv(cn), cn.state = "Closed", cn.fatal = "None",
         NEW at \in SeqNums
  PROVE  LET o == OpenConnection(cn, FirstNumber, at)
         IN  (Waiting(o) \/ Asking(o)) /\ o.inbox = <<>>
<1> DEFINE o == OpenConnection(cn, FirstNumber, at)
<1>1. PICK z : /\ Blank(cn, z, FirstNumber)
               /\ o = IF cn.server THEN z ELSE SendMessage(z, "ConnReq", cn.nSendMax, at)
  BY OpenConnectionOpens, EndpointAssumption
<1> HIDE DEF o
<1>2. CASE cn.server
  BY <1>1, <1>2 DEF Blank, Waiting, o
<1>3. CASE ~ cn.server
  <2>1. /\ ConnInv(z) /\ ~ z.server /\ z.state = "Start" /\ z.sendBuf.msgs = <<>>
        /\ z.sendBuf.sent = 0 /\ z.snT = FirstNumber /\ z.csR = 0 /\ ~ z.temp
        /\ z.opposite = cn.nSendMax /\ z.inbox = <<>> /\ z.recvBuf = <<>> /\ z.fatal = "None"
    BY <1>1, <1>3 DEF Blank, EmptyBuffer
  <2>2. cn.nSendMax \in Nat /\ cn.nSendMax >= 2
    <3>1. cn.nSendMax \in 2 .. MaxNSendMax
      BY DEF ConnInv, Connection
    <3> QED
      BY <3>1, SizesKnown
  <2>3. Used(z) < SendBufferSize /\ "ConnReq" \in MessageTypes
    BY <2>1, SizesKnown DEF Used, MessageTypes
  <2>4. PICK a : /\ ConnInv(a) /\ Alike(z, a) /\ a.fatal = z.fatal
                 /\ a.snT = Plus(z.snT, 1)
                 /\ a.sendBuf.msgs = Append(z.sendBuf.msgs, NewMessage(z, "ConnReq", cn.nSendMax))
                 /\ a.sendBuf.sent = z.sendBuf.sent
                 /\ SendMessage(z, "ConnReq", cn.nSendMax, at) = SendPendingMessages(a, at)
    BY <2>1, <2>2, <2>3, MessageAdded
  <2>5. /\ ConnInv(o) /\ Alike(a, o) /\ o.fatal = a.fatal /\ o.snT = a.snT
        /\ o.sendBuf.msgs = a.sendBuf.msgs /\ o.sendBuf.sent = SentWithFlowControl(a)
    BY <1>1, <1>3, <2>4, PendingSent
  <2>6. Used(a) = 1 /\ Used(o) = 1
    BY <2>1, <2>4, <2>5 DEF Used
  <2>7. o.sendBuf.sent = 1
    <3>1. GetUsedBufferEntries(a.sendBuf) = 1 /\ a.opposite = cn.nSendMax
      BY <2>1, <2>4, <2>6 DEF Used, GetUsedBufferEntries, Alike
    <3> QED
      BY <2>1, <2>2, <2>4, <2>5, <3>1 DEF SentWithFlowControl, Min2
  <2>8. Asking(o) /\ o.inbox = <<>>
    BY <2>1, <2>4, <2>5, <2>6, <2>7 DEF Alike, Asking
  <2> QED
    BY <2>8 DEF o
<1> QED
  BY <1>2, <1>3

(* A call ends, or data is read.                                           *)
LEMMA QueuesSound ==
  ASSUME NEW cn, NEW M, Sound(cn, M)
  PROVE  /\ Sound(CallEnded(cn), M) /\ (AllSent(cn) => AllSent(CallEnded(cn)))
         /\ CallEnded(cn).fatal = cn.fatal /\ CallEnded(cn).state = cn.state
         /\ cn.recvBuf # <<>> => Sound(ReadData(cn), M)
<1>1. ConnInv(cn) /\ cn \in Connection
  BY SoundConn
<1>2. ConnInv(CallEnded(cn))
  BY <1>1, CallEndedKeeps
<1>3. /\ Inside(cn, CallEnded(cn)) /\ CallEnded(cn).fatal = cn.fatal
      /\ CallEnded(cn).state = cn.state /\ CallEnded(cn).inbox = cn.inbox
      /\ CallEnded(cn).recvBuf = cn.recvBuf
  BY <1>1 DEF Inside, Connection, CallEnded
<1>4. Sound(CallEnded(cn), M)
  BY <1>2, <1>3, SoundSame
<1>5. AllSent(cn) => AllSent(CallEnded(cn))
  BY <1>3 DEF AllSent, Inside, Used
<1>6. ASSUME cn.recvBuf # <<>>
      PROVE  Sound(ReadData(cn), M)
  <2>1. ConnInv(ReadData(cn))
    BY <1>1, <1>6, ReadDataKeeps
  <2>2. /\ Inside(cn, ReadData(cn)) /\ ReadData(cn).fatal = cn.fatal
        /\ ReadData(cn).state = cn.state /\ ReadData(cn).inbox = cn.inbox
    BY <1>1 DEF Inside, Connection, ReadData
  <2> QED
    BY <1>6, <2>1, <2>2, SoundSame
<1> QED
  BY <1>3, <1>4, <1>5, <1>6

(* Misled about more.                                                      *)
LEMMA SoundMore ==
  ASSUME NEW cn, NEW M, Sound(cn, M), NEW N, M \subseteq N
  PROVE  Sound(cn, N)
BY DEF Sound, Closed, Fits, Fit, Safe, Allowed

-----------------------------------------------------------------------------
(* The messages of the peer.                                               *)

(* A message that waits is among those GetNumberOfMessagesToSend counts.   *)
LEMMA WaitingIsUnsent ==
  ASSUME NEW b \in SendBuffer, NEW type, Waits(b, type)
  PROVE  \E i \in DOMAIN Unsent(b) : Unsent(b)[i].type = type
<1>1. b.msgs \in Seq(Message) /\ Len(b.msgs) \in Nat /\ b.sent \in Nat /\ b.sent <= Len(b.msgs)
  BY SendBufferType
<1>2. PICK i \in b.sent + 1 .. Len(b.msgs) : b.msgs[i].type = type
  BY DEF Waits, UnsentAt
<1>3. i - b.sent \in 1 .. Len(b.msgs) - b.sent /\ b.sent + 1 + (i - b.sent) - 1 = i
  BY <1>1, <1>2
<1>4. i - b.sent \in DOMAIN Unsent(b) /\ Unsent(b)[i - b.sent] = b.msgs[i]
  <2>1. /\ b.sent + 1 \in Int /\ Len(b.msgs) \in Int
        /\ \A j \in b.sent + 1 .. Len(b.msgs) : b.msgs[j] \in Message
    BY <1>1, SendBufferType
  <2>2. /\ Unsent(b) \in Seq(Message)
        /\ Len(Unsent(b)) = IF b.sent + 1 <= Len(b.msgs) THEN Len(b.msgs) - (b.sent + 1) + 1 ELSE 0
        /\ \A j \in 1 .. Len(b.msgs) - (b.sent + 1) + 1 : Unsent(b)[j] = b.msgs[b.sent + 1 + j - 1]
    BY <2>1, SubSeqProperties DEF Unsent
  <2>3. i - b.sent \in 1 .. Len(b.msgs) - (b.sent + 1) + 1 /\ b.sent + 1 <= Len(b.msgs)
    BY <1>1, <1>2
  <2>4. Unsent(b)[i - b.sent] = b.msgs[b.sent + 1 + (i - b.sent) - 1]
    BY <2>2, <2>3
  <2>5. DOMAIN Unsent(b) = 1 .. Len(b.msgs) - (b.sent + 1) + 1
    BY <2>2, <2>3
  <2> QED
    BY <1>3, <2>3, <2>4, <2>5
<1> QED
  BY <1>2, <1>4

(* Whatever is wrong with a message of the peer, it tells the size of its  *)
(* received buffer; and a message that does not confirm what was sent, or  *)
(* asks too early, is counted among those that mislead this end.           *)
LEMMA ArrivingHonest ==
  ASSUME IInv, NEW m \in Arriving, NEW M
  PROVE  m \in PDU /\ Agrees(m) /\ Honest(c, m, M \cup Misleads(m))
<1>1. ConnInv(c) /\ c \in Connection /\ ticks \in Nat
  BY BeforeStep
<1>2. m \in PDU
  BY <1>1, ArrivingType
<1>3. Agrees(m)
  <2>1. CASE m \in Damaged
    <3>1. m.type = "Hb"
      BY <2>1 DEF Damaged, Due
    <3> QED
      BY <3>1 DEF Agrees
  <2>2. ASSUME NEW type \in MessageTypes, m \in Variants(Due(c, type))
        PROVE  Agrees(m)
    <3>1. m.type = Due(c, type).type /\ m.payload = Due(c, type).payload
      BY <2>2 DEF Variants, Due
    <3> QED
      BY <3>1 DEF Agrees, Due
  <2> QED
    BY <2>1, <2>2 DEF Arriving
<1>4. ASSUME "InvalidSequenceNumber" \notin M \cup Misleads(m), Confirming(m)
      PROVE  Minus(m.cs, c.csR) <= Minus(LastSent, c.csR)
  <2>1. ~ (Minus(m.cs, c.csR) > Minus(LastSent, c.csR))
    BY <1>4 DEF Misleads, Confirming
  <2>2. m.cs \in SeqNums /\ c.csR \in SeqNums /\ LastSent \in SeqNums
    <3>1. m.cs \in SeqNums
      BY <1>2 DEF PDU
    <3>2. /\ c.snT \in SeqNums /\ c.csR \in SeqNums
          /\ GetNumberOfMessagesToSend(c.sendBuf) \in 0 .. Used(c)
          /\ Used(c) \in 0 .. SendBufferSize
      BY <1>1, ConnParts
    <3>3. 1 + GetNumberOfMessagesToSend(c.sendBuf) \in SeqNums
      BY <3>2, SizesKnown DEF SeqNums
    <3> QED
      BY <3>1, <3>2, <3>3, PlusMinusType DEF LastSent
  <2>3. Minus(m.cs, c.csR) \in Nat /\ Minus(LastSent, c.csR) \in Nat
    BY <2>2, DistanceType
  <2> QED
    BY <2>1, <2>3
<1>5. ASSUME "InternalError" \notin M \cup Misleads(m), m.type = "RetrReq"
      PROVE  /\ ~ Waits(c.sendBuf, "RetrResp")
             /\ \A i \in DOMAIN c.inbox : c.inbox[i].type # "RetrReq"
  <2>1. /\ ~ \E i \in DOMAIN Unsent(c.sendBuf) : Unsent(c.sendBuf)[i].type = "RetrResp"
        /\ ~ \E i \in DOMAIN c.inbox : c.inbox[i].type = "RetrReq"
    BY <1>5 DEF Misleads
  <2> QED
    BY <1>1, <2>1, ConnParts, WaitingIsUnsent
<1> QED
  BY <1>2, <1>3, <1>4, <1>5 DEF Honest, LastSent

(* A message of the handshake misleads nobody.                             *)
LEMMA DueHonest ==
  ASSUME NEW p, ConnInv(p), p.state # "Closed", ticks \in Nat,
         NEW type \in MessageTypes \ {"RetrReq"}, type = "ConnReq" \/ AllSent(p), NEW M
  PROVE  LET m == Due(p, type) IN m \in PDU /\ Agrees(m) /\ Honest(p, m, M)
<1> DEFINE m == Due(p, type)
<1>1. m \in PDU
  BY DueType DEF ConnInv
<1>2. Agrees(m) /\ m.type = type
  BY DEF Agrees, Due
<1>3. ASSUME type # "ConnReq"
      PROVE  Minus(m.cs, p.csR)
               <= Minus(Minus(p.snT, 1 + GetNumberOfMessagesToSend(p.sendBuf)), p.csR)
  <2>1. p.sendBuf.sent = Used(p)
    BY <1>3 DEF AllSent
  <2>2. GetNumberOfMessagesToSend(p.sendBuf) = 0
    BY <2>1, ConnParts
  <2>3. m.cs = Minus(p.snT, 1 + GetNumberOfMessagesToSend(p.sendBuf))
    BY <1>3, <2>2 DEF Due
  <2>4. m.cs \in SeqNums /\ p.csR \in SeqNums
    BY <1>1, ConnParts DEF PDU
  <2>5. Minus(m.cs, p.csR) \in Nat
    BY <2>4, DistanceType
  <2> QED
    BY <2>3, <2>5
<1> HIDE DEF m
<1>4. Honest(p, m, M)
  BY <1>2, <1>3 DEF Honest, Confirming
<1> QED
  BY <1>1, <1>2, <1>4 DEF m

-----------------------------------------------------------------------------
(* The invariant.                                                          *)

(* What may fail.                                                          *)
Threats == misled \cup Exposed

(* The messages that wait are in order, and what they could violate is     *)
(* recorded.                                                               *)
MessagesInv == IInv /\ Sound(c, Threats)

(* What a call leaves behind.                                              *)
LEMMA BecomesSound ==
  ASSUME NEW p, NEW M, Sound(p, M), Becomes(p), Threats' = M
  PROVE  Sound(c, Threats)'
<1>1. Sound(CallEnded(p), M)
  BY QueuesSound
<1>2. c' = CallEnded(p)
  BY DEF Becomes
<1> QED
  BY <1>1, <1>2 DEF Sound, Closed, Fits, Fit, Safe, Allowed, Waiting, Asking, Settled

(* The connection when it was opened, and after each of the peer's         *)
(* messages.                                                               *)
LEMMA InitSound ==
  ASSUME Init
  PROVE  Sound(c, Threats)
<1>1. ticks = 0 /\ ticks \in Nat /\ now \in SeqNums /\ Threats = Exposed
  <2>1. ticks = 0 /\ ticks \in Nat /\ misled = {}
    BY DEF Init
  <2> QED
    BY <2>1, TimeType DEF now, TimeAt, Threats
<1>2. PICK server \in BOOLEAN :
        LET after == DuringHandshake(server)
            p == after[Len(Handshake(server))]
        IN  c = CallEnded(p)
  BY DEF Init
<1> DEFINE after == DuringHandshake(server)
           messages == Handshake(server)
           N == Len(messages)
           p == after[N]
           i == InitialConnection(server, Config.n_send_max)
           o == OpenConnection(i, FirstNumber, now)
<1>3. c = CallEnded(p)
  BY <1>2
<1>4. /\ after[0] = CallEnded(o)
      /\ after[1] = Notified(after[0], Due(after[0], messages[1]))
      /\ server => after[2] = Notified(after[1], Due(after[1], messages[2]))
  BY HandshakeSteps
<1>5. ConnInv(i) /\ i.state = "Closed" /\ i.fatal = "None" /\ i.server = server
  <2>1. Config.n_send_max \in 2 .. MaxNSendMax
    BY SendMaxKnown
  <2> QED
    BY <2>1, InitialConnectionGood DEF InitialConnection
<1> HIDE DEF i
<1>6. (Waiting(o) \/ Asking(o)) /\ o.inbox = <<>>
  BY <1>1, <1>5, OpenSound
<1>7. (server => Waiting(o)) /\ (~ server => Asking(o))
  <2>1. Opens(i, o, now)
    BY <1>1, <1>5, OpenConnectionOpens, EndpointAssumption
  <2>2. o.server = server
    BY <1>5, <2>1 DEF Opens
  <2> QED
    BY <1>6, <2>2 DEF Waiting, Asking
<1> HIDE DEF o
<1> DEFINE e == after[0]
<1>8. /\ (Waiting(e) /\ server) \/ (Asking(e) /\ ~ server)
      /\ e.inbox = <<>> /\ e.state # "Closed" /\ ConnInv(e)
      /\ e.sendBuf.sent = Used(e)
  <2>1. ConnInv(e) /\ SameButQueues(o, e) /\ e.inbox = o.inbox /\ e.recvBuf = o.recvBuf
    BY <1>4, <1>6, CallEndedKeeps DEF Waiting, Asking
  <2>2. Inside(o, e) /\ e.fatal = o.fatal /\ e.state = o.state
    <3>1. o \in Connection
      BY <1>6 DEF Waiting, Asking, ConnInv
    <3> QED
      BY <1>4, <3>1 DEF CallEnded, Connection, Inside
  <2>3. Waiting(o) => Waiting(e)
    BY <2>1, <2>2 DEF Waiting, Inside, Used
  <2>4. Asking(o) => Asking(e)
    BY <2>1, <2>2 DEF Asking, Inside, Used
  <2>5. e.sendBuf.sent = Used(e) /\ e.state # "Closed"
    <3> HIDE DEF e
    <3>1. \A q : Waiting(q) => q.sendBuf.sent = 0 /\ q.sendBuf.msgs = <<>> /\ q.state = "Down"
      BY DEF Waiting, EmptyBuffer
    <3>2. \A q : Asking(q) => q.sendBuf.sent = Used(q) /\ q.state = "Start"
      BY DEF Asking
    <3>3. Len(<<>>) = 0
      OBVIOUS
    <3> QED
      BY <1>6, <2>3, <2>4, <3>1, <3>2, <3>3 DEF Used
  <2> QED
    BY <1>6, <1>7, <2>1, <2>3, <2>4, <2>5
<1> HIDE DEF after
<1>9. /\ N \in {1, 2}
      /\ server => N = 2 /\ messages[1] = "ConnReq" /\ messages[2] = "Hb"
      /\ ~ server => N = 1 /\ messages[1] = "ConnResp"
  <2>1. CASE server
    BY <2>1 DEF Handshake
  <2>2. CASE ~ server
    BY <2>2 DEF Handshake
  <2> QED
    BY <2>1, <2>2
<1> HIDE DEF messages
<1> DEFINE m == Due(e, messages[1])
<1>10. m \in PDU /\ Agrees(m) /\ Honest(e, m, Exposed)
  <2>1. /\ messages[1] \in MessageTypes \ {"RetrReq"}
    BY <1>9 DEF MessageTypes
  <2>2. AllSent(e)
    BY <1>8 DEF AllSent
  <2> QED
    BY <1>1, <1>8, <2>1, <2>2, DueHonest
<1> HIDE DEF e, m
<1>11. Sound(e, Exposed)
  BY <1>8 DEF Sound
<1>12. Sound(after[1], Exposed) /\ (server => AllSent(after[1]))
  <2>1. after[1] = MessageReceivedNotification([e EXCEPT !.inbox = Append(@, m)], now)
    BY <1>4 DEF Notified, e, m
  <2>2. /\ Sound(after[1], Exposed) /\ (Waiting(e) => AllSent(after[1]))
    <3>1. LET r == MessageReceivedNotification([e EXCEPT !.inbox = Append(@, m)], now)
          IN  Sound(r, Exposed) /\ (Waiting(e) => AllSent(r))
      BY <1>1, <1>8, <1>10, <1>11, NotifiedSound
    <3> QED
      BY <2>1, <3>1
  <2> QED
    BY <1>8, <2>2
<1>13. CASE ~ server
  BY <1>1, <1>3, <1>9, <1>12, <1>13, QueuesSound
<1>14. CASE server
  <2> DEFINE f == after[1]
             second == Due(f, "Hb")
  <2>1. ConnInv(f)
    BY <1>12, SoundConn
  <2>2. f.state # "Closed"
    <3>1. Found(NoDiagnostics, now)
      BY <1>1, NoDiagnosticsGood DEF Found
    <3>2. During(e, e, NoDiagnostics, now) /\ e \in Connection
      <4>1. LET a == CallEnded(OpenConnection(i, FirstNumber, now))
            IN  EndGood(a, NoDiagnostics, 0, 0)
        <5>1. i.calls = <<>> /\ FirstNumber \in SeqNums
          BY EndpointAssumption DEF i, InitialConnection
        <5> QED
          BY <1>1, <1>5, <5>1, OpenedGood
      <4>2. EndGood(e, NoDiagnostics, 0, 0)
        BY <1>4, <4>1 DEF e, o
      <4> QED
        BY <1>8, <4>2, DuringSelf DEF ConnInv
    <3>3. m.version
      BY DEF m, Due
    <3>4. e.state = "Down"
      BY <1>8, <1>14 DEF Waiting
    <3>5. MessageReceivedNotification([e EXCEPT !.inbox = Append(@, m)], now).state # "Closed"
      BY <1>8, <1>10, <3>1, <3>2, <3>3, <3>4, FirstMessageStays
    <3> QED
      BY <1>4, <3>5 DEF Notified, e, m
  <2>3. second \in PDU /\ Agrees(second) /\ Honest(f, second, Exposed)
    <3>1. "Hb" \in MessageTypes \ {"RetrReq"}
      BY DEF MessageTypes
    <3> QED
      BY <1>1, <1>12, <1>14, <2>1, <2>2, <3>1, DueHonest
  <2>4. p = Notified(f, second)
    BY <1>4, <1>9, <1>14
  <2> HIDE DEF f, second, p
  <2>5. Sound(p, Exposed)
    <3>1. Sound(f, Exposed)
      BY <1>12 DEF f
    <3> QED
      BY <1>1, <2>2, <2>3, <2>4, <3>1, NotifiedSound DEF Notified
  <2> QED
    BY <1>1, <1>3, <2>5, QueuesSound
<1> QED
  BY <1>13, <1>14

(* srapi_OpenConnection of a closed connection keeps the invariant.        *)
LEMMA OpenKeepsSound ==
  ASSUME MessagesInv, Open
  PROVE  Sound(c, Threats)'
<1> DEFINE p == OpenConnection(c, FirstNumber, now)
<1>1. c.state = "Closed" /\ c.fatal = "None" /\ c' = CallEnded(p) /\ Threats' = Exposed
  BY DEF Open, Running, Threats, Exposed
<1>2. ConnInv(c) /\ now \in SeqNums
  BY BeforeStep DEF MessagesInv
<1>3. (Waiting(p) \/ Asking(p)) /\ p.inbox = <<>>
  BY <1>1, <1>2, OpenSound
<1> HIDE DEF p
<1>4. Sound(p, Exposed)
  BY <1>3 DEF Sound
<1>5. Sound(CallEnded(p), Exposed)
  BY <1>4, QueuesSound
<1> QED
  BY <1>1, <1>5

(* The other calls of the application keep it.                             *)
LEMMA CallsKeepSound ==
  ASSUME MessagesInv, OpenAgain \/ Close \/ Send \/ Read
  PROVE  Sound(c, Threats)'
<1>1. now \in SeqNums /\ Sound(c, Threats)
  BY BeforeStep DEF MessagesInv
<1>2. CASE OpenAgain
  <2>1. c.state # "Closed" /\ Becomes(OpenConnection(c, FirstNumber, now)) /\ Threats' = Threats
    BY <1>2 DEF OpenAgain, Threats, Exposed
  <2>2. Sound(OpenConnection(c, FirstNumber, now), Threats)
    BY <1>1, <2>1, CloseCallSound
  <2> QED
    BY <2>1, <2>2, BecomesSound
<1>3. CASE Close
  <2>1. c.state # "Closed" /\ Becomes(CloseConnectionCall(c, now)) /\ Threats' = Threats
    BY <1>3 DEF Close, Threats, Exposed
  <2>2. Sound(CloseConnectionCall(c, now), Threats)
    BY <1>1, <2>1, CloseCallSound
  <2> QED
    BY <2>1, <2>2, BecomesSound
<1>4. CASE Send
  <2>1. c.fatal = "None" /\ SendDataTakes(c) /\ Becomes(SendData(c, 0, now)) /\ Threats' = Threats
    BY <1>4 DEF Send, Running, Threats, Exposed
  <2>2. Sound(SendData(c, 0, now), Threats)
    BY <1>1, <2>1, SendDataSound
  <2> QED
    BY <2>1, <2>2, BecomesSound
<1>5. CASE Read
  <2>1. c.recvBuf # <<>> /\ Becomes(ReadData(c)) /\ Threats' = Threats
    BY <1>5 DEF Read, Threats, Exposed
  <2>2. Sound(ReadData(c), Threats)
    BY <1>1, <2>1, QueuesSound
  <2> QED
    BY <2>1, <2>2, BecomesSound
<1> QED
  BY <1>2, <1>3, <1>4, <1>5

(* A message that arrives keeps it: what it could violate is recorded.     *)
LEMMA ArriveKeepsSound ==
  ASSUME MessagesInv, Arrive
  PROVE  Sound(c, Threats)'
<1>1. PICK m \in Arriving : /\ Becomes(Notified(c, m))
                            /\ misled' = misled \cup Misleads(m)
  BY DEF Arrive, Receive
<1> DEFINE more == Threats \cup Misleads(m)
<1>2. /\ now \in SeqNums /\ Sound(c, Threats) /\ c.state # "Closed"
      /\ Threats \subseteq more /\ Exposed \subseteq more
  BY BeforeStep DEF MessagesInv, Arrive, Threats
<1>3. m \in PDU /\ Agrees(m) /\ Honest(c, m, more)
  BY ArrivingHonest DEF MessagesInv
<1>4. Becomes(Notified(c, m)) /\ Threats' = more
  BY <1>1 DEF Threats, Exposed
<1> HIDE DEF more
<1>5. Sound(Notified(c, m), more)
  BY <1>2, <1>3, NotifiedSound DEF Notified
<1> QED
  BY <1>4, <1>5, BecomesSound

(* srapi_CheckTimings keeps it.                                            *)
LEMMA TimingsKeepSound ==
  ASSUME MessagesInv, CallCheckTimings
  PROVE  Sound(c, Threats)'
<1>1. Becomes(CheckTimings(c, now)) /\ Threats' = Threats
  BY DEF CallCheckTimings, Threats, Exposed
<1>2. Sound(CheckTimings(c, now), Threats)
  BY BeforeStep, CheckTimingsSound DEF MessagesInv, Threats
<1> QED
  BY <1>1, <1>2, BecomesSound

(* Steps that leave the connection alone keep it.                          *)
LEMMA SameKeepsSound ==
  ASSUME MessagesInv, c' = c, Threats' = Threats
  PROVE  Sound(c, Threats)'
BY DEF MessagesInv, Sound, Closed, Fits, Fit, Safe, Allowed, Waiting, Asking, Settled

(* No message stops the program unless it confirms what was never sent, or *)
(* asks for a retransmission while another request is under way, or it is  *)
(* one of the assertions of Exposed: the assertions of                     *)
(* srcor_HandleRetrReq, srsend and srrece hold in every order in which     *)
(* messages arrive and the application calls.                              *)
THEOREM NoMessageStopsTheProgram == Spec => []NoMessageStops
<1>1. Init => MessagesInv
  BY InitGood, InitSound DEF MessagesInv
<1>2. MessagesInv /\ [Next]_vars => MessagesInv'
  <2> SUFFICES ASSUME MessagesInv, [Next]_vars
               PROVE  MessagesInv'
    OBVIOUS
  <2>1. IInv'
    BY OpenKeeps, OpenAgainKeeps, CloseKeeps, SendKeeps, ReadKeeps, ArriveKeeps,
       CallCheckTimingsKeeps, TickKeeps, StutterKeeps DEF Next, MessagesInv
  <2>2. CASE Open
    BY <2>1, <2>2, OpenKeepsSound DEF MessagesInv
  <2>3. CASE OpenAgain \/ Close \/ Send \/ Read
    BY <2>1, <2>3, CallsKeepSound DEF MessagesInv
  <2>4. CASE Arrive
    BY <2>1, <2>4, ArriveKeepsSound DEF MessagesInv
  <2>5. CASE CallCheckTimings
    BY <2>1, <2>5, TimingsKeepSound DEF MessagesInv
  <2>6. CASE Tick \/ UNCHANGED vars
    <3>1. c' = c /\ Threats' = Threats
      BY <2>6 DEF Tick, vars, Threats, Exposed
    <3> QED
      BY <2>1, <3>1, SameKeepsSound DEF MessagesInv
  <2> QED
    BY <2>2, <2>3, <2>4, <2>5, <2>6 DEF Next
<1>3. MessagesInv => NoMessageStops
  BY SoundConn DEF MessagesInv, Allowed, NoMessageStops, Threats
<1> QED
  BY <1>1, <1>2, <1>3, PTL DEF Spec
=============================================================================

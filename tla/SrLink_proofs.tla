--------------------------- MODULE SrLink_proofs ---------------------------
(***************************************************************************)
(* What holds at both ends of a RaSTA connection, whatever is lost or late *)
(* between them, for every size of the buffers, width of the numbers and   *)
(* number of sessions: the types, numbers without a gap in the buffers the *)
(* ends retransmit from, and room for each message that is received.       *)
(***************************************************************************)
EXTENDS SrLink, SrConnection_proofs

-----------------------------------------------------------------------------
(* One end.                                                                *)

(* What every call leaves behind: a redundancy channel that is closed      *)
(* holds no message.                                                       *)
EndInv(p) == ConnInv(p) /\ (p.state = "Closed" => p.inbox = <<>>)

(* q comes from p, and is not opened by that.                              *)
Leaves(p, q) == EndInv(q) /\ (p.state = "Closed" => q.state = "Closed")

(* So it is from step to step.                                             *)
LEMMA LeavesTransitive ==
  ASSUME NEW p, NEW q, NEW r, Leaves(p, q), Leaves(q, r)
  PROVE  Leaves(p, r)
BY DEF Leaves

(* Closing does so, and what is quiet.                                     *)
LEMMA QuietLeaves ==
  ASSUME NEW p, EndInv(p), NEW q, Closes(p, q) \/ Quiet(p, q)
  PROVE  Leaves(p, q)
<1>1. CASE Closes(p, q)
  BY <1>1 DEF Closes, Continues, Leaves, EndInv
<1>2. CASE Quiet(p, q)
  <2>1. p.state = "Closed" <=> q.state = "Closed"
    BY <1>2 DEF Quiet, StaysOpen, OpenStates
  <2> QED
    BY <1>2, <2>1 DEF Quiet, Continues, Leaves, EndInv
<1> QED
  BY <1>1, <1>2

(* So does whatever a message makes of a connection that is not closed.    *)
LEMMA GoesLeaves ==
  ASSUME NEW p, EndInv(p), p.state # "Closed", NEW q, NEW t, Goes(p, q, t)
  PROVE  Leaves(p, q)
<1>1. CASE Closes(p, q) \/ Quiet(p, q)
  BY <1>1, QuietLeaves
<1>2. CASE Lives(p, q, t)
  BY <1>2 DEF Lives, Continues, OpenStates, Leaves, EndInv
<1>3. CASE Starts(p, q, t)
  BY <1>3 DEF Starts, Continues, Leaves, EndInv
<1> QED
  BY <1>1, <1>2, <1>3 DEF Goes

(* An iteration of the receive loop.                                       *)
LEMMA IterationLeaves ==
  ASSUME NEW p, EndInv(p), ReceivingGoesOn(p), NEW t \in SeqNums
  PROVE  Leaves(p, ReceiveOne(p, t))
<1>1. CASE p.inbox = <<>>
  <2>1. Quiet(p, ReceiveOne(p, t))
    BY <1>1, PendingQuiet DEF ReceiveOne, EndInv
  <2> QED
    BY <2>1, QuietLeaves
<1>2. CASE p.inbox # <<>>
  <2>1. p.state # "Closed" /\ ConnInv(p)
    BY <1>2 DEF EndInv
  <2>2. PICK r, errors :
           /\ errors \in Seq([call : ErrorNames])
           /\ Reads(p, r, Head(p.inbox), errors)
           /\ ReceiveOne(p, t) = r \/ Goes(r, ReceiveOne(p, t), t)
    BY <1>2, <2>1, ReceiveOneReads
  <2>3. ConnInv(r) /\ r.state = p.state
    BY <2>2 DEF Reads
  <2>4. EndInv(r) /\ r.state # "Closed" /\ Leaves(p, r)
    BY <2>1, <2>3 DEF EndInv, Leaves
  <2>5. CASE ReceiveOne(p, t) = r
    BY <2>4, <2>5
  <2>6. CASE Goes(r, ReceiveOne(p, t), t)
    <3>1. Leaves(r, ReceiveOne(p, t))
      BY <2>4, <2>6, GoesLeaves
    <3> QED
      BY <2>4, <3>1, LeavesTransitive
  <2> QED
    BY <2>2, <2>5, <2>6
<1> QED
  BY <1>1, <1>2

(* The receive loop.                                                       *)
LEMMA LoopLeaves ==
  ASSUME NEW p, EndInv(p), NEW t \in SeqNums
  PROVE  Leaves(p, ReceiveLoop(p, t))
<1> DEFINE S == {r \in Connection : Leaves(p, r)}
<1>1. p \in S /\ ConnInv(p)
  BY DEF EndInv, ConnInv, Leaves
<1>2. KeptByIteration(S, t)
  <2> SUFFICES ASSUME NEW r \in S, ReceivingGoesOn(r)
               PROVE  ReceiveOne(r, t) \in S
    BY DEF KeptByIteration
  <2>1. Leaves(p, r) /\ EndInv(r)
    BY DEF Leaves
  <2>2. Leaves(r, ReceiveOne(r, t))
    BY <2>1, IterationLeaves
  <2>3. Leaves(p, ReceiveOne(r, t))
    BY <2>1, <2>2, LeavesTransitive
  <2> QED
    BY <2>3 DEF Leaves, EndInv, ConnInv
<1> HIDE DEF S
<1>3. ReceiveLoop(p, t) \in S
  BY <1>1, <1>2, LoopKeeps
<1> QED
  BY <1>3 DEF S

-----------------------------------------------------------------------------
(* The calls of one end.                                                   *)

(* sradno_MessageReceivedNotification                                      *)
LEMMA NotifiedLeaves ==
  ASSUME NEW p, EndInv(p), p.state # "Closed", NEW m \in PDU, NEW t \in SeqNums
  PROVE  Leaves(p, MessageReceivedNotification([p EXCEPT !.inbox = Append(@, m)], t))
<1> DEFINE r == [p EXCEPT !.inbox = Append(@, m)]
           u == [r EXCEPT !.pending = TRUE]
<1>1. ConnInv(r) /\ SameButQueues(p, r)
  BY ArrivedKeeps DEF EndInv
<1>2. MessageReceivedNotification(r, t) = ReceiveLoop(u, t)
  BY DEF MessageReceivedNotification
<1>3. Quiet(r, u)
  BY <1>1, PendingQuiet
<1> HIDE DEF r, u
<1>4. EndInv(r) /\ Leaves(p, r)
  BY <1>1 DEF EndInv, Leaves, SameButQueues
<1>5. Leaves(r, u) /\ EndInv(u)
  BY <1>3, <1>4, QuietLeaves DEF Leaves
<1>6. Leaves(u, ReceiveLoop(u, t))
  BY <1>5, LoopLeaves
<1>7. Leaves(p, ReceiveLoop(u, t))
  BY <1>4, <1>5, <1>6, LeavesTransitive
<1> QED
  BY <1>2, <1>7 DEF r

(* srapi_CheckTimings                                                      *)
LEMMA CheckTimingsLeaves ==
  ASSUME NEW p, EndInv(p), NEW t \in SeqNums
  PROVE  Leaves(p, CheckTimings(p, t))
<1> DEFINE r == ReceiveLoop(p, t)
<1>1. Leaves(p, r) /\ EndInv(r) /\ ConnInv(r)
  BY LoopLeaves DEF Leaves, EndInv
<1>2. CheckTimings(p, t) = CheckTimers(r, t)
  BY DEF CheckTimings
<1> HIDE DEF r
<1>3. Leaves(r, CheckTimers(r, t))
  BY <1>1, CheckTimersEffect, QuietLeaves
<1> QED
  BY <1>1, <1>2, <1>3, LeavesTransitive

(* srapi_CloseConnection and srapi_SendData                                *)
LEMMA OtherCallsLeave ==
  ASSUME NEW p, EndInv(p), p.state # "Closed", NEW t \in SeqNums
  PROVE  /\ Leaves(p, CloseConnectionCall(p, t))
         /\ \A payload \in Nat : Leaves(p, SendData(p, payload, t))
<1>1. ConnInv(p)
  BY DEF EndInv
<1>2. Closes(p, CloseConnectionCall(p, t))
  BY <1>1, CloseCallCloses
<1>3. \A payload \in Nat : Closes(p, SendData(p, payload, t)) \/ Quiet(p, SendData(p, payload, t))
  BY <1>1, SendDataEffect
<1> QED
  BY <1>2, <1>3, QuietLeaves

(* srapi_ReadData, and the end of a call.                                  *)
LEMMA QueuesLeave ==
  ASSUME NEW p, EndInv(p)
  PROVE  /\ Leaves(p, CallEnded(p)) /\ CallEnded(p).state = p.state
         /\ p.recvBuf # <<>> => Leaves(p, ReadData(p))
<1>1. ConnInv(p)
  BY DEF EndInv
<1>2. /\ ConnInv(CallEnded(p)) /\ SameButQueues(p, CallEnded(p))
      /\ CallEnded(p).inbox = p.inbox
  BY <1>1, CallEndedKeeps
<1>3. p.recvBuf # <<>> => /\ ConnInv(ReadData(p)) /\ SameButQueues(p, ReadData(p))
                         /\ ReadData(p).inbox = p.inbox
  BY <1>1, ReadDataKeeps
<1> QED
  BY <1>2, <1>3 DEF SameButQueues, Leaves, EndInv

-----------------------------------------------------------------------------
(* Both ends.                                                              *)

(* The inductive invariant: beyond the types, each end is as its calls     *)
(* leave it, and an end that is not closed is in one of its sessions.      *)
LinkInv ==
  /\ TypeOK
  /\ \A s \in Sides : EndInv(conn[s])
  /\ \A s \in Sides : conn[s].state # "Closed" => log[s] # <<>>

(* Data that is received finds room, at both ends.                         *)
ReceivedDataFits ==
  \A s \in Sides : /\ Len(conn[s].recvBuf) <= conn[s].nSendMax
                   /\ conn[s].fatal # "ReceiveBufferFull"

(* The messages an end retransmits from are numbered without a gap, up to  *)
(* the last one it gave a number.                                          *)
NumbersWithoutGap == \A s \in Sides : Gapless(conn[s].sendBuf, conn[s].snT)

(* The time is a number of the width of the timer.                         *)
LEMMA NowType ==
  ASSUME TypeOK
  PROVE  now \in SeqNums
<1>1. ticks \in Nat /\ MaxTicks \in Nat
  BY SrLinkAssumption DEF TypeOK
<1>2. StartTime + ticks \in Int /\ SeqMod \in Nat /\ SeqMod > 0
  BY <1>1, SrLinkAssumption, SizesKnown DEF SeqNums
<1> QED
  BY <1>2, Quotient DEF now, SeqNums

(* What is counted is a number.                                            *)
LEMMA DataSentType ==
  ASSUME TypeOK, NEW s \in Sides
  PROVE  DataSent(s) \in Nat
<1> DEFINE N == MaxOpens
           more(n) == IF n <= Len(log[s]) THEN Len(log[s][n]) ELSE 0
           Value(f, n) == IF n = 0 THEN 0
                          ELSE f[n - 1] + IF n <= Len(log[s]) THEN Len(log[s][n]) ELSE 0
           count == CHOOSE f : f = [n \in 0 .. N |-> Value(f, n)]
           G == [n \in 1 .. N |-> [k \in Nat |-> k + more(n)]]
           H == {n \in 0 .. N : count[n] \in Nat}
<1>1. N \in Nat /\ \A n \in 1 .. N : more(n) \in Nat
  <2>1. N \in Nat /\ log[s] \in Seq(Seq(Nat))
    BY SrLinkAssumption DEF TypeOK
  <2>2. Len(log[s]) \in Nat /\ \A n \in 1 .. Len(log[s]) : log[s][n] \in Seq(Nat)
    BY <2>1
  <2>3. \A n \in 1 .. N : n <= Len(log[s]) => Len(log[s][n]) \in Nat
    BY <2>1, <2>2
  <2> QED
    BY <2>1, <2>3
<1>2. DataSent(s) = count[N]
  BY DEF DataSent
<1> HIDE DEF N, more
<1>3. \E f : f = [n \in 0 .. N |-> Value(f, n)]
  <2>1. G \in [1 .. N -> [Nat -> Nat]]
    BY <1>1
  <2> HIDE DEF G
  <2>2. PICK f : Iterates(f, Nat, 0, N, G)
    BY <1>1, <2>1, Iteration
  <2>3. ASSUME NEW n \in 0 .. N
        PROVE  f[n] = Value(f, n)
    <3>1. CASE n = 0
      BY <2>2, <3>1 DEF Iterates
    <3>2. CASE n # 0
      <4>1. n \in 1 .. N /\ n - 1 \in 0 .. N
        BY <1>1, <3>2
      <4>2. f[n - 1] \in Nat
        BY <2>2, <4>1 DEF Iterates
      <4>3. f[n] = f[n - 1] + more(n)
        BY <2>2, <4>1, <4>2 DEF G, Iterates
      <4> QED
        BY <3>2, <4>3 DEF more
    <3> QED
      BY <3>1, <3>2
  <2>4. f = [n \in 0 .. N |-> Value(f, n)]
    BY <2>2, <2>3 DEF Iterates
  <2> QED
    BY <2>4
<1>4. count = [n \in 0 .. N |-> Value(count, n)]
  BY <1>3
<1> HIDE DEF count
<1>5. count[0] = 0 /\ \A n \in 1 .. N : count[n] = count[n - 1] + more(n)
  BY <1>1, <1>4 DEF more
<1>6. 0 \in H
  BY <1>1, <1>5
<1>7. ASSUME NEW n \in 1 .. N, n - 1 \in H
      PROVE  n \in H
  BY <1>1, <1>5, <1>7
<1> HIDE DEF H
<1>8. \A n \in 0 .. N : n \in H
  BY <1>1, <1>6, <1>7, InductionUpTo
<1> QED
  BY <1>1, <1>2, <1>8 DEF H

(* The ends when they are initialised.                                     *)
LEMMA InitLinkInv == Init => LinkInv
<1> SUFFICES ASSUME Init
             PROVE  LinkInv
  OBVIOUS
<1>1. ASSUME NEW s \in Sides
      PROVE  EndInv(conn[s]) /\ conn[s].state = "Closed"
  <2> DEFINE p == InitialConnection(s = "server", NSendMax[s])
  <2>1. (s = "server") \in BOOLEAN /\ NSendMax[s] \in 2 .. MaxNSendMax
    <3>1. NSendMax[s] \in MWA + 1 .. MaxNSendMax
      BY SrLinkAssumption
    <3>2. MWA \in Nat \ {0} /\ MaxNSendMax \in Nat
      BY ConnectionAssumption
    <3> QED
      BY <3>1, <3>2
  <2>2. ConnInv(p) /\ p.state = "Closed"
    BY <2>1, InitialConnectionGood
  <2>3. p.inbox = <<>>
    BY DEF InitialConnection
  <2>4. conn[s] = p
    BY DEF Init
  <2> HIDE DEF p
  <2> QED
    BY <2>2, <2>3, <2>4 DEF EndInv
<1>2. conn \in [Sides -> Connection]
  <2>1. \A s \in Sides : conn[s] \in Connection
    BY <1>1 DEF EndInv, ConnInv
  <2>2. conn = [s \in Sides |-> InitialConnection(s = "server", NSendMax[s])]
    BY DEF Init
  <2> QED
    BY <2>1, <2>2
<1>3. net \in [Sides -> Seq(PDU)] /\ got \in [Sides -> Seq(Nat)] /\ log \in [Sides -> Seq(Seq(Nat))]
  <2>1. <<>> \in Seq(PDU) /\ <<>> \in Seq(Nat) /\ <<>> \in Seq(Seq(Nat))
    OBVIOUS
  <2> QED
    BY <2>1 DEF Init
<1>4. /\ ticks \in 0 .. MaxTicks /\ checked \subseteq Sides
      /\ losses \in 0 .. MaxLosses /\ closes \in 0 .. MaxCloses
  BY SrLinkAssumption DEF Init
<1> QED
  BY <1>1, <1>2, <1>3, <1>4 DEF LinkInv, TypeOK

-----------------------------------------------------------------------------
(* The steps.                                                              *)

(* What a call makes of its end and of what is on its way, ...             *)
Ends(s, q) == conn' = [conn EXCEPT ![s] = CallEnded(q)]
OnTheirWay == net' \in [Sides -> Seq(PDU)]

(* ... and what else a step leaves behind.                                 *)
RestTyped ==
  /\ ticks' \in 0 .. MaxTicks /\ checked' \subseteq Sides
  /\ losses' \in 0 .. MaxLosses /\ closes' \in 0 .. MaxCloses
  /\ log' \in [Sides -> Seq(Seq(Nat))] /\ got' \in [Sides -> Seq(Nat)]

(* A call that leaves its end in order keeps the invariant, if the end is  *)
(* in one of its sessions or closed.                                       *)
LEMMA CallKeeps ==
  ASSUME LinkInv, NEW s \in Sides, NEW q, EndInv(q), Ends(s, q), OnTheirWay, RestTyped,
         \A x \in Sides : log[x] # <<>> => log'[x] # <<>>,
         q.state # "Closed" => log'[s] # <<>>
  PROVE  LinkInv'
<1> DEFINE p == CallEnded(q)
<1>1. EndInv(p) /\ p.state = q.state
  BY QueuesLeave DEF Leaves
<1>2. conn' = [conn EXCEPT ![s] = p] /\ conn \in [Sides -> Connection]
  BY DEF Ends, LinkInv, TypeOK
<1>3. p \in Connection
  BY <1>1 DEF EndInv, ConnInv
<1> HIDE DEF p
<1>4. conn'[s] = p /\ \A x \in Sides \ {s} : conn'[x] = conn[x]
  BY <1>2
<1>5. conn' \in [Sides -> Connection]
  BY <1>2, <1>3
<1>6. \A x \in Sides : EndInv(conn'[x])
  BY <1>1, <1>4 DEF LinkInv
<1>7. \A x \in Sides : conn'[x].state # "Closed" => log'[x] # <<>>
  BY <1>1, <1>4 DEF LinkInv
<1>8. TypeOK'
  BY <1>5 DEF TypeOK, OnTheirWay, RestTyped
<1> QED
  BY <1>6, <1>7, <1>8 DEF LinkInv, EndInv, ConnInv, Gapless

(* What was sent in a call is on its way to the other end.                 *)
LEMMA SentOnTheirWay ==
  ASSUME LinkInv, NEW s \in Sides, NEW q, EndInv(q), Becomes(s, q)
  PROVE  Ends(s, q) /\ OnTheirWay
<1>1. q.out \in Seq(PDU)
  BY DEF EndInv, ConnInv, Connection
<1>2. Peer(s) \in Sides /\ net \in [Sides -> Seq(PDU)]
  BY DEF Peer, Sides, LinkInv, TypeOK
<1>3. net[Peer(s)] \o q.out \in Seq(PDU)
  BY <1>1, <1>2, ConcatProperties
<1>4. net' = [net EXCEPT ![Peer(s)] = net[Peer(s)] \o q.out]
  BY DEF Becomes
<1> QED
  BY <1>2, <1>3, <1>4 DEF Becomes, Ends, OnTheirWay

(* A connection that opens has nothing of an earlier session.              *)
LEMMA OpenLinkInv ==
  ASSUME LinkInv, NEW s \in Sides, Open(s)
  PROVE  LinkInv'
<1> DEFINE sn == FirstNumber[s][Len(log[s]) + 1]
           q == OpenConnection(conn[s], sn, now)
<1>1. log \in [Sides -> Seq(Seq(Nat))] /\ got \in [Sides -> Seq(Nat)]
  BY DEF LinkInv, TypeOK
<1>2. sn \in SeqNums /\ now \in SeqNums
  <2>1. Len(log[s]) \in Nat /\ MaxOpens \in Nat /\ Len(log[s]) < MaxOpens
    BY <1>1, SrLinkAssumption DEF Open
  <2>2. Len(log[s]) + 1 \in 1 .. MaxOpens
    BY <2>1
  <2>3. FirstNumber[s] \in [1 .. MaxOpens -> SeqNums]
    BY SrLinkAssumption
  <2>4. now \in SeqNums
    BY NowType DEF LinkInv
  <2> HIDE DEF SeqNums
  <2> QED
    BY <2>2, <2>3, <2>4
<1>3. ConnInv(conn[s]) /\ conn[s].state = "Closed"
  BY DEF LinkInv, EndInv, Open
<1> HIDE DEF sn
<1>4. Opens(conn[s], q, now)
  BY <1>2, <1>3, OpenConnectionOpens
<1>5. Becomes(s, q)
  BY DEF Open, sn
<1> HIDE DEF q
<1>6. EndInv(q)
  BY <1>4 DEF Opens, EndInv
<1>7. Ends(s, q) /\ OnTheirWay
  BY <1>5, <1>6, SentOnTheirWay
<1>8. /\ log' \in [Sides -> Seq(Seq(Nat))] /\ got' \in [Sides -> Seq(Nat)]
      /\ \A x \in Sides : log[x] # <<>> => log'[x] # <<>>
      /\ log'[s] # <<>>
  <2> DEFINE longer == Append(log[s], <<>>)
  <2>1. <<>> \in Seq(Nat)
    OBVIOUS
  <2>2. longer \in Seq(Seq(Nat)) /\ longer # <<>>
    BY <1>1, <2>1
  <2>3. log' = [log EXCEPT ![s] = longer] /\ got' = [got EXCEPT ![s] = <<>>]
    BY DEF Open
  <2> HIDE DEF longer
  <2> QED
    BY <1>1, <2>1, <2>2, <2>3
<1>9. RestTyped
  BY <1>8 DEF Open, LinkInv, TypeOK, RestTyped
<1> QED
  BY <1>6, <1>7, <1>8, <1>9, CallKeeps

(* An application closes the connection.                                   *)
LEMMA CloseLinkInv ==
  ASSUME LinkInv, NEW s \in Sides, Close(s)
  PROVE  LinkInv'
<1> DEFINE q == CloseConnectionCall(conn[s], now)
<1>1. EndInv(conn[s]) /\ conn[s].state # "Closed" /\ now \in SeqNums
  BY NowType DEF LinkInv, Close
<1>2. Leaves(conn[s], q)
  BY <1>1, OtherCallsLeave
<1>3. Becomes(s, q)
  BY DEF Close
<1> HIDE DEF q
<1>4. EndInv(q) /\ Ends(s, q) /\ OnTheirWay
  BY <1>2, <1>3, SentOnTheirWay DEF Leaves
<1>5. log' = log /\ log[s] # <<>>
  BY <1>1 DEF Close, LinkInv
<1>6. RestTyped
  <2>1. closes \in 0 .. MaxCloses /\ MaxCloses \in Nat /\ closes < MaxCloses
    BY SrLinkAssumption DEF LinkInv, TypeOK, Close
  <2>2. closes + 1 \in 0 .. MaxCloses
    BY <2>1
  <2> QED
    BY <2>2 DEF Close, LinkInv, TypeOK, RestTyped
<1> QED
  BY <1>4, <1>5, <1>6, CallKeeps

(* An application sends data.                                              *)
LEMMA SendLinkInv ==
  ASSUME LinkInv, NEW s \in Sides, Send(s)
  PROVE  LinkInv'
<1> DEFINE q == SendData(conn[s], DataSent(s) + 1, now)
           k == Len(log[s])
           n == DataSent(s) + 1
<1>1. EndInv(conn[s]) /\ conn[s].state # "Closed" /\ now \in SeqNums
  BY NowType DEF LinkInv, Send, Established
<1>2. n \in Nat
  <2>1. DataSent(s) \in Nat
    BY DataSentType DEF LinkInv
  <2> QED
    BY <2>1
<1>3. Leaves(conn[s], q)
  BY <1>1, <1>2, OtherCallsLeave
<1>4. Becomes(s, q)
  BY DEF Send
<1> HIDE DEF q
<1>5. EndInv(q) /\ Ends(s, q) /\ OnTheirWay
  BY <1>3, <1>4, SentOnTheirWay DEF Leaves
<1>6. log \in [Sides -> Seq(Seq(Nat))] /\ log[s] # <<>>
  BY <1>1 DEF LinkInv, TypeOK
<1>7. log' = [log EXCEPT ![s] = [log[s] EXCEPT ![k] = Append(log[s][k], n)]]
  BY <1>6 DEF Send
<1> HIDE DEF n
<1>8. /\ log' \in [Sides -> Seq(Seq(Nat))]
      /\ \A x \in Sides : log[x] # <<>> => log'[x] # <<>>
  <2> DEFINE old == log[s]
             more == Append(old[k], n)
             new == [old EXCEPT ![k] = more]
  <2>1. old \in Seq(Seq(Nat)) /\ k \in 1 .. Len(old) /\ Len(old) \in Nat /\ Len(old) > 0
    BY <1>6
  <2>2. old[k] \in Seq(Nat)
    BY <2>1
  <2>3. more \in Seq(Nat)
    BY <1>2, <2>2
  <2>4. log' = [log EXCEPT ![s] = new]
    BY <1>7
  <2> HIDE DEF old, more, k
  <2>5. new \in Seq(Seq(Nat)) /\ Len(new) = Len(old)
    BY <2>1, <2>3, ExceptSeq
  <2> HIDE DEF new
  <2>6. new # <<>>
    BY <2>1, <2>5
  <2> QED
    BY <1>6, <2>4, <2>5, <2>6
<1>9. RestTyped
  BY <1>8 DEF Send, LinkInv, TypeOK, RestTyped
<1>10. log'[s] # <<>>
  BY <1>6, <1>8
<1> QED
  BY <1>5, <1>8, <1>9, <1>10, CallKeeps

(* An application reads data.                                              *)
LEMMA ReadLinkInv ==
  ASSUME LinkInv, NEW s \in Sides, Read(s)
  PROVE  LinkInv'
<1> DEFINE q == ReadData(conn[s])
<1>1. EndInv(conn[s]) /\ conn[s].recvBuf # <<>>
  BY DEF LinkInv, Read
<1>2. Leaves(conn[s], q)
  BY <1>1, QueuesLeave
<1>3. Becomes(s, q)
  BY DEF Read
<1> HIDE DEF q
<1>4. EndInv(q) /\ Ends(s, q) /\ OnTheirWay
  BY <1>2, <1>3, SentOnTheirWay DEF Leaves
<1>5. log' = log /\ (q.state # "Closed" => log[s] # <<>>)
  BY <1>2 DEF Read, Leaves, LinkInv
<1>6. RestTyped
  <2> DEFINE m == Head(conn[s].recvBuf)
             more == Append(got[s], m)
  <2>1. conn[s].recvBuf \in Seq(Nat) /\ got \in [Sides -> Seq(Nat)]
    BY <1>1 DEF EndInv, ConnInv, Connection, LinkInv, TypeOK
  <2>2. m \in Nat
    BY <1>1, <2>1
  <2>3. got' = [got EXCEPT ![s] = more]
    BY DEF Read
  <2> HIDE DEF m
  <2>4. more \in Seq(Nat)
    BY <2>1, <2>2
  <2> HIDE DEF more
  <2>5. got' \in [Sides -> Seq(Nat)]
    BY <2>1, <2>3, <2>4
  <2> QED
    BY <2>5 DEF Read, LinkInv, TypeOK, RestTyped
<1> QED
  BY <1>4, <1>5, <1>6, CallKeeps

(* A message arrives.                                                      *)
LEMMA ArriveLinkInv ==
  ASSUME LinkInv, NEW s \in Sides, Arrive(s)
  PROVE  LinkInv'
<1> DEFINE m == Head(net[s])
           q == IF conn[s].state = "Closed" THEN conn[s]
                ELSE MessageReceivedNotification(
                       [conn[s] EXCEPT !.inbox = Append(@, Head(net[s]))], now)
<1>1. EndInv(conn[s]) /\ now \in SeqNums /\ net \in [Sides -> Seq(PDU)] /\ net[s] # <<>>
  BY NowType DEF LinkInv, TypeOK, Arrive
<1>2. m \in PDU /\ Tail(net[s]) \in Seq(PDU)
  <2>1. net[s] \in Seq(PDU)
    BY <1>1
  <2> QED
    BY <1>1, <2>1, HeadTailProperties
<1>3. Leaves(conn[s], q)
  <2>1. CASE conn[s].state = "Closed"
    BY <1>1, <2>1 DEF Leaves
  <2>2. CASE conn[s].state # "Closed"
    <3>1. q = MessageReceivedNotification([conn[s] EXCEPT !.inbox = Append(@, m)], now)
      BY <2>2
    <3> HIDE DEF q, m
    <3> QED
      BY <1>1, <1>2, <2>2, <3>1, NotifiedLeaves
  <2> QED
    BY <2>1, <2>2
<1>4. /\ Ends(s, q)
      /\ net' = [net EXCEPT ![s] = Tail(@), ![Peer(s)] = @ \o q.out]
  BY DEF Arrive, Ends
<1> HIDE DEF m, q
<1>5. EndInv(q) /\ q.out \in Seq(PDU)
  BY <1>3 DEF Leaves, EndInv, ConnInv, Connection
<1>6. OnTheirWay
  <2> DEFINE left == [net EXCEPT ![s] = Tail(net[s])]
  <2>1. Peer(s) \in Sides /\ Peer(s) # s
    BY DEF Peer, Sides
  <2>2. net[Peer(s)] \o q.out \in Seq(PDU)
    BY <1>1, <1>5, <2>1, ConcatProperties
  <2>3. net' = [left EXCEPT ![Peer(s)] = net[Peer(s)] \o q.out]
    BY <1>1, <1>4, <2>1
  <2>4. left \in [Sides -> Seq(PDU)]
    BY <1>1, <1>2
  <2> HIDE DEF left
  <2> QED
    BY <2>1, <2>2, <2>3, <2>4 DEF OnTheirWay
<1>7. log' = log /\ (q.state # "Closed" => log[s] # <<>>)
  BY <1>3 DEF Arrive, Leaves, LinkInv
<1>8. RestTyped
  BY DEF Arrive, LinkInv, TypeOK, RestTyped
<1> QED
  BY <1>4, <1>5, <1>6, <1>7, <1>8, CallKeeps

(* srapi_CheckTimings is called.                                           *)
LEMMA CheckTimingsLinkInv ==
  ASSUME LinkInv, NEW s \in Sides, CallCheckTimings(s)
  PROVE  LinkInv'
<1> DEFINE q == CheckTimings(conn[s], now)
<1>1. EndInv(conn[s]) /\ now \in SeqNums
  BY NowType DEF LinkInv
<1>2. Leaves(conn[s], q)
  BY <1>1, CheckTimingsLeaves
<1>3. Becomes(s, q)
  BY DEF CallCheckTimings
<1> HIDE DEF q
<1>4. EndInv(q) /\ Ends(s, q) /\ OnTheirWay
  BY <1>2, <1>3, SentOnTheirWay DEF Leaves
<1>5. log' = log /\ (q.state # "Closed" => log[s] # <<>>)
  BY <1>2 DEF CallCheckTimings, Leaves, LinkInv
<1>6. RestTyped
  BY DEF CallCheckTimings, LinkInv, TypeOK, RestTyped
<1> QED
  BY <1>4, <1>5, <1>6, CallKeeps

(* The ends stay as they are when a message is lost, ...                   *)
LEMMA LoseLinkInv ==
  ASSUME LinkInv, NEW s \in Sides, Lose(s)
  PROVE  LinkInv'
<1>1. net \in [Sides -> Seq(PDU)] /\ net[s] # <<>>
  BY DEF LinkInv, TypeOK, Lose
<1>2. net[s] \in Seq(PDU)
  BY <1>1
<1>3. Tail(net[s]) \in Seq(PDU)
  BY <1>1, <1>2, HeadTailProperties
<1>4. net' \in [Sides -> Seq(PDU)]
  BY <1>1, <1>3 DEF Lose
<1>5. losses' \in 0 .. MaxLosses
  <2>1. losses \in 0 .. MaxLosses /\ MaxLosses \in Nat /\ losses < MaxLosses
    BY SrLinkAssumption DEF LinkInv, TypeOK, Lose
  <2>2. losses + 1 \in 0 .. MaxLosses
    BY <2>1
  <2> QED
    BY <2>2 DEF Lose
<1>6. TypeOK'
  BY <1>4, <1>5 DEF Lose, LinkInv, TypeOK
<1> QED
  BY <1>6 DEF Lose, LinkInv

(* ... when the time advances, ...                                         *)
LEMMA TickLinkInv ==
  ASSUME LinkInv, Tick
  PROVE  LinkInv'
<1>1. ticks' \in 0 .. MaxTicks
  <2>1. ticks \in 0 .. MaxTicks /\ MaxTicks \in Nat /\ ticks < MaxTicks
    BY SrLinkAssumption DEF LinkInv, TypeOK, Tick
  <2>2. ticks + 1 \in 0 .. MaxTicks
    BY <2>1
  <2> QED
    BY <2>2 DEF Tick
<1>2. TypeOK'
  BY <1>1 DEF Tick, LinkInv, TypeOK
<1> QED
  BY <1>2 DEF Tick, LinkInv

(* ... and when nothing happens.                                           *)
LEMMA StutterLinkInv ==
  ASSUME LinkInv, UNCHANGED vars
  PROVE  LinkInv'
BY DEF LinkInv, TypeOK, vars

-----------------------------------------------------------------------------
(* What holds in every state.                                              *)

(* The inductive invariant.                                                *)
THEOREM LinkInvariance == Spec => []LinkInv
<1>1. LinkInv /\ [Next]_vars => LinkInv'
  <2> SUFFICES ASSUME LinkInv, [Next]_vars
               PROVE  LinkInv'
    OBVIOUS
  <2>1. ASSUME NEW s \in Sides,
               Open(s) \/ Close(s) \/ Send(s) \/ Read(s)
                 \/ Arrive(s) \/ Lose(s) \/ CallCheckTimings(s)
        PROVE  LinkInv'
    BY <2>1, OpenLinkInv, CloseLinkInv, SendLinkInv, ReadLinkInv, ArriveLinkInv,
       LoseLinkInv, CheckTimingsLinkInv
  <2>2. CASE Tick
    BY <2>2, TickLinkInv
  <2>3. CASE UNCHANGED vars
    BY <2>3, StutterLinkInv
  <2> QED
    BY <2>1, <2>2, <2>3 DEF Next
<1> QED
  BY <1>1, InitLinkInv, PTL DEF Spec

(* Every variable has its type: whatever is lost or late, no call makes a  *)
(* connection of a record it could not be, puts a number into it that is   *)
(* too large for its field, or sends anything but messages.                *)
THEOREM SrLinkTypeCorrect == Spec => []TypeOK
<1>1. LinkInv => TypeOK
  BY DEF LinkInv
<1> QED
  BY <1>1, LinkInvariance, PTL

(* At both ends srrece_AddToBuffer finds room for each message of data,    *)
(* also while several wait in the redundancy channel and the application   *)
(* does not read.                                                          *)
THEOREM BothEndsHaveRoom == Spec => []ReceivedDataFits
<1>1. LinkInv => ReceivedDataFits
  BY DEF LinkInv, EndInv, ConnInv, ReceivedDataFits
<1> QED
  BY <1>1, LinkInvariance, PTL

(* At both ends the send buffer holds the last messages that were given a  *)
(* number, without a gap: there is none that a retransmission would leave  *)
(* out.                                                                    *)
THEOREM BothEndsWithoutGap == Spec => []NumbersWithoutGap
<1>1. LinkInv => NumbersWithoutGap
  BY DEF LinkInv, EndInv, ConnInv, NumbersWithoutGap
<1> QED
  BY <1>1, LinkInvariance, PTL
=============================================================================

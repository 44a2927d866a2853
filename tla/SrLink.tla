------------------------------- MODULE SrLink -------------------------------
(***************************************************************************)
(* Two ends of a RaSTA connection, the client and the server, over what    *)
(* the redundancy layer promises (OrderedDelivery): messages arrive in the *)
(* order they were sent, some of them get lost, and they take time.        *)
(*                                                                         *)
(* Each end is single-threaded and a call runs to its end before the next  *)
(* one starts, so that one step of this module is a whole call.  The ends  *)
(* share the time, which advances once both have called srapi_CheckTimings *)
(* since the last tick.                                                    *)
(***************************************************************************)
EXTENDS SrStateMachine

CONSTANTS
  NSendMax,     \* n_send_max of each end
  FirstNumber,  \* the random sequence number each session of an end starts with
  StartTime,    \* the time at which everything starts
  MaxData,      \* bound: how many messages each application sends
  MaxOpens,     \* bound: how often each application opens the connection
  MaxCloses,    \* bound: how often an application closes it
  MaxLosses,    \* bound: how many messages get lost
  MaxTicks      \* bound: how far the time advances

Sides == {"client", "server"}
Peer(s) == IF s = "client" THEN "server" ELSE "client"

ASSUME SrLinkAssumption ==
  /\ NSendMax \in [Sides -> MWA + 1 .. MaxNSendMax]
  /\ StartTime \in SeqNums
  /\ MaxData \in [Sides -> Nat]
  /\ MaxOpens \in Nat /\ MaxCloses \in Nat /\ MaxLosses \in Nat /\ MaxTicks \in Nat
  /\ FirstNumber \in [Sides -> [1 .. MaxOpens -> SeqNums]]
  /\ MaxTicks < SeqMod

VARIABLES
  conn,     \* conn[s]: the connection at s
  net,      \* net[s]: the messages on their way to s
  ticks,    \* how far the time has advanced
  checked,  \* the ends that called srapi_CheckTimings since the last tick
  losses,   \* how many messages got lost
  closes,   \* how often an application closed the connection
  log,      \* log[s][k]: the data s sent in its k-th session
  got       \* got[s]: the data the application read since it opened s

vars == <<conn, net, ticks, checked, losses, closes, log, got>>

now == (StartTime + ticks) % SeqMod

TypeOK ==
  /\ conn \in [Sides -> Connection]
  /\ net \in [Sides -> Seq(PDU)]
  /\ ticks \in 0 .. MaxTicks
  /\ checked \subseteq Sides
  /\ losses \in 0 .. MaxLosses
  /\ closes \in 0 .. MaxCloses
  /\ log \in [Sides -> Seq(Seq(Nat))]
  /\ got \in [Sides -> Seq(Nat)]

Init ==
  /\ conn = [s \in Sides |-> InitialConnection(s = "server", NSendMax[s])]
  /\ net = [s \in Sides |-> <<>>]
  /\ ticks = 0
  /\ checked = {}
  /\ losses = 0
  /\ closes = 0
  /\ log = [s \in Sides |-> <<>>]
  /\ got = [s \in Sides |-> <<>>]

-----------------------------------------------------------------------------

(* c is the connection at s after the step; what it sent is on its way.    *)
Becomes(s, c) ==
  /\ conn' = [conn EXCEPT ![s] = CallEnded(c)]
  /\ net' = [net EXCEPT ![Peer(s)] = @ \o c.out]

(* No assertion has stopped an end.                                        *)
Running == \A s \in Sides : conn[s].fatal = "None"

Open(s) ==
  /\ Running /\ conn[s].state = "Closed" /\ Len(log[s]) < MaxOpens
  /\ Becomes(s, OpenConnection(conn[s], FirstNumber[s][Len(log[s]) + 1], now))
  /\ log' = [log EXCEPT ![s] = Append(@, <<>>)]
  /\ got' = [got EXCEPT ![s] = <<>>]
  /\ UNCHANGED <<ticks, checked, losses, closes>>

Close(s) ==
  /\ Running /\ conn[s].state # "Closed" /\ closes < MaxCloses
  /\ Becomes(s, CloseConnectionCall(conn[s], now))
  /\ closes' = closes + 1
  /\ UNCHANGED <<ticks, checked, losses, log, got>>

Established == {"Up", "RetransRequest", "RetransRunning"}

(* What s sends next: data is numbered over all sessions.                  *)
DataSent(s) ==
  LET count[k \in 0 .. MaxOpens] ==
        IF k = 0 THEN 0
        ELSE count[k - 1] + IF k <= Len(log[s]) THEN Len(log[s][k]) ELSE 0
  IN  count[MaxOpens]

(* Applications send when the connection is established.                   *)
Send(s) ==
  /\ Running /\ conn[s].state \in Established
  /\ DataSent(s) < MaxData[s]
  /\ SendDataTakes(conn[s])
  /\ Becomes(s, SendData(conn[s], DataSent(s) + 1, now))
  /\ log' = [log EXCEPT ![s][Len(log[s])] = Append(@, DataSent(s) + 1)]
  /\ UNCHANGED <<ticks, checked, losses, closes, got>>

Read(s) ==
  /\ Running /\ conn[s].recvBuf # <<>>
  /\ got' = [got EXCEPT ![s] = Append(@, Head(conn[s].recvBuf))]
  /\ Becomes(s, ReadData(conn[s]))
  /\ UNCHANGED <<ticks, checked, losses, closes, log>>

(* The first message on its way to s reaches the redundancy channel, which *)
(* drops it if it is closed and calls sradno_MessageReceivedNotification   *)
(* if it is open.                                                          *)
Arrive(s) ==
  /\ Running /\ net[s] # <<>>
  /\ LET c == IF conn[s].state = "Closed" THEN conn[s]
              ELSE MessageReceivedNotification(
                     [conn[s] EXCEPT !.inbox = Append(@, Head(net[s]))], now)
     IN  /\ conn' = [conn EXCEPT ![s] = CallEnded(c)]
         /\ net' = [net EXCEPT ![s] = Tail(@), ![Peer(s)] = @ \o c.out]
  /\ UNCHANGED <<ticks, checked, losses, closes, log, got>>

Lose(s) ==
  /\ Running /\ net[s] # <<>> /\ losses < MaxLosses
  /\ net' = [net EXCEPT ![s] = Tail(@)]
  /\ losses' = losses + 1
  /\ UNCHANGED <<conn, ticks, checked, closes, log, got>>

CallCheckTimings(s) ==
  /\ Running /\ s \notin checked
  /\ Becomes(s, CheckTimings(conn[s], now))
  /\ checked' = checked \cup {s}
  /\ UNCHANGED <<ticks, losses, closes, log, got>>

Tick ==
  /\ Running /\ checked = Sides /\ ticks < MaxTicks
  /\ ticks' = ticks + 1
  /\ checked' = {}
  /\ UNCHANGED <<conn, net, losses, closes, log, got>>

Next ==
  \/ \E s \in Sides :
       \/ Open(s) \/ Close(s) \/ Send(s) \/ Read(s)
       \/ Arrive(s) \/ Lose(s) \/ CallCheckTimings(s)
  \/ Tick

Spec == Init /\ [][Next]_vars

-----------------------------------------------------------------------------
(* Whatever is lost or late, and however often the connection is opened,   *)
(* an application gets what the other one sent in one session, complete    *)
(* from its start, in order and without repetition: retransmission never   *)
(* skips, repeats or mixes up data.                                        *)
Promise == INSTANCE SafeDelivery WITH Data <- UNION {1 .. MaxData[s] : s \in Sides}
DeliversSafely == Promise!Spec

(* Two correct ends never run into an assertion of the stack: neither a    *)
(* received message nor a heartbeat finds its buffer full, a request for   *)
(* retransmission finds a send buffer it can be answered from.  (The one   *)
(* exception is AliveTimeInRange, below.)                                  *)
NoAssertionFails == \A s \in Sides : conn[s].fatal \in {"None", "InvalidParameter"}

-----------------------------------------------------------------------------
(* What comments and assertions of the code say.                           *)

(* srdia_UpdateConnectionDiagnostics: the alive time of a message that is  *)
(* processed is at most t_max.                                             *)
AliveTimeInRange == \A s \in Sides : conn[s].fatal # "InvalidParameter"

(* AddToBuffer of srsend: there is room for each message of the stack.     *)
SendBufferHasRoom == \A s \in Sides : conn[s].fatal # "SendBufferFull"
=============================================================================

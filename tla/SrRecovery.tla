----------------------------- MODULE SrRecovery -----------------------------
(***************************************************************************)
(* Two ends of a RaSTA connection as the system is meant to run: the       *)
(* server is opened first, neither application closes the connection and   *)
(* each reads what it gets; messages arrive within the tick in which they  *)
(* are sent, but for the few that get lost once the connection is up.      *)
(***************************************************************************)
EXTENDS SrLink

CONSTANT ActiveTicks  \* bound: data is sent, and messages get lost, so long

ASSUME RecoveryAssumption == ActiveTicks \in 0 .. MaxTicks

RecoveryOpen(s) ==
  /\ s = "client" => conn["server"].state # "Closed"
  /\ Open(s)

RecoverySend(s) == ticks < ActiveTicks /\ Send(s)

RecoveryLose(s) ==
  /\ ticks < ActiveTicks
  /\ \A r \in Sides : conn[r].state \in Established
  /\ Lose(s)

RecoveryTick ==
  /\ \A s \in Sides : net[s] = <<>> /\ conn[s].recvBuf = <<>>
  /\ Tick

RecoveryNext ==
  \/ \E s \in Sides :
       \/ RecoveryOpen(s) \/ RecoverySend(s) \/ Read(s)
       \/ Arrive(s) \/ RecoveryLose(s) \/ CallCheckTimings(s)
  \/ RecoveryTick

RecoverySpec == Init /\ [][RecoveryNext]_vars

(* Applications read and call srapi_CheckTimings, messages that are not    *)
(* lost arrive, time goes on: weak fairness of these actions, with the     *)
(* condition that enables each written out.                                *)
RecoveryFairness ==
  /\ \A s \in Sides :
       /\ []<>~ (Running /\ conn[s].recvBuf # <<>>) \/ []<><<Read(s)>>_vars
       /\ []<>~ (Running /\ net[s] # <<>>) \/ []<><<Arrive(s)>>_vars
       /\ []<>~ (Running /\ s \notin checked) \/ []<><<CallCheckTimings(s)>>_vars
  /\ WF_vars(RecoveryTick)

RecoveryFairSpec == RecoverySpec /\ RecoveryFairness

-----------------------------------------------------------------------------
(* The loss of one message never ends the connection: no end that was      *)
(* opened closes again.  The retransmission comes to its end before the    *)
(* timeliness check gives up, and neither waits for the other.             *)
StaysOpen ==
  losses <= 1 => \A s \in Sides : log[s] # <<>> => conn[s].state # "Closed"

(* No data is stuck: what one application sends gets to the other, unless  *)
(* more than one message is lost.                                          *)
DataArrives ==
  \A s \in Sides : \A d \in 1 .. MaxData[s] :
    DataSent(s) >= d ~> Len(got[Peer(s)]) >= d \/ losses > 1

(* Each retransmission ends, whatever is lost: in the regular state of the *)
(* connection, or because the connection closes.                           *)
RetransmissionEnds ==
  \A s \in Sides :
    conn[s].state \in {"RetransRequest", "RetransRunning"}
      ~> conn[s].state \in {"Up", "Closed"}
=============================================================================

-------------------------- MODULE OrderedDelivery --------------------------
(***************************************************************************)
(* What a redundancy channel promises the layer above about the messages   *)
(* its peer sends, numbered 0, 1, 2, ... in the order they are sent: they  *)
(* are handed over in that order, none of them twice, and where some are   *)
(* given up the ones behind the gap come in one unbroken block.            *)
(***************************************************************************)
EXTENDS Integers, Sequences

VARIABLES
  sent,     \* how many messages the peer sent
  highest,  \* the last message handed over, -1 before the first
  buffer    \* messages handed over and not yet read

vars == <<sent, highest, buffer>>

Init ==
  /\ sent = 0
  /\ highest = -1
  /\ buffer = <<>>

SendOne ==
  /\ sent' = sent + 1
  /\ UNCHANGED <<highest, buffer>>

(* The messages from first to last are handed over.                        *)
HandOver ==
  \E first \in highest + 1 .. sent - 1 : \E last \in first .. sent - 1 :
    /\ buffer' = buffer \o [i \in 1 .. last - first + 1 |-> first + i - 1]
    /\ highest' = last
    /\ UNCHANGED sent

ReadOne ==
  /\ buffer # <<>>
  /\ buffer' = Tail(buffer)
  /\ UNCHANGED <<sent, highest>>

Next == SendOne \/ HandOver \/ ReadOne

Spec == Init /\ [][Next]_vars
=============================================================================

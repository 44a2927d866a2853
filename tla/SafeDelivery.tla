---------------------------- MODULE SafeDelivery ----------------------------
(***************************************************************************)
(* What a RaSTA connection promises the applications at its two ends: what *)
(* an end hands over after it was opened is what the other end sent in one *)
(* of its sessions, from the first message on, in the order it was sent,   *)
(* none missing and none twice.  Nothing is promised about the last        *)
(* messages of a session.                                                  *)
(***************************************************************************)
EXTENDS Integers, Sequences

CONSTANTS
  Sides,    \* the two ends
  Peer(_),  \* the other end
  Data      \* what applications send

VARIABLES
  log,  \* log[s][k]: the data s sent in its k-th session
  got   \* got[s]: the data s handed over since it was opened

vars == <<log, got>>

Init ==
  /\ log = [s \in Sides |-> << >>]
  /\ got = [s \in Sides |-> << >>]

Open(s) ==
  /\ log' = [log EXCEPT ![s] = Append(@, << >>)]
  /\ got' = [got EXCEPT ![s] = << >>]

Send(s) ==
  /\ log[s] # << >>
  /\ \E d \in Data : log' = [log EXCEPT ![s][Len(log[s])] = Append(@, d)]
  /\ UNCHANGED got

(* s hands over what comes next in a session of the other end.             *)
HandOver(s) ==
  /\ \E k \in DOMAIN log[Peer(s)] :
       LET n == Len(got[s]) + 1
       IN  /\ n \in DOMAIN log[Peer(s)][k]
           /\ got[s] = SubSeq(log[Peer(s)][k], 1, n - 1)
           /\ got' = [got EXCEPT ![s] = SubSeq(log[Peer(s)][k], 1, n)]
  /\ UNCHANGED log

Next == \E s \in Sides : Open(s) \/ Send(s) \/ HandOver(s)

Spec == Init /\ [][Next]_vars
=============================================================================

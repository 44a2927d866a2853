----------------------------- MODULE MCRedLink -----------------------------
(***************************************************************************)
(* A redundancy channel with two transport channels whose peer sends more  *)
(* messages than there are sequence numbers.                               *)
(***************************************************************************)
EXTENDS RedLink

MCPayloads == 0 .. MaxSent - 1
MCArrivals == {PeerPDU(n, ok) : n \in MCPayloads, ok \in BOOLEAN}
=============================================================================

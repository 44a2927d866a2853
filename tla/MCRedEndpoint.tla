--------------------------- MODULE MCRedEndpoint ---------------------------
(***************************************************************************)
(* A small redundancy channel in the arbitrary environment of RedEndpoint. *)
(***************************************************************************)
EXTENDS RedEndpoint

(* One PDU per sequence number and one corrupted PDU: which payload a PDU  *)
(* carries and which sequence number a corrupted one makes no difference.  *)
Plain == 0
MCPayloads == {Plain}
MCArrivals ==
  [seq : SeqNums, payload : MCPayloads, crcOk : {TRUE}]
    \cup [seq : {0}, payload : MCPayloads, crcOk : {FALSE}]
=============================================================================

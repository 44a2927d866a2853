---------------------------- MODULE SrSendBuffer ----------------------------
(***************************************************************************)
(* The send buffer of a RaSTA connection (srsend): the messages that are   *)
(* sent but not confirmed, followed by those that wait to be sent.  The    *)
(* ring of the code, with its read, write and remove index, is the         *)
(* sequence msgs; already_sent holds for the first `sent' messages.        *)
(***************************************************************************)
EXTENDS SequenceNumbers, Sequences

CONSTANT SendBufferSize  \* RADEF_SEND_BUFFER_SIZE

ASSUME SendBufferAssumption == SendBufferSize \in Nat \ {0} /\ SendBufferSize < Half

MessageTypes ==
  {"ConnReq", "ConnResp", "RetrReq", "RetrResp", "DiscReq", "Hb", "Data", "RetrData"}

(* A message as it is created: the number that identifies the payload of   *)
(* data, or n_send_max in a connection request or response.  Time stamp    *)
(* and confirmed sequence number are added when it is sent.                *)
Message == [type : MessageTypes, sn : SeqNums, cts : SeqNums, payload : Nat]

SendBuffer ==
  {b \in [msgs : Seq(Message), sent : Nat] :
     b.sent <= Len(b.msgs) /\ Len(b.msgs) <= SendBufferSize}

EmptyBuffer == [msgs |-> <<>>, sent |-> 0]

GetUsedBufferEntries(b) == Len(b.msgs)
GetFreeBufferEntries(b) == SendBufferSize - Len(b.msgs)
GetNumberOfMessagesToSend(b) == Len(b.msgs) - b.sent

IsSequenceNumberInBuffer(b, sn) == \E i \in DOMAIN b.msgs : b.msgs[i].sn = sn

(* How many messages the confirmed sequence number removes: those up to    *)
(* the one with this number, but none that was not sent.                   *)
NumberConfirmed(b, confirmed) ==
  LET IsConfirmed(i) == Minus(confirmed, b.msgs[i].sn) < SendBufferSize
      Stops(n) == \/ n = b.sent
                  \/ ~ IsConfirmed(n + 1)
                  \/ n > 0 /\ b.msgs[n].sn = confirmed
  IN  CHOOSE n \in 0 .. b.sent : Stops(n) /\ \A k \in 0 .. n - 1 : ~ Stops(k)

(* srsend_RemoveFromBuffer                                                 *)
RemoveFromBuffer(b, confirmed) ==
  LET n == NumberConfirmed(b, confirmed)
  IN  [msgs |-> SubSeq(b.msgs, n + 1, Len(b.msgs)), sent |-> b.sent - n]

-----------------------------------------------------------------------------
(* Retransmission.                                                         *)

Unsent(b) == SubSeq(b.msgs, b.sent + 1, Len(b.msgs))

(* The messages of these types, in their order.                            *)
OfTypes(msgs, types) ==
  LET upTo[n \in 0 .. Len(msgs)] ==
        IF n = 0 THEN <<>>
        ELSE IF msgs[n].type \in types THEN Append(upTo[n - 1], msgs[n]) ELSE upTo[n - 1]
  IN  upTo[Len(msgs)]

(* A plausible slip: off by one at the oldest message.                     *)
AgainButOldest(b) ==
  OfTypes(SubSeq(b.msgs, 2, b.sent), {"Data", "RetrData"})
    \o OfTypes(Unsent(b), {"RetrData"})

(* The data that is sent again: what was sent, and what an earlier         *)
(* retransmission was to send again.                                       *)
Again(b) ==
  OfTypes(SubSeq(b.msgs, 1, b.sent), {"Data", "RetrData"})
    \o OfTypes(Unsent(b), {"RetrData"})

(* What the buffer holds after srsend_PrepareBufferForRetr, but for the    *)
(* numbers: a retransmission response, the data that is sent again, a      *)
(* heartbeat unless data ends the retransmission, and what waits to be     *)
(* sent for the first time.  Sent messages that carry no data and unsent   *)
(* heartbeats are dropped.                                                 *)
RetransmissionOf(b) ==
  LET again == Again(b)
      fresh == OfTypes(Unsent(b), {"Data", "RetrReq"})
      Plain(type) == << [type |-> type, payload |-> 0] >>
      end == IF fresh # <<>> /\ fresh[1].type = "Data" THEN <<>> ELSE Plain("Hb")
  IN  Plain("RetrResp")
        \o [i \in DOMAIN again |-> [type |-> "RetrData", payload |-> again[i].payload]]
        \o end
        \o [i \in DOMAIN fresh |-> [type |-> fresh[i].type, payload |-> fresh[i].payload]]

(* srsend_PrepareBufferForRetr: everything is numbered from sn on and will *)
(* be sent, with the confirmed time stamp of now.                          *)
PrepareBufferForRetr(b, sn, cts) ==
  LET list == RetransmissionOf(b)
  IN  [msgs |-> [i \in DOMAIN list |->
                   [type |-> list[i].type, sn |-> Plus(sn, i - 1), cts |-> cts,
                    payload |-> list[i].payload]],
       sent |-> 0]

(* The assertions of srsend_PrepareBufferForRetr: the numbers in the       *)
(* buffer follow the last confirmed one without a gap, ...                 *)
FollowsConfirmed(b, confirmed) ==
  b.msgs # <<>> /\ \A i \in DOMAIN b.msgs : b.msgs[i].sn = Plus(confirmed, i)

(* ... only these messages wait to be sent, and data to be sent again      *)
(* comes before the rest, ...                                              *)
CanRetransmit(b) ==
  \A i, j \in DOMAIN Unsent(b) :
    /\ Unsent(b)[i].type \in {"Data", "RetrData", "RetrReq", "Hb"}
    /\ i < j /\ Unsent(b)[j].type = "RetrData" =>
         Unsent(b)[i].type \notin {"Data", "RetrReq"}

(* ... and the messages fit into the temporary buffer.                     *)
RetransmissionFits(b) == Len(RetransmissionOf(b)) <= SendBufferSize
=============================================================================

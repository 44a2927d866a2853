---------------------------- MODULE MessagePath ----------------------------
(***************************************************************************)
(* The way of one message through the stack, byte by byte: created by the  *)
(* safety and retransmission layer of the sender (srcor, srsend), updated  *)
(* when it is sent, wrapped in a PDU of the redundancy layer, possibly     *)
(* damaged on the transport channel, checked by the redundancy layer       *)
(* (redcor) and by the safety and retransmission layer (srcor) of the      *)
(* receiver, which need not be configured alike.  What the layers do with  *)
(* the numbers of the messages is in RedChannel and SrConnection.          *)
(***************************************************************************)
EXTENDS RedMessages, SrMessages
Reference == INSTANCE Md4Reference

CONSTANTS
  Ends,             \* pairs of sender and receiver: check code, safety code, MD4 initial value
  Payloads,         \* the payloads of data messages
  Headers,          \* headers of new messages: ids, sequence number, confirmed time stamp
  Updates,          \* confirmed sequence number and time stamp at the time of sending
  RedNumbers,       \* sequence numbers of the redundancy layer
  Damages,          \* patterns of bits the transport flips in a byte
  DamagedBytes      \* the bytes of a PDU the transport damages

Version  == << {4, 5}, {0, 1, 4, 5}, {4, 5}, {0, 1, 4, 5} >>   \* srcor_kProtocolVersion, "0303"
NSendMax == 20

(* srcor_IsProtocolVersionAccepted: of the first digit that differs, the   *)
(* received one is greater.                                                *)
IsProtocolVersionAccepted(version) ==
  \/ version = Version
  \/ \E i \in DOMAIN Version :
       /\ Number(version[i]) > Number(Version[i])
       /\ \A j \in 1 .. i - 1 : version[j] = Version[j]

VARIABLES
  ends,      \* the configurations of the sender and of the receiver
  step,      \* how far the message is: "none", "buffered", "sent", "received" or "fatal"
  sent,      \* what is sent: type, header, content and redundancy number
  message,   \* the message in the sender's send buffer
  pdu,       \* the PDU on the transport channel
  damaged,   \* whether the transport changed it
  received   \* what became of it at the receiver
vars == << ends, step, sent, message, pdu, damaged, received >>

Nothing == << >>

Init ==
  /\ ends \in Ends
  /\ step = "none"
  /\ sent = Nothing /\ message = Nothing /\ pdu = Nothing /\ received = Nothing
  /\ damaged = FALSE

(* A message in the send buffer.  What the header says later is known when *)
(* it is sent.                                                             *)
Made(type, header, content, m) ==
  /\ step' = "buffered"
  /\ sent' = [type |-> type, header |-> header, content |-> content, number |-> {}]
  /\ message' = m
  /\ UNCHANGED << ends, pdu, damaged, received >>

(* srcor_SendConnReqMessage, srcor_SendConnRespMessage: of a request the   *)
(* confirmed time stamp is 0.                                              *)
CreateConn(type, header) ==
  /\ step = "none"
  /\ type = "ConnReq" => header.confirmed_time_stamp = {}
  /\ Made(type, header, << Version, Bits(NSendMax) >>,
              CreateConnMessage(ends.sender, type, header, Version, NSendMax))

(* srcor_SendDataMessage.                                                  *)
CreateData(header, payload) ==
  /\ step = "none"
  /\ Made("Data", header, payload, CreateDataMessage(ends.sender, header, payload))

(* srcor_SendDiscReqMessage.                                               *)
CreateDisc(header, reason) ==
  /\ step = "none"
  /\ Made("DiscReq", header, Nothing, CreateDiscReqMessage(ends.sender, header, {}, reason))

(* srcor_SendHbMessage, srcor_SendRetrReqMessage, and the RetrResp of      *)
(* srsend_PrepareBufferForRetr.                                            *)
CreateHeaderOnly(type, header) ==
  /\ step = "none"
  /\ Made(type, header, Nothing, CreateHeaderMessage(ends.sender, type, header))

(* srsend_PrepareBufferForRetr: a data message of the send buffer is made  *)
(* again with a new header, as retransmitted data when it was sent.        *)
Retransmit(header) ==
  /\ step \in {"buffered", "sent"} /\ sent.type = "Data" /\ ~damaged
  /\ header.sequence_number # sent.header.sequence_number
  /\ DataAsserts(message)
  /\ LET payload == GetDataMessagePayload(message)
     IN  IF step = "sent"
         THEN Made("RetrData", header, sent.content,
                       CreateRetrDataMessage(ends.sender, header, payload))
         ELSE Made("Data", header, sent.content,
                       CreateDataMessage(ends.sender, header, payload))

(* srcor_SendPendingMessages and redcor_SendMessage.  The message in the   *)
(* send buffer stays as it was created: a copy of it is updated and sent.  *)
Send(confirmed, time_stamp, red_number) ==
  /\ step = "buffered"
  /\ sent.type = "ConnReq" => confirmed = {}
  /\ IF SafetyCodeAsserts(ends.sender, message)
     THEN /\ step' = "sent"
          /\ sent' = [sent EXCEPT !.header.confirmed_sequence_number = confirmed,
                                  !.header.time_stamp = time_stamp,
                                  !.number = red_number]
          /\ pdu' = CreateMessage(ends.sender.check, red_number,
                       UpdateMessageHeader(ends.sender, message, confirmed, time_stamp))
     ELSE step' = "fatal" /\ UNCHANGED << sent, pdu >>
  /\ UNCHANGED << ends, message, damaged, received >>

(* The transport flips some bits of a byte, loses the last byte or adds a  *)
(* byte.                                                                   *)
Damage ==
  /\ step = "sent" /\ ~damaged
  /\ \/ \E k \in DamagedBytes \cap DOMAIN pdu, bits \in Damages :
          pdu' = [pdu EXCEPT ![k] = Xor(@, bits)]
     \/ pdu' = SubSeq(pdu, 1, Len(pdu) - 1)
     \/ pdu' = Append(pdu, {})
  /\ damaged' = TRUE
  /\ UNCHANGED << ends, step, sent, message, received >>

(* redcor_ProcessReceivedMessage of a PDU in sequence; the payload is      *)
(* taken out for the received buffer.                                      *)
RedReceive(end, p) ==
  CASE ~MessageAsserts(end.check, p)              -> "fatal"
    [] MessageAsserts(end.check, p) /\ ~CheckMessageCrc(end.check, p) -> "discarded"
    [] OTHER -> IF PayloadAsserts(end.check, p) THEN "accepted" ELSE "fatal"

(* srcor_ProcessReceivedMessage: the checks of the message, its header and *)
(* what the handlers read of it.                                           *)
ContentAsserts(m, type) ==
  /\ type \in DataTypes => DataAsserts(m)
  /\ type \in ConnTypes => ConnAsserts(m)
Content(m, type) == CASE type \in DataTypes -> GetDataMessagePayload(m)
                      [] type \in ConnTypes -> GetConnMessageData(m)
                      [] OTHER -> Nothing

(* A plausible slip: the content is read before the message is checked.    *)
SrReceiveContentFirst(end, m) ==
  CASE TypeOf(m) # {} /\ \E t \in TypeOf(m) : ~ContentAsserts(m, t) -> "fatal"
    [] CheckMessage(end, m) # "NoError" -> "discarded"
    [] OTHER -> "accepted"

SrReceive(end, m) ==
  IF ~CheckAsserts(end, m) THEN "fatal"
  ELSE IF CheckMessage(end, m) # "NoError" THEN "discarded"
  ELSE IF \E t \in TypeOf(m) : ContentAsserts(m, t) THEN "accepted" ELSE "fatal"

Receive ==
  /\ step = "sent"
  /\ step' = "received"
  /\ LET end == ends.receiver
         m == GetMessagePayload(end.check, pdu)
     IN  received' = CASE RedReceive(end, pdu) # "accepted" -> << RedReceive(end, pdu) >>
                       [] OTHER ->
                          IF SrReceive(end, m) = "accepted"
                          THEN << "accepted", LET t == CHOOSE t \in TypeOf(m) : TRUE IN
                                  [type |-> t, header |-> GetMessageHeader(m), content |-> Content(m, t),
                                   number |-> GetMessageSequenceNumber(pdu)] >>
                          ELSE << SrReceive(end, m) >>
  /\ UNCHANGED << ends, sent, message, pdu, damaged >>

(* Another message, or the program started again after a fatal error.      *)
Again ==
  /\ step \in {"received", "fatal"}
  /\ step' = "none"
  /\ sent' = Nothing /\ message' = Nothing /\ pdu' = Nothing /\ received' = Nothing
  /\ damaged' = FALSE
  /\ UNCHANGED ends

Next ==
  \/ \E h \in Headers :
       \/ \E t \in ConnTypes : CreateConn(t, h)
       \/ \E p \in Payloads : CreateData(h, p)
       \/ \E r \in {0, 8} : CreateDisc(h, r)
       \/ \E t \in {"Hb", "RetrReq", "RetrResp"} : CreateHeaderOnly(t, h)
       \/ Retransmit(h)
  \/ \E u \in Updates, n \in RedNumbers : Send(u[1], u[2], n)
  \/ Damage
  \/ Receive
  \/ Again

Spec == Init /\ [][Next]_vars

-----------------------------------------------------------------------------
(* Type correctness: between the steps there is a message exactly where    *)
(* the step says, and the PDU has room for the redundancy header, all of   *)
(* the message and a check code of its width.                              *)
TypeOK ==
  /\ step \in {"none", "buffered", "sent", "received", "fatal"}
  /\ message = Nothing <=> step = "none"
  /\ step = "sent" /\ ~damaged =>
       8 * (Len(pdu) - Len(message) - RedHeaderSize)
         = IF ends.sender.check = "A" THEN 0 ELSE CrcOptions[ends.sender.check].width
  /\ received = Nothing <=> step # "received"

(* Nothing is received but what was sent: an accepted message has the      *)
(* type, the header and the content the sender gave it, with the           *)
(* confirmation of the moment it was sent, whatever the transport did to   *)
(* one byte or to the size of the PDU, however the sender is configured,   *)
(* and after a retransmission too.  The safety code does not cover the     *)
(* number of the redundancy layer; that is the sent one if there is a      *)
(* check code.  Only a receiver with neither code takes a damaged message. *)
(* redmsg_CheckMessageCrc and srmsg_CheckMessage are to see to that.       *)
Protected(end) == end.check # "A" \/ end.safety # "None"
AcceptedIsSent ==
  received # Nothing /\ received[1] = "accepted" =>
    /\ ~damaged => received[2] = sent
    /\ Protected(ends.receiver) => [received[2] EXCEPT !.number = sent.number] = sent
    /\ ends.receiver.check # "A" => received[2] = sent

(* An intact message between ends that are configured alike is accepted:   *)
(* the redundancy layer and the safety and retransmission layer undo what  *)
(* the sender's layers did, for every type, size and code.                 *)
IntactIsAccepted ==
  received # Nothing /\ ~damaged /\ ends.sender = ends.receiver => received[1] = "accepted"

(* One damaged byte ends the program of a protected receiver only where    *)
(* redmsg_CheckMessageCrc asserts it: when the length in the PDU is not    *)
(* its size.  Anything else is ignored, as redcor_ProcessReceivedMessage   *)
(* promises for a message with an invalid CRC.                             *)
FatalOnlyByLength ==
  received = << "fatal" >> /\ Protected(ends.receiver) /\ ends.sender = ends.receiver
    => GetFromMessage(pdu, 0, 2) # Bits(Len(pdu))

(* The table-driven check code is the remainder of the division of the     *)
(* data, bit by bit and most significant bit first, by the polynomial.     *)
Remainder(o, data) ==
  LET Fed(r, bit) == Divided(o, IF bit THEN Xor(r, {o.width - 1}) ELSE r)
      FedByte(first, byte) ==
        LET r[i \in 0 .. 8] == IF i = 0 THEN first
                               ELSE Fed(r[i - 1], (IF o.reflected THEN i - 1 ELSE 8 - i) \in byte)
        IN  r[8]
      last == FoldBytes(FedByte, o.initial, data)
  IN  Xor(IF o.reflected THEN ReflectBits(last, o.width) ELSE last, o.final)
CheckCodeIsRemainder ==
  step = "sent" /\ ~damaged /\ ends.sender.check # "A"
    => LET n    == GetCheckCodeLength(ends.sender.check)
           data == SubSeq(pdu, 1, Len(pdu) - n)
       IN  SubSeq(pdu, Len(pdu) - n + 1, Len(pdu))
             = ToBytes(Remainder(CrcOptions[ends.sender.check], data), n)

(* The safety code of a sent message is the MD4 hash of RFC 1320 of it, of *)
(* messages of every size that is not one byte short of a whole block.     *)
SafetyCodeIsMd4 ==
  step = "sent" /\ ~damaged
    => LET m    == GetMessagePayload(ends.sender.check, pdu)
           n    == GetSafetyCodeLength(ends.sender)
           data == SubSeq(m, 1, Len(m) - n)
       IN  SubSeq(m, Len(m) - n + 1, Len(m))
             = SubSeq(Reference!Md4(ends.sender.initial, data), 1, n)

(* srmd4.h gives 28 to 1085 bytes as the valid range of the data of        *)
(* srmd4_CalculateMd4, and srapi.h payloads of 1 to 1055 bytes: a message  *)
(* of every such size can be sent.                                         *)
EverySizeIsSent == step # "fatal"

=============================================================================

---------------------------- MODULE RedMessages ----------------------------
(***************************************************************************)
(* The messages of the redundancy layer (redmsg): length, reserve bytes,   *)
(* sequence number and payload, a message of the upper layer, followed by  *)
(* the check code over all of them.  An assertion of the code is a         *)
(* predicate here: where it is FALSE the program ends in rasys_FatalError. *)
(***************************************************************************)
EXTENDS RedCrc

SrHeaderSize   == 28            \* RADEF_SR_LAYER_MESSAGE_HEADER_SIZE
MaxSrPduSize   == 1101          \* RADEF_MAX_SR_LAYER_PDU_MESSAGE_SIZE
RedHeaderSize  == 8             \* RADEF_RED_LAYER_MESSAGE_HEADER_SIZE
RedPduSizes    == RedHeaderSize + SrHeaderSize .. RedHeaderSize + MaxSrPduSize + 4
CrcDataSizes   == RedHeaderSize + SrHeaderSize .. RedHeaderSize + MaxSrPduSize
RedPayloadSizes == SrHeaderSize .. MaxSrPduSize

(* A plausible slip: every check code takes the room of a CRC32.           *)
GetCheckCodeLengthAlways32(code) == IF code = "A" THEN 0 ELSE 4

GetCheckCodeLength(code) == CASE code = "A" -> 0 [] code \in {"B", "C"} -> 4 [] OTHER -> 2

(* redmsg_CreateMessage.                                                   *)
CreateMessage(code, sequence_number, payload) ==
  LET size == RedHeaderSize + Len(payload) + GetCheckCodeLength(code)
      data == ToBytes(Bits(size), 2) \o Zeros(2) \o ToBytes(sequence_number, 4) \o payload
  IN  IF code = "A" THEN data
      ELSE data \o ToBytes(CalculateCrc(code, data), GetCheckCodeLength(code))

(* What redmsg_CheckMessageCrc asserts of a PDU, the asserted size of the  *)
(* data of redcrc_CalculateCrc included, and the getters assert again.     *)
MessageAsserts(code, pdu) ==
  /\ Len(pdu) \in RedPduSizes
  /\ BytesAt(pdu, 0, 2) = ToBytes(Bits(Len(pdu)), 2)
  /\ code # "A" => Len(pdu) - GetCheckCodeLength(code) \in CrcDataSizes

(* A plausible slip: the case of the CRC16 is forgotten.                   *)
CheckMessageCrcOnly32(code, pdu) ==
  code \in {"B", "C"} =>
    FromBytes(SubSeq(pdu, Len(pdu) - 3, Len(pdu))) = CalculateCrc(code, SubSeq(pdu, 1, Len(pdu) - 4))

(* redmsg_CheckMessageCrc returns radef_kNoError.                          *)
CheckMessageCrc(code, pdu) ==
  LET size == Len(pdu) - GetCheckCodeLength(code)
  IN  code # "A" =>
        FromBytes(SubSeq(pdu, size + 1, Len(pdu))) = CalculateCrc(code, SubSeq(pdu, 1, size))

GetMessageSequenceNumber(pdu) == FromBytes(BytesAt(pdu, 4, 4))

(* redmsg_GetMessagePayload, and its assertion on the size.                *)
GetMessagePayload(code, pdu) ==
  BytesAt(pdu, RedHeaderSize, Len(pdu) - (RedHeaderSize + GetCheckCodeLength(code)))
PayloadAsserts(code, pdu) == Len(GetMessagePayload(code, pdu)) \in RedPayloadSizes
=============================================================================

---------------------------- MODULE SrMessages ----------------------------
(***************************************************************************)
(* The messages of the safety and retransmission layer (srmsg): a header   *)
(* of 28 bytes, what the type of the message carries, and the safety code, *)
(* none, the lower half or all of an MD4 hash.  An assertion of the code   *)
(* is a predicate here: where it is FALSE the program ends.                *)
(***************************************************************************)
EXTENDS SrMd4

SafetyCodes == {"None", "LowerMd4", "FullMd4"}

(* srmsg_safety_code_type and srmsg_md4_initial_value are fields of an     *)
(* end of a connection; the check code of its redundancy layer is another. *)

(* srtyp_SrMessageType: the numbers the messages carry.                    *)
TypeNumber == [ConnReq |-> 6200, ConnResp |-> 6201, RetrReq |-> 6212, RetrResp |-> 6213,
               DiscReq |-> 6216, Hb |-> 6220, Data |-> 6240, RetrData |-> 6241]
MessageTypes == DOMAIN TypeNumber
ConnTypes == {"ConnReq", "ConnResp"}
DataTypes == {"Data", "RetrData"}

HeaderSize == 28
(* The size of a message of each type, without payload and safety code.    *)
MinSize(type) == CASE type \in ConnTypes -> 42
                   [] type = "DiscReq"   -> 32
                   [] type \in DataTypes -> 30
                   [] OTHER              -> HeaderSize

GetSafetyCodeLength(end) == CASE end.safety = "None"     -> 0
                              [] end.safety = "LowerMd4" -> 8
                              [] end.safety = "FullMd4"  -> 16

(* Set and get of unsigned numbers at an offset of a message.              *)
SetInMessage(m, offset, w, n) == Overwrite(m, offset, ToBytes(w, n))
GetFromMessage(m, offset, n)  == FromBytes(BytesAt(m, offset, n))

(* SetMessageHeaderInMessage: the confirmed sequence number and the time   *)
(* stamp stay 0 until the message is sent.  The safety code is no part of  *)
(* a new message; its place is filled with 0 here.                         *)
SetMessageHeader(type, size, header) ==
  ToBytes(Bits(size), 2) \o ToBytes(Bits(TypeNumber[type]), 2)
    \o ToBytes(header.receiver_id, 4) \o ToBytes(header.sender_id, 4)
    \o ToBytes(header.sequence_number, 4) \o Zeros(8)
    \o ToBytes(header.confirmed_time_stamp, 4)
SrCreate(end, type, header, content) ==
  LET size == HeaderSize + Len(content) + GetSafetyCodeLength(end)
  IN  SetMessageHeader(type, size, header) \o content \o Zeros(GetSafetyCodeLength(end))

(* srmsg_Create...Message: what a message of each type carries.            *)
ConnContent(version, n_send_max) == version \o ToBytes(Bits(n_send_max), 2) \o Zeros(8)
DataContent(payload) == ToBytes(Bits(Len(payload)), 2) \o payload
DiscContent(detailed, reason) == ToBytes(detailed, 2) \o ToBytes(Bits(reason), 2)
CreateConnMessage(end, type, header, version, n_send_max) ==
  SrCreate(end, type, header, ConnContent(version, n_send_max))
CreateDataMessage(end, header, payload) ==
  SrCreate(end, "Data", header, DataContent(payload))
CreateRetrDataMessage(end, header, payload) ==
  SrCreate(end, "RetrData", header, DataContent(payload))
CreateDiscReqMessage(end, header, detailed, reason) ==
  SrCreate(end, "DiscReq", header, DiscContent(detailed, reason))
CreateHeaderMessage(end, type, header) == SrCreate(end, type, header, << >>)

(* The safety code of the first size bytes of a message.                   *)
SafetyCode(end, m, size) ==
  SubSeq(CalculateMd4(end.initial, SubSeq(m, 1, size)), 1, GetSafetyCodeLength(end))

(* srmsg_UpdateMessageHeader: the fields set when a message is sent, and   *)
(* the safety code over all of it.                                         *)
UpdateMessageHeader(end, m, confirmed_sequence_number, time_stamp) ==
  LET updated == SetInMessage(SetInMessage(m, 16, confirmed_sequence_number, 4),
                              20, time_stamp, 4)
      size == Len(m) - GetSafetyCodeLength(end)
  IN  IF end.safety = "None" THEN updated
      ELSE Overwrite(updated, size, SafetyCode(end, updated, size))

(* Calculating the safety code of a message of this size runs into no      *)
(* assertion.                                                              *)
SafetyCodeAsserts(end, m) ==
  end.safety # "None" => SetContextBufferAsserts(Len(m) - GetSafetyCodeLength(end))

(* What srmsg_CheckMessage returns.  Of the fields of an intact message it *)
(* checks the type, the length, and for data the size of the payload.      *)
TypeOf(m) == {t \in MessageTypes : Bits(TypeNumber[t]) = GetFromMessage(m, 2, 2)}
PayloadSize(m) == Number(GetFromMessage(m, 28, 2))
HasSafetyCode(end, m) ==
  LET size == Len(m) - GetSafetyCodeLength(end)
  IN  end.safety # "None" => SubSeq(m, size + 1, Len(m)) = SafetyCode(end, m, size)
HasLength(m) == GetFromMessage(m, 0, 2) = Bits(Len(m))

(* A plausible slip: the safety code of data messages is not counted.      *)
HasSizeOfTypeWithoutCode(end, m, type) ==
  Len(m) = MinSize(type) + (IF type \in DataTypes THEN PayloadSize(m) ELSE GetSafetyCodeLength(end))

HasSizeOfType(end, m, type) ==
  Len(m) = MinSize(type) + GetSafetyCodeLength(end)
             + (IF type \in DataTypes THEN PayloadSize(m) ELSE 0)
CheckMessage(end, m) ==
  CASE ~HasSafetyCode(end, m) -> "InvalidMessageMd4"
    [] HasSafetyCode(end, m) /\ TypeOf(m) = {} -> "InvalidMessageType"
    [] OTHER -> IF HasLength(m) /\ \A t \in TypeOf(m) : HasSizeOfType(end, m, t)
                THEN "NoError" ELSE "InvalidMessageSize"

(* What it asserts: the size, no assertion of the safety code's, and room  *)
(* for the payload size of a data message, before it compares the sizes.   *)
CheckAsserts(end, m) ==
  /\ Len(m) \in HeaderSize + GetSafetyCodeLength(end) .. 1085 + GetSafetyCodeLength(end)
  /\ SafetyCodeAsserts(end, m)
  /\ HasSafetyCode(end, m) /\ HasLength(m) /\ TypeOf(m) \cap DataTypes # {} => Len(m) >= 30

(* srmsg_GetMessageHeader.                                                 *)
GetMessageHeader(m) ==
  [receiver_id               |-> GetFromMessage(m, 4, 4),
   sender_id                 |-> GetFromMessage(m, 8, 4),
   sequence_number           |-> GetFromMessage(m, 12, 4),
   confirmed_sequence_number |-> GetFromMessage(m, 16, 4),
   time_stamp                |-> GetFromMessage(m, 20, 4),
   confirmed_time_stamp      |-> GetFromMessage(m, 24, 4)]

(* srmsg_GetDataMessagePayload and srmsg_GetConnMessageData, and what they *)
(* assert.  Nothing in the stack reads what a DiscReq carries.             *)
GetDataMessagePayload(m) == BytesAt(m, 30, PayloadSize(m))
DataAsserts(m) == PayloadSize(m) \in 1 .. 1055
GetConnMessageData(m) == << BytesAt(m, 28, 4), GetFromMessage(m, 32, 2) >>
ConnAsserts(m) == \A k \in 1 .. 4 : Number(BytesAt(m, 28, 4)[k]) \in \h30 .. \h39
=============================================================================

------------------------------- MODULE RedCrc -------------------------------
(***************************************************************************)
(* The check code of the redundancy layer (redcrc): the CRC of the data of *)
(* a PDU, computed a byte at a time with a table.                          *)
(***************************************************************************)
EXTENDS Words

CheckCodes == {"A", "B", "C", "D", "E"}

(* kCrcOptions.  Input and output are reflected together or not at all;    *)
(* check code A has no CRC.                                                *)
CrcOptions ==
  [B |-> [width |-> 32, polynomial |-> Word(\hEE5B, \h42FD), initial |-> {},
          reflected |-> FALSE, final |-> {}],
   C |-> [width |-> 32, polynomial |-> Word(\h1EDC, \h6F41), initial |-> 0 .. 31,
          reflected |-> TRUE, final |-> 0 .. 31],
   D |-> [width |-> 16, polynomial |-> Bits(\h1021), initial |-> {},
          reflected |-> TRUE, final |-> {}],
   E |-> [width |-> 16, polynomial |-> Bits(\h8005), initial |-> {},
          reflected |-> TRUE, final |-> {}]]

(* One bit of the division by the polynomial.                              *)
Divided(o, crc) ==
  LET shifted == ShiftLeft(crc, 1, o.width)
  IN  IF o.width - 1 \in crc THEN Xor(shifted, o.polynomial) ELSE shifted

(* A plausible slip: the entries of the table are not reflected back.      *)
TableEntryUnreflected(o, byte) ==
  LET start == ShiftLeft(IF o.reflected THEN ReflectBits(byte, 8) ELSE byte, o.width - 8, o.width)
      crc[i \in 0 .. 8] == IF i = 0 THEN start ELSE Divided(o, crc[i - 1])
  IN  crc[8]

(* The entry of a byte in the table of GenerateCrcTable.                   *)
TableEntry(o, byte) ==
  LET start == ShiftLeft(IF o.reflected THEN ReflectBits(byte, 8) ELSE byte, o.width - 8, o.width)
      crc[i \in 0 .. 8] == IF i = 0 THEN start ELSE Divided(o, crc[i - 1])
  IN  IF o.reflected THEN ReflectBits(crc[8], o.width) ELSE crc[8]

CrcTable == [code \in DOMAIN CrcOptions |->
               [byte \in Byte |-> TableEntry(CrcOptions[code], byte)]]

(* redcrc_CalculateCrc.                                                    *)
CalculateCrc(code, data) ==
  LET o == CrcOptions[code]
      first == IF o.reflected THEN ReflectBits(o.initial, o.width) ELSE o.initial
      With(crc, byte) ==
        IF o.reflected
        THEN Xor(ShiftRight(crc, 8), CrcTable[code][Xor(crc \cap (0 .. 7), byte)])
        ELSE Xor(ShiftLeft(crc, 8, o.width), CrcTable[code][Xor(ShiftRight(crc, o.width - 8), byte)])
  IN  Xor(FoldBytes(With, first, data), o.final)
=============================================================================

----------------------------- MODULE MCMessages -----------------------------
(* Messages of every type between ends that are configured alike, for all  *)
(* check codes and safety codes, and between ends that are not.            *)
EXTENDS MessagePath

Group   == << Word(\h6745, \h2301), Word(\hEFCD, \hAB89), Word(\h98BA, \hDCFE), Word(\h1032, \h5476) >>
Foreign == << Word(\hAFB1, \h6782), Word(\h304C, \h59DE), Word(\h98BA, \hDCFE), Word(\h1032, \h5476) >>
End(c, s, i) == [check |-> c, safety |-> s, initial |-> i]
Pair(a, b)   == [sender |-> a, receiver |-> b]
MCEnds ==
  {Pair(e, e) : e \in {End(c, s, Group) : c \in {"A", "B", "E"}, s \in SafetyCodes}
                        \cup {End("C", "FullMd4", Group), End("D", "LowerMd4", Group)}}
  \cup {Pair(End("B", s, Group), End("C", s, Group)) : s \in {"None"}}
  \cup {Pair(End("A", "FullMd4", Group), End("A", s, i)) :
          s \in {"LowerMd4", "FullMd4"}, i \in {Foreign}}
  \cup {Pair(End("A", "None", Group), End("A", "LowerMd4", Group)),
        Pair(End("E", "LowerMd4", Group), End("A", "None", Group))}

FullEnds == {Pair(End("A", "FullMd4", Group), End("A", "FullMd4", Group))}

(* Payload sizes around the end of a block of the safety code: 55 bytes    *)
(* and the bit count fill a block, 56 do not leave room for it, 64 fill it.*)
PayloadOf(n) == [k \in 1 .. n |-> Bits((37 * k + n) % 256)]
MCPayloads   == {PayloadOf(n) : n \in {1, 25, 26, 34}}
FullSizes    == {PayloadOf(n) : n \in {33}}

Header(s, t) == [receiver_id |-> Bits(98), sender_id |-> Bits(97), sequence_number |-> s,
                 confirmed_sequence_number |-> {}, time_stamp |-> {}, confirmed_time_stamp |-> t]
MCHeaders    == {Header(0 .. 31, {}), Header({}, Word(\h0102, \h8304))}
MCUpdates    == {<< {}, Word(\hFFFF, \hFFFF) >>, << Word(\h8000, \h0001), Bits(7) >>}
(* The message and the hashes of unit_test_srmd4.cc, lines 31 to 50.       *)
FromNumbers(numbers) == [k \in DOMAIN numbers |-> Bits(numbers[k])]
Example == FromNumbers(
  << \h24, \h00, \h4C, \h18, \h3F, \hB4, \h96, \h00, \hCE, \hCA, \h23, \h00, \h56, \h44,
     \h33, \h22, \h66, \h55, \h44, \h33, \h57, \h01, \h00, \h00, \hCB, \h00, \h00, \h00 >>)
ASSUME ExampleAssumption ==
  /\ CalculateMd4(Group, Example) = FromNumbers(
       << \h83, \hF0, \hD0, \h52, \h40, \h6B, \hF4, \h92,
          \hF8, \h9F, \h8D, \h1E, \h9B, \h89, \hC9, \h8D >>)
  /\ CalculateMd4(Foreign, Example) = FromNumbers(
       << \h93, \h9F, \h1C, \h86, \h59, \hCF, \hF5, \h03,
          \h95, \h3C, \h4E, \hD3, \h25, \h96, \h89, \h5D >>)

(* The comparison of versions, digit by digit, is the one of numbers.      *)
ValueOf(version) ==
  LET n(i) == Number(version[i]) IN ((n(1) * 256 + n(2)) * 256 + n(3)) * 256 + n(4)
ASSUME VersionAssumption ==
  \A a, b, c, d \in \h2F .. \h35 :
    LET version == << Bits(a), Bits(b), Bits(c), Bits(d) >>
    IN  IsProtocolVersionAccepted(version) <=> ValueOf(version) >= ValueOf(Version)

MCRedNumbers == {Word(\hFFFF, \hFFFE)}

(* A byte of each field of a PDU: its length and reserve bytes, number,    *)
(* and the length, type, ids, number, confirmation, time stamps, content   *)
(* and codes of the message.                                               *)
MCDamagedBytes == {2, 4, 6, 9, 11, 14, 18, 21, 26, 30, 33, 37, 38, 41, 45, 49, 60, 76, 90}
MCDamages    == {{0}}
=============================================================================

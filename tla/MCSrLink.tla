----------------------------- MODULE MCSrLink -----------------------------
EXTENDS SrLink

MCNSendMax == [s \in Sides |-> 3]
MCNSendMaxFull == [s \in Sides |-> MaxNSendMax]
MCFirstNumber ==
  [s \in Sides |-> [k \in 1 .. MaxOpens |->
     IF s = "client" THEN IF k = 1 THEN 30 ELSE 2 ELSE IF k = 1 THEN 6 ELSE 9]]
MCMaxData == [s \in Sides |-> IF s = "client" THEN 2 ELSE 0]
MCMaxDataFull == [s \in Sides |-> IF s = "client" THEN SendBufferSize ELSE 0]
=============================================================================

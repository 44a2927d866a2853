---------------------------- MODULE MCSrRecovery ----------------------------
EXTENDS SrRecovery

MCNSendMax == [s \in Sides |-> 8]
MCFirstNumber ==
  [s \in Sides |-> [k \in 1 .. MaxOpens |-> IF s = "client" THEN 29 ELSE 6]]
MCMaxData == [s \in Sides |-> IF s = "client" THEN 2 ELSE 0]
=============================================================================

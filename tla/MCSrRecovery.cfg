CONSTANTS
  Half = 16
  SendBufferSize = 12
  MaxNSendMax = 12
  TMax = 6
  TH = 1
  Granularity = 0
  MWA = 2
  SnRangeFactor = 1
  NSendMax <- MCNSendMax
  FirstNumber <- MCFirstNumber
  StartTime = 30
  MaxData <- MCMaxData
  MaxOpens = 1
  MaxCloses = 0
  MaxLosses = 2
  MaxTicks = 13
  ActiveTicks = 2
SPECIFICATION RecoveryFairSpec
CHECK_DEADLOCK FALSE
INVARIANTS StaysOpen NoAssertionFails
PROPERTIES DeliversSafely DataArrives RetransmissionEnds

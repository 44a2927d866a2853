CONSTANTS
  Half = 16
  SendBufferSize = 5
  TMax = 3
  TH = 1
  Granularity = 0
  MWA = 2
  SnRangeFactor = 2
  MaxNSendMax = 5
  NSendMax <- MCNSendMax
  FirstNumber <- MCFirstNumber
  StartTime = 30
  MaxData <- MCMaxData
  MaxOpens = 1
  MaxCloses = 0
  MaxLosses = 0
  MaxTicks = 4
SPECIFICATION Spec
INVARIANT AliveTimeInRange
CHECK_DEADLOCK FALSE

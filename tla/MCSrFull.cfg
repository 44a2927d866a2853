CONSTANTS
  Half = 16
  SendBufferSize = 5
  TMax = 3
  TH = 1
  Granularity = 0
  MWA = 2
  SnRangeFactor = 2
  MaxNSendMax = 5
  NSendMax <- MCNSendMaxFull
  FirstNumber <- MCFirstNumber
  StartTime = 30
  MaxData <- MCMaxDataFull
  MaxOpens = 1
  MaxCloses = 0
  MaxLosses = 0
  MaxTicks = 2
SPECIFICATION Spec
INVARIANT SendBufferHasRoom
CHECK_DEADLOCK FALSE

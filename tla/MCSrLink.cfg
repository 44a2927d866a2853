CONSTANTS
  Half = 16
  SendBufferSize = 5
  TMax = 2
  TH = 1
  Granularity = 1
  MWA = 2
  SnRangeFactor = 2
  MaxNSendMax = 5
  NSendMax <- MCNSendMax
  FirstNumber <- MCFirstNumber
  StartTime = 30
  MaxData <- MCMaxData
  MaxOpens = 2
  MaxCloses = 1
  MaxLosses = 1
  MaxTicks = 2
SPECIFICATION Spec
INVARIANT TypeOK
PROPERTY DeliversSafely
CHECK_DEADLOCK FALSE

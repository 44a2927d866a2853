CONSTANTS
  Half = 32
  SendBufferSize = 8
  MaxNSendMax = 8
  TMax = 5
  TH = 2
  Granularity = 1
  MWA = 1
  SnRangeFactor = 1
  Limits <- MCLimits
  Config <- MCConfig
  FirstNumber = 62
  PeerNumber = 20
  PeerNSendMax = 3
  StartTime = 61
  MaxArrivals = 3
  MaxData = 1
  MaxOpens = 2
  MaxTicks = 8
  Period = 4
SPECIFICATION Spec
INVARIANT TypeOK
INVARIANT NumbersWithoutGap
INVARIANT SilenceIsNoticed
INVARIANT ConfirmsLastProcessed
INVARIANT DiagnosticsAddUp
INVARIANT NoMessageStops
PROPERTY ConfirmsWithMessagesOnly
CHECK_DEADLOCK FALSE

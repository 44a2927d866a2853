CONSTANTS
  Half = 3
  DeferQueueSize = 1
  RangeFactor = 1
  RxBufferSize = 2
  RedLimits <- SourceRedLimits
  TSeq = 1
  NumTransports = 2
  Payloads <- MCPayloads
  NDiagnosis = 2
  StartTime = 5
  FirstSeq = 4
  MaxSent = 4
  MaxFlight = 2
  MaxRepeats = 1
  MaxOpens = 1
  MaxTicks = 2
SPECIFICATION Spec
INVARIANTS
  TypeOK
  CountersMatchHistory
PROPERTY ReportIsTrue
CHECK_DEADLOCK FALSE

CONSTANTS
  Half = 5
  DeferQueueSize = 2
  RangeFactor = 1
  RxBufferSize = 3
  TSeq = 1
  NumTransports = 1
  Payloads <- MCPayloads
  Arrivals <- MCArrivals
  TransportQueueSize = 2
SPECIFICATION Spec
INVARIANTS
  TypeOK
  RoomForDeferred
  NoBufferOverflow
  DeferQueueAhead

CONSTANTS
  Half = 4
  DeferQueueSize = 2
  RangeFactor = 1
  RxBufferSize = 1
  TSeq = 1
  NumTransports = 1
  Payloads <- MCPayloads
  Arrivals <- MCArrivals
  TransportQueueSize = 2
SPECIFICATION Spec
INVARIANT ClosedChannelDrained

CONSTANTS
  Half = 6
  DeferQueueSize = 2
  RangeFactor = 1
  RxBufferSize = 3
  TSeq = 0
  NumTransports = 2
  MaxSent = 13
  MaxAhead = 3
  Lifetime = 2
  Payloads <- MCPayloads
  Arrivals <- MCArrivals
  TransportQueueSize = 1
SPECIFICATION LinkSpec
INVARIANTS
  NothingForgotten
PROPERTIES
  DeliversInOrder

SPECIFICATION Spec
CONSTANTS
  Half = 3
  Limit = 1
  RcvWindow = 1
  MaxRetries = 1
  FrontBudget = 1
  NackMaxGap = 0
  Dequeuers = 1
  First = 0
  MaxChunks = 8
  NetCap = 1
INVARIANTS TypeOK NothingLost SpanWithinHalf
CHECK_DEADLOCK FALSE

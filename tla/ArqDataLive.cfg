SPECIFICATION FairSpec
CONSTANTS
  Half = 4
  Limit = 2
  RcvWindow = 1
  MaxRetries = 1
  FrontBudget = 1
  NackMaxGap = 1
  Dequeuers = 1
  First = 7
  MaxChunks = 9
  NetCap = 1
INVARIANTS InOrder ReorderBufferBounded
PROPERTIES ImplementsStream DeliveredUnlessMarkLost GapRecoveredUnlessBusy
CHECK_DEADLOCK FALSE

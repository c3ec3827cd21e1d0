SPECIFICATION FairSpec
CONSTANTS
  MaxRead <- OneDown
  Faults = {"write", "abort", "deadline", "inactive", "preempt"}
INVARIANTS NoTruncation HandshakeComplete
PROPERTY BothClose
CHECK_DEADLOCK FALSE

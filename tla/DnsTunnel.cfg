SPECIFICATION FairTunnelSpec
CONSTANTS
  Names = {n1}
  Answers = {a, b}
  None = none
  Seqs = {1}
  QueryFragments = 2
  MaxFaults = 3
INVARIANT WholeUnlessOverrun
PROPERTY Answered
CHECK_DEADLOCK FALSE

SPECIFICATION TunnelSpec
CONSTANTS
  Names = {n1}
  Answers = {a, b}
  None = none
  Seqs = {1}
  QueryFragments = 2
  MaxFaults = 1
INVARIANT OnlySuccessesKept
CHECK_DEADLOCK FALSE

SPECIFICATION FairSpec
CONSTANTS
  Names = {n1}
  Answers = {a}
  None = none
  Queries = {q1, q2, q3}
INVARIANTS EntryHasLeader OwnAnswerUnlessLate OneLookupUnlessLate
PROPERTIES ImplementsService QueriesEnd
CHECK_DEADLOCK FALSE

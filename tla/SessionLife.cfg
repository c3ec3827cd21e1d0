SPECIFICATION FairSpec
CONSTANTS
  MaxId = 1
  MaxActive = 1
  Signatures = {1, 2, 3}
  Cookies = {c1, c2}
  MaxSessions = 7
  MaxTokens = 3
  MaxFaults = 2
INVARIANTS OwnSession RequestHeardUnlessLost
PROPERTIES RecoversUnlessLost SlotsReclaimed
CHECK_DEADLOCK FALSE

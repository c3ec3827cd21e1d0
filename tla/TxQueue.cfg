SPECIFICATION FairSpec
CONSTANTS
  Streams = {0, 1, 2}
  Dynamic = {1}
  Packets <- MCPackets
  Orphans <- MCOrphans
  MaxBlocks = 2
  PingLimit = 1
  MaxRaces = 1
INVARIANTS CountExactUnlessRaced OwnStreamUnlessPutOff
PROPERTY ServedUnlessTopBusy

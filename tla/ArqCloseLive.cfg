SPECIFICATION FairSpec
CONSTANTS
  MaxRead <- OneEach
  Faults = {"read"}
INVARIANT HandshakeDeliversUnlessReset
PROPERTIES EofUnlessCopy BothCloseUnlessCopy
CHECK_DEADLOCK FALSE

SPECIFICATION FairSpec
CONSTANTS
  Profiles = {1, 2}
  MaxRequests = 3
  MaxStarts = 4
  MaxFaults = 1
INVARIANTS NoOrphanUnlessCleanupFails StopHoldsUnlessTorn
PROPERTIES StopHonoured ReloadHonouredUnlessRaced
CHECK_DEADLOCK FALSE
CONSTRAINT Canonical

\* Three pages: one to be on, one to be loading and one to go to.
CONSTANTS
  Total = 3
  MaxLoads = 2
SPECIFICATION FairSpec
CHECK_DEADLOCK FALSE
INVARIANTS
  WrongOnlyUntilLoaded
  DrawnOnce
PROPERTIES
  ReadyIsDrawn
  PollingReachesTheEnd

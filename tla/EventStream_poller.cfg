SPECIFICATION FairSpec
CONSTANTS
  Capacity = 1
  MaxVersion = 3
  MaxDrops = 1
  MaxPolls = 1
  LateLogs = TRUE
  DiskFaults = TRUE
  Crowded = TRUE
  Continues = TRUE
INVARIANT TypeOK
PROPERTIES PollerConverges EndIsSeen
CHECK_DEADLOCK FALSE

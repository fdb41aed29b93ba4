SPECIFICATION FairSpec
CONSTANTS
  Capacity = 4
  MaxVersion = 4
  MaxDrops = 1
  MaxPolls = 0
  LateLogs = FALSE
  DiskFaults = FALSE
  Crowded = FALSE
  Continues = FALSE
INVARIANT StreamCarriesLatest
PROPERTY PageConverges
CHECK_DEADLOCK FALSE

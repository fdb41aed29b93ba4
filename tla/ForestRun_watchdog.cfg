SPECIFICATION FairSpec
CONSTANTS
  Run = {r1, r2}
  NoRun = NoRun
  Client = {c1}
  Watchdog = {w}
  MaxForest = 1
  JSONRetries = 0
  Isolated = TRUE
  DiskFaults = TRUE
  Panics = TRUE
INVARIANT LiveIsReachable
PROPERTY StuckIsRescued
CHECK_DEADLOCK FALSE

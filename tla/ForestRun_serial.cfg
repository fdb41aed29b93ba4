SPECIFICATION FairSpec
CONSTANTS
  Run = {r1, r2}
  NoRun = NoRun
  Client = {c1}
  Watchdog = {}
  MaxForest = 1
  JSONRetries = 1
  Isolated = FALSE
  DiskFaults = FALSE
  Panics = TRUE
INVARIANTS TypeOK OneGardener SupersededIsCancelled
PROPERTIES StopIsReliable DeleteIsFinal ImplementsOneRun
CHECK_DEADLOCK FALSE

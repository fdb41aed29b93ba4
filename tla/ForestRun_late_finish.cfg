SPECIFICATION Spec
CONSTANTS
  Run = {r1, r2}
  NoRun = NoRun
  Client = {c1}
  Watchdog = {}
  MaxForest = 1
  JSONRetries = 0
  Isolated = TRUE
  DiskFaults = FALSE
  Panics = FALSE
PROPERTY SupersededOnlyExits
CHECK_DEADLOCK FALSE

SPECIFICATION FairSpec
CONSTANTS
  NTrees = 3
  MaxConcurrent = 2
  Refusable = {3, 4}
INVARIANTS TypeOK ConcurrencyBounded ValidationIsLast StageLeavesReports
PROPERTIES CancelledStageEnds StoppedTreesSettle
CHECK_DEADLOCK FALSE

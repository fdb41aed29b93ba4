SPECIFICATION FairSpec
CONSTANTS
  Task = {t1, t2}
  NoTask = NoTask
  NTrees = 1
  MaxMessages = 1
  MaxEvents = 2
  LegacyLog = {t2}
INVARIANTS TypeOK CleanOnDisk NoGhostTrees StopOutlivesCrash DeletedStaysGone EnginesFollowSettings
PROPERTIES ReloadRestores ResumesUnfinished StartsServing
CHECK_DEADLOCK FALSE

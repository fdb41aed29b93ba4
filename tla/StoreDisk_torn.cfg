SPECIFICATION Spec
CONSTANTS
  Task = {t1}
  NoTask = NoTask
  NTrees = 1
  MaxMessages = 1
  MaxEvents = 1
  LegacyLog = {}

PROPERTY RunningForestsResume
CHECK_DEADLOCK FALSE

SPECIFICATION Spec
CONSTANTS
  MaxIndex = 1
  MaxItems = 3
  MaxDeltas = 4
INVARIANTS ConversationKept EveryCallClosed DoneIsWhole
CHECK_DEADLOCK FALSE

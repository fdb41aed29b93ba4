SPECIFICATION FairSpec
CONSTANTS
  NTrees = 2
  MaxConcurrent = 1
  Refusable = {}
PROPERTY DeletedDataIsGone
CHECK_DEADLOCK FALSE

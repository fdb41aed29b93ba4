SPECIFICATION FairSpec
CONSTANTS
  Run = {r1}
  Neighbour = r2
  Scripts <- MCScripts
  Keeps <- MCKeeps
  PipeSize = 1
  OldLog <- MCOldLog
INVARIANTS AnswerIsWhole LedgerKeepsUsage UsageExact NotCountedTwice
PROPERTIES NoLineAfterReturn CancelReturns CallReturns
CHECK_DEADLOCK FALSE

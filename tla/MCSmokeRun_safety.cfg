SPECIFICATION FairSpec
CONSTANTS
  MaxPages = 2
INVARIANTS TypeOK PassIsCleanExit PassIsCompared FailHasCause
PROPERTY RunReturns
CHECK_DEADLOCK FALSE

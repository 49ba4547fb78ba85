SPECIFICATION FairSpec

CONSTANTS
  NSegments = 4
  MaxConcurrency = 2
  MaxRetries = 1
  UsePart = TRUE
  MayCancel = TRUE

INVARIANTS
  PoolInv
  FailureHasCause
PROPERTIES
  PublishesAtomically
  CallReturns
CHECK_DEADLOCK FALSE

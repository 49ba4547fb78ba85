SPECIFICATION FairSpec

CONSTANTS
  MaxHead = 4
  Window = 2
  MaxRetries = 1
  SkipUnavailable = TRUE
  MaxSkipped = 1
  MayCancel = TRUE

INVARIANTS
  OutputAscends
  ListedIsHandled
  RefreshInv
PROPERTIES
  EndIsNoticed
CHECK_DEADLOCK FALSE

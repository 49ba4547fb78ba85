SPECIFICATION FairSpec
CONSTANTS
  NPrimary = 3
  NFallback = 1
  Hedge = TRUE
  MaxRetries = 1
  PoTokenPolicy = "required"
  MayTimeout = TRUE
INVARIANTS
  WinnerIsFirst
  FallbackIsLastResort
  FailureReportComplete
PROPERTIES
  CallReturns
  NoGoroutineLeak
CHECK_DEADLOCK FALSE

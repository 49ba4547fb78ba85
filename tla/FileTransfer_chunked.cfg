SPECIFICATION FairSpec

CONSTANTS
  Total = 5
  ChunkSize = 2
  MaxConcurrency = 2
  MaxRetries = 1
  EnableChunked = TRUE
  Resume = FALSE
  UsePart = TRUE
  MayCancel = TRUE
  MayCrash = FALSE
  MaxRuns = 1

INVARIANTS
  WholeUnlessCancelled
  RootCauseReported
PROPERTIES
  CallReturns
CHECK_DEADLOCK FALSE

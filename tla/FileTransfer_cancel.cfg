SPECIFICATION Spec

CONSTANTS
  Total = 3
  ChunkSize = 1
  MaxConcurrency = 2
  MaxRetries = 1
  EnableChunked = TRUE
  Resume = FALSE
  UsePart = TRUE
  MayCancel = TRUE
  MayCrash = FALSE
  MaxRuns = 1

INVARIANTS
  CancelledTransferFails
CHECK_DEADLOCK FALSE

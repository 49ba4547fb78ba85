SPECIFICATION Spec

CONSTANTS
  Total = 3
  ChunkSize = 1
  MaxConcurrency = 2
  MaxRetries = 1
  EnableChunked = FALSE
  Resume = TRUE
  UsePart = TRUE
  MayCancel = TRUE
  MayCrash = TRUE
  MaxRuns = 3

INVARIANTS
  ResumablePrefix
PROPERTIES
  ResumedBytesKept
  PublishesAtomically
CHECK_DEADLOCK FALSE

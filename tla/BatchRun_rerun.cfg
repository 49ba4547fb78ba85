SPECIFICATION Spec
CONSTANTS
  v1 = v1
  v2 = v2
  Videos <- MCVideos
  Batches <- MCBatches
  Options <- MCOptions
  ErrorCodes = {3, 8}
  MayTear = TRUE
  MaxRuns = 2
INVARIANTS
  ExitCodeIsWorst
  CountsAreExact
  
  NeverDownloadedAgain
CHECK_DEADLOCK FALSE

SPECIFICATION Spec

CONSTANTS
  Syntax <- MCSyntax
  Number <- MCNumber
  FetchPolicies <- MCFetchPolicies
  ClientPolicies <- MCClientPolicies
  HasProvider = FALSE
  Requests <- MCRequests
  Catalogs <- MCCatalogs
  Muxer = "ffmpeg"
  HasTranscoder = TRUE
  MayCrash = TRUE
  MaxCalls = 2

INVARIANTS
  NoStrayIntermediate
  SuccessIsWhole
  CipheredOnlyIfNeeded
PROPERTIES
  OutputsAppearWhole
CHECK_DEADLOCK FALSE

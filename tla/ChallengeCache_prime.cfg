SPECIFICATION Spec

CONSTANTS
  Callers = {c1, c2}
  Players = {"A", "B"}
  Locales = {"none", "en", "de", "fr"}
  URLs <- MCURLs
  Responses <- MCResponses
  Decoders <- MCDecoders
  Known <- MCKnown
  Preferred = "de"
  TTL = 1
  ScriptTTL = 1
  MaxEntries = 2
  MaxTime = 2
  MaxCalls = 2

INVARIANTS
  SolutionsOfPlayer
PROPERTIES
  SolutionNeverStale
  VerdictIsTrue
  EvictsOldestFirst
CHECK_DEADLOCK FALSE

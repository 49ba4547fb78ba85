SPECIFICATION Spec

CONSTANTS
  Callers = {c1, c2}
  Profiles <- MCProfiles
  EmbeddedIDs = {"web_embedded"}
  TVIDs = {"tv"}
  Pages <- MCPages
  MaxCalls = 4

INVARIANTS
  FromOwnPage
PROPERTIES
  KeylessOnlyOnFailure
  SettledForGood
SYMMETRY
  Symmetry
CHECK_DEADLOCK FALSE

SPECIFICATION FairSpec

CONSTANTS
  Open = Open
  FirstPage = FirstPage
  a = a
  b = b
  c = c
  Tokens = {a, b, c}
  NextTokens <- MCNextTokens
  FirstSizes = {0, 2}
  Settings = {0, 2}
  DefaultMax = 3
  Requests <- MCRequests

INVARIANTS
  EveryPageOnce
  SelectionAsAsked
PROPERTIES
  ListingEnds

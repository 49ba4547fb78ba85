SPECIFICATION SessionSpec

CONSTANTS
  Threads = {t1, t2}
  Videos = {a, b, c}
  TTL = 1
  MaxEntries = 2
  MaxTime = 4
  MaxThreadCalls = 2

INVARIANTS
  CacheInv
PROPERTIES
  ServedWithinTTL
  LeavesByAgeOrUse
SYMMETRY
  Symmetry
CHECK_DEADLOCK FALSE

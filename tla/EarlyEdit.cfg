SPECIFICATION Spec
CONSTANTS
  Windows = {s1}
  EarlyEdits = TRUE
  MaxToggles = 0
  MaxEdits = 1
  MaxEngine = 0
INVARIANTS CacheIsTheFile
CHECK_DEADLOCK FALSE

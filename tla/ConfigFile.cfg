SPECIFICATION FairSpec
CONSTANTS
  Windows = {s1}
  EarlyEdits = FALSE
  MaxToggles = 1
  MaxEdits = 2
  MaxEngine = 1
INVARIANTS CacheIsTheFile EngineRunsTheCache
PROPERTIES RestartsForAReason ChangeReachesTray
CHECK_DEADLOCK FALSE

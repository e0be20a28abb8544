SPECIFICATION FairSpec
CONSTANTS
  LogThreads = {t1, t2}
  Failures = {"spawn", "display", "load", "setup", "fatal"}
  MaxLines = 3
  MaxCalls = 2
INVARIANTS EngineInvariant
PROPERTIES CallsReturn ChangeReachesWindow
CHECK_DEADLOCK FALSE

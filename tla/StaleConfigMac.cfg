SPECIFICATION FairSpec
CONSTANTS
  LogThreads = {t1}
  Failures = {"setup", "fatal"}
  MaxLines = 0
  MaxEvents = 3
INVARIANT ConfigApplied
CHECK_DEADLOCK FALSE

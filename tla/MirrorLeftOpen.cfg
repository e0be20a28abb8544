SPECIFICATION FairSpec
CONSTANTS
  LogThreads = {t1}
  Failures = {"setup", "fatal"}
  MaxLines = 1
  MaxEvents = 2
INVARIANT MirrorHidden
CHECK_DEADLOCK FALSE

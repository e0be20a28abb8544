SPECIFICATION FairSpec
CONSTANTS
  LogThreads = {t1}
  Failures = {"setup", "fatal"}
  MaxLines = 1
  MaxEvents = 2
INVARIANT StatusSettles
CHECK_DEADLOCK FALSE

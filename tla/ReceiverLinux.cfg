SPECIFICATION AppSpec
CONSTANTS
  LogThreads = {t1}
  Failures = {"setup", "fatal"}
  MaxLines = 2
  MaxCalls = 0
  MaxEvents = 2
INVARIANTS Settles
CHECK_DEADLOCK FALSE

SPECIFICATION FairAppSpec
CONSTANTS
  LogThreads = {t1}
  Failures = {"fatal"}
  MaxLines = 2
  MaxCalls = 0
  MaxEvents = 1
PROPERTIES FailureStopsItsOwnRun
CHECK_DEADLOCK FALSE

SPECIFICATION FairAppSpec
CONSTANTS
  LogThreads = {t1}
  Failures = {"setup", "fatal"}
  MaxLines = 2
  MaxCalls = 0
  MaxEvents = 2
INVARIANTS Settles FailureShown
PROPERTIES FailedEngineTornDown QuitExits
CHECK_DEADLOCK FALSE

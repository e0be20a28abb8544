SPECIFICATION FairAppSpec
CONSTANTS
  LogThreads = {t1}
  Failures = {"dll"}
  MaxLines = 2
  MaxCalls = 0
  MaxEvents = 1
INVARIANTS FailureShown
CHECK_DEADLOCK FALSE

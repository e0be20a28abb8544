SPECIFICATION FairSpec
CONSTANTS
  LogThreads = {t1, t2}
  Failures = {"spawn", "window", "dll", "setup", "fatal"}
  MaxLines = 2
  MaxCalls = 2
INVARIANTS TypeOK SingleEngine WindowOutlivesUsers SlotMatchesWorker
PROPERTIES CallsReturn IdleWindowHidden KeepsContract
CHECK_DEADLOCK FALSE

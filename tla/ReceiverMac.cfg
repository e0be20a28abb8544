SPECIFICATION FairSpec
CONSTANTS
  LogThreads = {t1}
  Failures = {"window", "setup", "fatal"}
  MaxLines = 2
  MaxEvents = 3
INVARIANTS TypeOK LatestIntentWins RunningIsTrue MenuSettles QuitIsClean
PROPERTIES QuitExits TransitionsEnd KeepsContract
CHECK_DEADLOCK FALSE

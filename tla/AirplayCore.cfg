SPECIFICATION FairSpec
CONSTANTS
  MaxLoops = 4
  MaxStarts = 2
INVARIANTS LatchMeansStop
PROPERTIES StopReturns Reconnects KeepsContract
CHECK_DEADLOCK FALSE

SPECIFICATION FairSpec
CONSTANTS
  MaxLoops = 2
  MaxStarts = 1
INVARIANTS QuitsLiveLoop
CHECK_DEADLOCK FALSE

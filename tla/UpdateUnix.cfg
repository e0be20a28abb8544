SPECIFICATION FairSpec
CONSTANTS
  Trays = {p1}
  Installers = {i1, i2}
  MaxClicks = 3
  Faults = {"aside", "in"}
  Inodes = {1, 2, 3}
  OrphansOverlap = FALSE
INVARIANTS UpdateInvariant
PROPERTIES KeepsPromise InstallEnds
CHECK_DEADLOCK FALSE

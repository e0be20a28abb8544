SPECIFICATION Spec
CONSTANTS
  Trays = {p1}
  Installers = {i1, i2}
  MaxClicks = 2
  Inodes = {1, 2, 3}
  OrphansOverlap = TRUE
INVARIANTS VerifiedOnly
CHECK_DEADLOCK FALSE

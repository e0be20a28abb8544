SPECIFICATION Spec
CONSTANTS
  Trays = {p1}
  Installers = {i1, i2}
  MaxClicks = 3
  Faults = {"in", "back"}
INVARIANTS Whole
CHECK_DEADLOCK FALSE

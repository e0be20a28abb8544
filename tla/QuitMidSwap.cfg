SPECIFICATION Spec
CONSTANTS
  Trays = {p1}
  Installers = {i1, i2}
  MaxClicks = 3
  Faults = {}
INVARIANTS Startable
CHECK_DEADLOCK FALSE

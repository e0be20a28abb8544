SPECIFICATION Spec
CONSTANTS
  Trays = {p1}
  Installers = {i1, i2}
  MaxClicks = 3
  Faults = {}
PROPERTIES SuccessIsLast
CHECK_DEADLOCK FALSE

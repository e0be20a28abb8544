SPECIFICATION Spec
CONSTANTS
  Windows = {s1}
  EarlyEdits = FALSE
  MaxToggles = 1
  MaxEdits = 1
  MaxEngine = 0
PROPERTIES DefaultsNeverReplace
CHECK_DEADLOCK FALSE

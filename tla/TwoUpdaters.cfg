SPECIFICATION Spec
CONSTANTS
  Updaters = {u1, u2}
  Files = {"exe", "dll", "uninstall"}
  Zip = {"exe", "dll"}
  MaxRuns = 2
INVARIANTS Whole
CHECK_DEADLOCK FALSE

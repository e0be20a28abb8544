SPECIFICATION Spec
CONSTANTS
  Updaters = {u1}
  Files = {"exe", "dll", "uninstall"}
  Zip = {"exe", "dll"}
  MaxRuns = 3
INVARIANTS TypeOK
PROPERTIES SaysWhatItDid KeepsPromise
CHECK_DEADLOCK FALSE

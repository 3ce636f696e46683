\* Two paths, one hash, two operations.
CONSTANTS
  NumPaths = 2
  Contents = {"x", "y"}
  HashBudget = 1
  Caps = {1, 3}
  MaxOps = 2
SPECIFICATION TrackerSpec
CHECK_DEADLOCK FALSE
INVARIANTS
  NothingMissed
  NothingInvented

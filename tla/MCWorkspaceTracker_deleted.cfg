\* The same workspaces: a tool that does nothing reports nothing.
CONSTANTS
  NumPaths = 2
  Contents = {"x", "y"}
  HashBudget = 1
  Caps = {1, 3}
  MaxOps = 2
SPECIFICATION TrackerSpec
CHECK_DEADLOCK FALSE
INVARIANT NoChangeNoReport

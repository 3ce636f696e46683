\* A check and a plain tool; a task about documents; limits far enough apart
CONSTANTS
  Actions = {pytest, editFile}
  Commands = {pytest}
  Checks = {pytest}
  DocumentTask = TRUE
  MaxSteps = 5
  MaxModelCalls = 6
  MaxErrors = 5
  MaxTimeouts = 2
  RepeatLimit = 3
  StagnationLimit = 4
SPECIFICATION HistorySpec
INVARIANT FinishedIsFresh
CHECK_DEADLOCK FALSE

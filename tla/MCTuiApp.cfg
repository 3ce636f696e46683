\* Three workers, three lines.
CONSTANTS
  MaxWorkers = 3
  MaxLines = 3
SPECIFICATION AppSpec
CHECK_DEADLOCK FALSE
INVARIANTS
  RunsTakeTurns
  ShownIsCurrent
PROPERTIES
  ExitIsDeliberate
  ComposerReturns

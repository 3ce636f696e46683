\* A check and a plain tool; a task about documents.
CONSTANTS
  Actions = {pytest, editFile}
  Commands = {pytest}
  Checks = {pytest}
  DocumentTask = TRUE
  MaxSteps = 4
  MaxModelCalls = 5
  MaxErrors = 4
  MaxTimeouts = 2
  RepeatLimit = 3
  StagnationLimit = 4
SPECIFICATION FairLoopSpec
INVARIANTS
  LoopTypeOK
  LimitsRespected
  ReadyIsCurrent
  CompletionJustified
  RepetitionWasHinted
PROPERTIES
  LoopEnds
CHECK_DEADLOCK FALSE

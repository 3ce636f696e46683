\* Two runs of one session, two turns, two tools, two call ids.
CONSTANTS
  RunIds = {r1, r2}
  CallIds = {c1, c2}
  Tools = {runCommand, readFile}
  RunCommand = runCommand
  MaxModelCalls = 2
  MaxMessages = 5
  Unlimited = Unlimited
  NoRun = NoRun
  NoCall = NoCall
  NoTool = NoTool
  NoSnapshot = NoSnapshot
SPECIFICATION FairRunSpec
INVARIANTS
  RunTypeOK
  FinishedIsDurable
  TraceIsPrefix
  TurnsBalanced
  ToolsEnd
  FactsBeforeEvents
  CancelFindsNoTool
  OneStartAfterCancel
  CompletionOutrunsCancel
  NothingKeepsRunning
  ShownIsRecorded
  CancelledRunResolved
PROPERTIES
  EveryRunReleases
  ImplementsLifecycle

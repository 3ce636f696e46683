\* Two runs of one session, one turn each.
CONSTANTS
  RunIds = {r1, r2}
  CallIds = {c1}
  Tools = {runCommand, readFile}
  RunCommand = runCommand
  MaxModelCalls = 1
  MaxMessages = Unlimited
  Unlimited = Unlimited
  NoRun = NoRun
  NoCall = NoCall
  NoTool = NoTool
  NoSnapshot = NoSnapshot
SPECIFICATION RunSpec
INVARIANT SuccessIsCommitted

\* The same sessions: the parts of a prompt stay in their order.
CONSTANTS
  RunIds = {r1, r2}
  CallIds = {c1, c2}
  Tools = {readFile, finish}
  FinishTool = finish
  MaxMessages = 4
  Extras <- MCExtras
  Budgets = {5, 26, 42, 60}
  Tokens <- MCTokens
  Unlimited = Unlimited
  NoRun = NoRun
  NoCall = NoCall
  NoTool = NoTool
  NoSnapshot = NoSnapshot
SYMMETRY Symmetric
SPECIFICATION SessionSpec
INVARIANT SourceOrderKept

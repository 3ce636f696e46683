\* Three runs, two call ids, two tools, at most four messages; budgets that cut
\* the system prompt, hold all of the base but the hint, a few facts, or all.
CONSTANTS
  RunIds = {r1, r2, r3}
  CallIds = {c1, c2}
  Tools = {readFile, finish}
  FinishTool = finish
  MaxMessages = 4
  Extras <- MCExtras
  Budgets = {5, 26, 42, 60}
  Tokens <- MCTokens
  Unlimited = Unlimited
  NoRun = NoRun
  NoCall = NoCall
  NoTool = NoTool
  NoSnapshot = NoSnapshot
SYMMETRY Symmetric
SPECIFICATION SessionSpec
INVARIANTS
  SessionTypeOK
  ToolFactsPaired
  ActiveIsNewest
  CompletedHistoryResolved
  PromptIsWhole
  PromptFits

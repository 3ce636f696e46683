\* Three attempts at 101 answers, whole or cut into chunks in any order.
CONSTANTS
  Tools <- MCTools
  Demanding = {"apply_patch", "finish"}
  Finish = "finish"
  Answers <- MCAnswers
  MaxRetries = 3
  RunId = r1
  NoRunId = NoRunId
  PreviewChars = 2
SPECIFICATION CallSpec
CHECK_DEADLOCK FALSE
INVARIANTS
  ShownIsOneAnswer
  ActedOnWhole
  StreamAgrees

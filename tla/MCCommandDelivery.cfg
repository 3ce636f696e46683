\* One chunk of the command, one of a background process.
CONSTANTS
  ChunkSizes = {1, 2}
  MaxChunks = 1
  LateChunks = 1
  PipeSize = 1
  MaxOutput = 2
  ExitCodes <- MCExitCodes
  NoRunId = NoRunId
  PreviewChars = 2
  RunId = r1
  Cmd = c1
SPECIFICATION DeliverySpec
CHECK_DEADLOCK FALSE
INVARIANTS
  ResultTells
  OutputIsComplete
  CardTellsEnd
  RenderedOrPending
PROPERTIES
  CancelEnds

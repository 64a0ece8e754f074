SPECIFICATION SessionsSpec
CONSTANTS
  RequestedCapacity = 2
  NodeCount = 3
  Lookahead = 1
  MaxFrames = 2
  NodeStatuses = {"Nomem", "Io"}
  Failing = {0, 2}
  FileSource = TRUE
  FileSink = TRUE
INVARIANTS SessionsEofIsComplete
PROPERTIES SessionsCarryStream LiveReaderIsTold CloseReturns
CHECK_DEADLOCK FALSE

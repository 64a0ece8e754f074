SPECIFICATION RaceSpec
CONSTANTS
  RequestedCapacity = 0
  NodeCount = 4
  Lookahead = 0
  MaxFrames = 3
  NodeStatuses = {"Hw"}
  Failing = {1}
  FileSource = FALSE
  FileSink = FALSE
INVARIANTS ProcessedFramesDelivered
CHECK_DEADLOCK FALSE

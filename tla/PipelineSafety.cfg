SPECIFICATION Spec
CONSTANTS
  RequestedCapacity = 0
  NodeCount = 4
  Lookahead = 0
  MaxFrames = 1
  NodeStatuses = {"Hw", "Io"}
  Failing = {1, 2}
  FileSource = FALSE
  FileSink = FALSE
INVARIANTS IInv EofMeansComplete ReaderNotStranded WaitAgreesWithPull LastEdgeDrained
PROPERTIES EndIsFinal CarriesStream
CHECK_DEADLOCK FALSE

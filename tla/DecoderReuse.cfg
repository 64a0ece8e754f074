SPECIFICATION Spec
CONSTANTS
  RequestedCapacity = 1
  MaxPackets = 3
  InputSlots = 1
  Lookahead = 1
  Buffers = {"b1", "b2"}
  MaxNaps = 1
  Parts = 2
  MppFaults = TRUE
  SvtFaults = TRUE
INVARIANTS PictureIntact
CHECK_DEADLOCK FALSE

SPECIFICATION Spec
CONSTANTS
  LtrStart = 1
  LtrPeriod = 3
  GopSizes = {0, 3}
  SessionQp = 20
  EncPatches = {10, 20, 40}
  DecPatches = {10, 20, 30}
  Dynamic = FALSE
  Solved = {0, 63}
  Payloads = {2}
  HeaderSize = 2
  RecordSize = 2
  MaxFrames = 4
INVARIANTS EveryFrameIsReported
CHECK_DEADLOCK FALSE

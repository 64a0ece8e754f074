SPECIFICATION Spec
CONSTANTS
  Formats = {"Unknown", "Nv12"}
  Dimensions = {"width", "stride"}
  Sizes = {0, 1, 2}
  Modifiers = {0, 1}
INVARIANTS BridgeOnlyOnConflict
CHECK_DEADLOCK FALSE

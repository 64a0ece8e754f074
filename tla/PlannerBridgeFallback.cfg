SPECIFICATION Spec
CONSTANTS
  Formats = {"Unknown", "Nv12", "P010", "Bitstream"}
  Dimensions = {"width"}
  Sizes = {0, 1, 2}
  Modifiers = {0}
  StepCount = 4
  Lines <- TranscodeLines
  MaxFallbacks = 8
PROPERTIES OpenFailureFallsBack
CHECK_DEADLOCK FALSE

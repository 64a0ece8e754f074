SPECIFICATION PartsSpec
CONSTANTS
  Formats = {"Nv12", "P010"}
  Dimensions = {"width", "stride"}
  Sizes = {0, 1, 2}
  Modifiers = {0, 1}
  Ids <- MCIds
  Libraries <- MCLibraries
  SearchPath <- MCSearchPath
  Bundles <- MCBundles
  Requests <- MCRequests
  PesChunk = 4
  MaxPayload = 12
  MaxBuffered = 60
  PtsModulus = 2
  Units <- MCUnits
  MaxUnits = 3
  Pieces = {1, 2, 29}
  Joins = {0, 15, 52}
  Variants <- MCVariants
  SymbolBits = 3
  BypassBits = 2
  ValueBits = 6
  Tables <- MCTables
  Indices <- MCIndices
  Values <- MCValues
  MaxValues = 3
  Tensors <- MCTensors
  Blocks <- MCBlocks
  BlockSize = 2
  Pictures <- MCPictures
  Cores <- MCCores
  Latents <- MCLatents
  MaxScale = 3
INVARIANTS MergeAdmitsBoth RefusedOnConflict PlanIgnoresListing FactoriesStayLoaded
  FramesAreThoseMuxed RoundTrip TensorsKeepElements
  PicturesKeepSamples
CHECK_DEADLOCK FALSE

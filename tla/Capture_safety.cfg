SPECIFICATION Spec
CONSTANTS
  NLayers = 2
  NDocs = 3
  NCtx = 3
  UBatch = 2
  Stride = 2
  DocIds <- SomeIds
  IndexSpace = 8
  Prefix = 2
  Modes = {"off", "full", "tail"}
  MaxText = 4
  MaxFaults = 1
  Nothing = Nothing
INVARIANTS TypeOK StreamsAligned AcceptedIsWhole HiddenFollowsFlags StrideCheckIsExact CleanBaselineAccepted
CHECK_DEADLOCK FALSE

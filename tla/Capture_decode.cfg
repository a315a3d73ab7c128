SPECIFICATION Spec
CONSTANTS
  NLayers = 1
  NDocs = 1
  NCtx = 3
  UBatch = 2
  Stride = 2
  DocIds <- SomeIds
  IndexSpace = 8
  Prefix = 2
  Modes = {"full"}
  MaxText = 4
  MaxFaults = 0
  Nothing = Nothing
INVARIANTS CleanVariantAccepted
CHECK_DEADLOCK FALSE

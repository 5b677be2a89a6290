\* A preheader that falls through to its loop.
CONSTANTS
  Blocks <- B6
  Entry = 1
  Units <- AllUnits
  Functions <- FallThrough
  OtherMasks = {}
SPECIFICATION Spec
CHECK_DEADLOCK FALSE
INVARIANTS Powered

\* A loop that exits before a call; the callee is gated code.
CONSTANTS
  Blocks <- B6
  Entry = 1
  Units <- AllUnits
  Functions <- Calls
  OtherMasks <- GatedOthers
SPECIFICATION Spec
CHECK_DEADLOCK FALSE
INVARIANTS Powered

\* Every flow graph of four blocks, and some of six chosen for their loops.
CONSTANTS
  Blocks <- B6
  Entry = 1
  Units <- AllUnits
  Functions <- AllFunctions
  OtherMasks <- GatedOthers
SPECIFICATION Spec
CHECK_DEADLOCK FALSE
INVARIANTS TypeOK StarvedWhereKnown OffTraceAllOn TraceHoldsMask
PROPERTIES LoopEntryGated HotTraceUngated

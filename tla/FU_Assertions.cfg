CONSTANTS
  OnLatency = 4
  OffLatency = 3
  Wrap = 1000
  MaxTime = 13
SPECIFICATION Spec
CHECK_DEADLOCK FALSE
INVARIANTS AssertionsHold

\* Two units with different latencies, gated by every sequence of masks.
CONSTANTS
  N = 2
  OnLatency <- OnLatencies
  OffLatency <- OffLatencies
  AlwaysShown = {1}
  Wrap = 1000
  TickModulus = 4096
  MaxTime = 5
SPECIFICATION Spec
CHECK_DEADLOCK FALSE
INVARIANTS TypeOK AccountedWithinRun
PROPERTIES RequestsImplementGating

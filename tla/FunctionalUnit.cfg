\* A unit whose off latency exceeds half its on latency, interrupted at every point.
CONSTANTS
  OnLatency = 4
  OffLatency = 3
  Wrap = 1000
  MaxTime = 13
SPECIFICATION Spec
CHECK_DEADLOCK FALSE
INVARIANTS TypeOK OnOffDisjoint NeverAvailableEarly SettlesInTime
PROPERTIES ReportsGrow

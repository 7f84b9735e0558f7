SPECIFICATION Spec
CONSTANTS
  Capacity = 2
  Period = 4
  TicksPerMs = 1
  LockLimit = 3
  MaxLatency = 0
  MaxReadAge = 0
  MaxTime = 13
INVARIANT QuotaBounded

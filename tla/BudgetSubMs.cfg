SPECIFICATION Spec
CONSTANTS
  Capacity = 2
  Period = 4
  TicksPerMs = 2
  LockLimit = 3
  MaxLatency = 0
  MaxReadAge = 0
  MaxTime = 12
INVARIANT NeverUnderAccounts

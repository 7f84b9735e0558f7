SPECIFICATION Spec
CONSTANTS
  Capacity = 2
  Period = 3
  TicksPerMs = 2
  LockLimit = 3
  MaxLatency = 1
  MaxReadAge = 1
  MaxTime = 18
INVARIANTS
  UnderAccountsByTruncation
  PhaseAligned
  ReadmittedInTime
  QuotaUnlessEmpty
  OverrunJustified
PROPERTY
  LockCannotEraseExhaustion

SPECIFICATION FairSpec
CONSTANTS
  Threads = {t1, t2}
  MaxDepth = 2
  MaxDelay = 2
  Wakers = {w}
  TicksPerMs = 2
  MaxTime = 2
  MaxEvents = 4
INVARIANTS
  NoStaleDeadline
  LateByClaimLag
PROPERTY
  RearmCompletes

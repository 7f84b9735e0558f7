SPECIFICATION Spec
CONSTANTS
  Threads = {t1, t2}
  MaxDepth = 1
  MaxDelay = 4
  Wakers = {}
  TicksPerMs = 2
  MaxTime = 4
  MaxEvents = 3
INVARIANT
  NeverLate

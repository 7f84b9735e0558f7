SPECIFICATION Spec
CONSTANTS
  Tasks = {0, 2, 3, 4}
  MAIN = 0
  Sems = {}
  Mutexes = {m1}
  PriorityLevels = 3
  MaxCount = 1
  MaxDepth = 2
  ExitHoldingMutex = FALSE
INVARIANTS
  MutexOwnership
  DonationsExact
  QueuesOrdered
PROPERTY
  NoOvertaking

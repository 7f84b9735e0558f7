SPECIFICATION Spec
CONSTANTS
  Tasks = {0, 2, 3}
  MAIN = 0
  Sems = {s1}
  Mutexes = {m1, m2}
  PriorityLevels = 3
  MaxCount = 1
  MaxDepth = 1
  ExitHoldingMutex = FALSE
SYMMETRY MutexSymmetry
INVARIANTS
  WaitOwnership
  PermitsConserved
  MutexOwnership
  DonationsExact
  QueuesOrdered
  NoWaitCycle
  NoDanglingWait
  NoFault

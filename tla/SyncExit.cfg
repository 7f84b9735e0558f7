SPECIFICATION Spec
CONSTANTS
  Tasks = {0, 2}
  MAIN = 0
  Sems = {}
  Mutexes = {m1}
  PriorityLevels = 2
  MaxCount = 1
  MaxDepth = 1
  ExitHoldingMutex = TRUE
INVARIANT
  NoFault

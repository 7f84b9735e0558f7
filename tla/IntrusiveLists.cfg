SPECIFICATION Spec
CONSTANTS
  TaskSlots = 5
  PriorityLevels = 2
  sem = sem
  Waits = {sem}
  Reconfigurable = {2, 3}
INVARIANT AuditExact
PROPERTY ImplementsQueues

SPECIFICATION Spec
CONSTANTS
  TaskSlots = 3
  PriorityLevels = 2
  Reconfigurable = {0, 1, 2}
  UserPolicies = {"Budgeted", "Preemptive"}
  MaxLockDepth = 0
  MaxIrqDepth = 1
INVARIANT IdleNeverQueued

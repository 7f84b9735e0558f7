SPECIFICATION FairSpec
CONSTANTS
  TaskSlots = 3
  PriorityLevels = 2
  Reconfigurable = {0}
  UserPolicies = {"Preemptive"}
  MaxLockDepth = 1
  MaxIrqDepth = 1
PROPERTIES
  HandoffCompletes
  WakePreempts
  NoOvertaking

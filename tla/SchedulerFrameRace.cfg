SPECIFICATION Spec
CONSTANTS
  TaskSlots = 3
  PriorityLevels = 2
  Reconfigurable = {2}
  UserPolicies = {"Budgeted", "Preemptive"}
  MaxLockDepth = 2
  MaxIrqDepth = 2
INVARIANT DeliveryFindsFrame

SPECIFICATION Spec
CONSTANTS
  TaskSlots = 3
  PriorityLevels = 2
  Reconfigurable = {2}
  UserPolicies = {"Budgeted", "Preemptive"}
  MaxLockDepth = 2
  MaxIrqDepth = 2
INVARIANTS
  TypeOK
  ReadyOwnership
  FrameOwnership
  LockDiscipline
  HandoffArmed
  AssertionsHold
PROPERTIES
  NoSwitchWhileLocked
  ImplementsProcessor

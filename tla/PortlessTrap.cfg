SPECIFICATION Spec
CONSTANTS
  TaskSlots = 3
  PriorityLevels = 2
  EpilogueLinked = TRUE
INVARIANT IrqDoesNotSwitch
CHECK_DEADLOCK FALSE

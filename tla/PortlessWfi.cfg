SPECIFICATION FairSpec
CONSTANTS
  TaskSlots = 3
  PriorityLevels = 2
  EpilogueLinked = FALSE
PROPERTIES
  WakeEndsIdle

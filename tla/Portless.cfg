SPECIFICATION FairSpec
CONSTANTS
  TaskSlots = 4
  PriorityLevels = 2
  EpilogueLinked = FALSE
PROPERTIES
  ImplementsProcessor
  IdleYields

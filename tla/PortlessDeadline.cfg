SPECIFICATION Spec
CONSTANTS
  TaskSlots = 3
  PriorityLevels = 2
  EpilogueLinked = FALSE
PROPERTY DeadlinesObserved

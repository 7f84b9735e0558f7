SPECIFICATION Spec
CONSTANTS
  MAIN = 0
  Slots = {2, 3}
  TableSize = 2
  Stacks = {s1, s2, s3}
  Plans <- NoPlans
  MaxReservations = 0
  MaxSpawns = 3
SYMMETRY StackSymmetry
INVARIANT
  SpawnNamesItsTask

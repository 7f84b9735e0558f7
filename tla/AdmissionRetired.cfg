SPECIFICATION Spec
CONSTANTS
  MAIN = 0
  Slots = {2, 3, 4}
  TableSize = 2
  Stacks = {s1, s2, s3, s4, s5, s6}
  Plans <- NoPlans
  MaxReservations = 0
  MaxSpawns = 6
SYMMETRY StackSymmetry
INVARIANT
  RetiredFits

SPECIFICATION Spec
CONSTANTS
  MAIN = 0
  Slots = {2, 3}
  TableSize = 2
  Stacks = {s1, s2, s3, s4}
  Plans <- SmallPlans
  MaxReservations = 3
  MaxSpawns = 4
SYMMETRY StackSymmetry
INVARIANTS
  StackOwnership
  PromisesBacked
  ReleasedTokensStale
  IdentitiesFresh

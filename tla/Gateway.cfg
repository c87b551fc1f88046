SPECIFICATION Spec
CONSTANTS
  a = a
  b = b
  c = c
  Minute = 2
  Limit = 2
  Items = {a, b, c}
  Sizes = {0, 1, 3}
  DefaultSize = 1
  MaxSize = 2
  None = None
  MaxTime = 5
  MaxRefused = 1
  MaxWrites = 2
\* The clock stops.
CHECK_DEADLOCK FALSE
SYMMETRY Alike
INVARIANTS
  BurstBounded
  RefusedOnlyWhenSpent
  NoItemSkipped

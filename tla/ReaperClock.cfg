SPECIFICATION Spec
CONSTANTS
  Min = 2
  Max = 5
  Timeout = 4
INVARIANTS WalkTakesOldest WaitNeverZero ClosedOnTime

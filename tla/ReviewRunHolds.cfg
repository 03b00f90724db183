SPECIFICATION Spec
CONSTANTS
  UnitCount = 1
  RunCount = 2
INVARIANTS HoldsAreReclaimable
CHECK_DEADLOCK FALSE

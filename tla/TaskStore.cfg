SPECIFICATION Spec
CONSTANTS
  p = p
  q = q
  u = u
  v = v
  Procs = {p, q}
  Contents = {u, v}
  Retention = 1
  MaxTime = 1
  MaxMoves = 2
SYMMETRY Symmetry
INVARIANTS LinkedTraceIsWhole CleanedStaysClean CompleteResultIsTraced NoStandInForTrace
CHECK_DEADLOCK FALSE

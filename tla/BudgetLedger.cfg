SPECIFICATION Spec
CONSTANTS
  r1 = r1
  Runtimes = {r1}
  c1 = c1
  c2 = c2
  c3 = c3
  Calls = {c1, c2, c3}
  Amounts = {1, 2}
  Requested = 3
  MaxAuthorization = 4
CHECK_DEADLOCK FALSE
SYMMETRY Symmetry
INVARIANTS TypeOK LedgerMatchesReservations DeficitBlocks OverageIsDisclosed
PROPERTIES HistoryIsKept ImplementsTokenCap

SPECIFICATION Spec
CONSTANTS
  r1 = r1
  r2 = r2
  Runtimes = {r1, r2}
  c1 = c1
  c2 = c2
  Calls = {c1, c2}
  Amounts = {1, 2}
  Requested = 3
  MaxAuthorization = 4
CHECK_DEADLOCK FALSE
INVARIANTS HoldsFitAuthorization

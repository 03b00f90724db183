SPECIFICATION Spec
CONSTANTS
  a = a
  b = b
  i1 = i1
  Callers = {a, b}
  Bindings = {i1}
  k1 = k1
  k2 = k2
  Phases = {1, 2, 3}
  Ids = {k1, k2}
  LeaseTicks = 2
  MaxTokens = 2
  MaxSnapshots = 1
SYMMETRY Symmetry
INVARIANTS TypeOK VersionIdentifiesState ChainIsWhole
PROPERTIES ImplementsFencedLog

SPECIFICATION Spec
CONSTANTS
  Paths = {1, 2}
  MaxFiles = 2
  MaxChangedLines = 4
  MaxPhysicalLines = 12
  TextBytes <- MCTextBytes
  Dialects <- MCDialects
  PagesOf <- MCPagesOf
  Capacities <- MCCapacities
CHECK_DEADLOCK FALSE
INVARIANTS VersionIsFixed

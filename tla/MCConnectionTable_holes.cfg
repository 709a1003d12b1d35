\* Two of three registered connections finish before a fourth is accepted.
CONSTANTS
  Conns = {c1, c2, c3, c4}
  ALLOCATION_DELTA = 10
  MaxOrphans = 0
  NULL = NULL
SPECIFICATION Spec
INVARIANT ScansActiveConnections
CHECK_DEADLOCK FALSE

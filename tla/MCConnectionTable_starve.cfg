\* A slot behind a hole is never scanned again.
CONSTANTS
  Conns = {c1, c2, c3, c4}
  ALLOCATION_DELTA = 10
  MaxOrphans = 0
  NULL = NULL
SPECIFICATION FairSpec
PROPERTY DoneIsReleased
CHECK_DEADLOCK FALSE

\* Four live connections at most, growth by two: the array grows twice.
CONSTANTS
  Conns = {c1, c2, c3, c4}
  ALLOCATION_DELTA = 2
  MaxOrphans = 1
  NULL = NULL
SPECIFICATION FairSpec
INVARIANTS
  TypeOK
  CountExact
  InsertFindsSlot
  RegisteredOnce
  WorkerOwnsMemory
PROPERTIES
  ImplementsLifetime
  ReturnsToAccept
CHECK_DEADLOCK FALSE

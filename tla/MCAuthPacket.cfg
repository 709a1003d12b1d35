\* Packets cut at every byte.
CONSTANTS
  Packets <- MCPackets
  Stray <- MCStray
SPECIFICATION Spec
INVARIANTS
  TypeOK
  AcceptsWhole
  ReadsBack
CHECK_DEADLOCK FALSE

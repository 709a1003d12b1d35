\* The database of the packets of the first run.
CONSTANTS
  Packets <- MCPackets
  Stray <- MCStray
SPECIFICATION Spec
INVARIANT NamesDatabase
CHECK_DEADLOCK FALSE

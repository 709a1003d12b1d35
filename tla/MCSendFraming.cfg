\* Packets of 258 bytes, three at most, and messages up to four packets long.
CONSTANTS
  MaxPacket = 258
  MaxPackets = 3
  Sizes <- MCSizes
  Ids <- MCIds
SPECIFICATION Spec
INVARIANTS
  TypeOK
  Reassembles
  RefusesOnlyTooLong
CHECK_DEADLOCK FALSE

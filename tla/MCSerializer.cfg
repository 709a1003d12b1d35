\* Pages of eight bytes, and calls until nine bytes have been written.
CONSTANTS
  Page = 8
  Values8 <- MCValues8
  Values16 <- MCValues16
  ValuesLcb <- MCValuesLcb
  Strings <- MCStrings
  MaxNeed = 9
  MaxCursor = 9
SPECIFICATION Spec
INVARIANTS
  TypeOK
  WasteBounded
PROPERTY ImplementsStream

\* A wildcard that does not end the query is not copied as a string.
CONSTANTS
  Character <- MCCharacter
  Queries <- MCQueries
  Selects <- MCSelects
  Stray <- MCStray
  DescribeRoom = 22
SPECIFICATION Spec
INVARIANT WildcardInserted
CHECK_DEADLOCK FALSE

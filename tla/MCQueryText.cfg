\* Statements with one LIMIT, any three words, and the other kinds of queries.
CONSTANTS
  Character <- MCCharacter
  Queries <- MCQueries
  Selects <- MCSelects
  Stray <- MCStray
  DescribeRoom = 22
SPECIFICATION Spec
INVARIANTS
  TypeOK
  RejectsOnlyWithoutLimit
  Rearranges
  OverrunsOnlyWithoutRoom
  SelectLimitBecomesTop
PROPERTY ScanAdvances
CHECK_DEADLOCK FALSE

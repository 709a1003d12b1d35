\* Texts of at most three characters, in both builds.
CONSTANTS
  Texts <- MCTexts
  Points <- MCPoints
  Stray <- MCStray
SPECIFICATION Spec
INVARIANTS
  TypeOK
  OverrunsAtZeroOnly
  ReturnsTerminated
  ReturnsPastSwallowedZero
PROPERTY DecodesUtf8
CHECK_DEADLOCK FALSE

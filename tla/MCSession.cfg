\* Three commands, two of them in flight at a time.
CONSTANTS
  Natives <- MCNatives
  Ids <- MCIds
  MaxCommands = 3
  MaxPipeline = 2
  NULL = NULL
SPECIFICATION FairSpec
INVARIANTS
  TypeOK
  AnswersInOrder
  BufferHandOff
  AnswersNeedDatabase
  NoMutualWait
  EndsOnItsOwnAccount
  HeapAccounted
PROPERTIES
  ImplementsPromise
  Answered
  QuitFinishes
CHECK_DEADLOCK FALSE

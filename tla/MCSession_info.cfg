\* An informational record whose code the status table does not have.
CONSTANTS
  Natives <- MCNatives
  Ids <- MCIds
  MaxCommands = 2
  MaxPipeline = 2
  NULL = NULL
SPECIFICATION Spec
INVARIANT InfoIsSuccess
CHECK_DEADLOCK FALSE

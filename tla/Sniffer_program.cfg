SPECIFICATION Spec
CONSTANTS
  Environments <- MCEnvironments
  Chunk = 2
  Flows = {f1, f2}
  QueueCap = 2
  Repeat = FALSE
INVARIANTS MibCoresetServes SetUpDiesOnlyOfBadMib  NothingLeftBehind
PROPERTIES Ends
CHECK_DEADLOCK FALSE

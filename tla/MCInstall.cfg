SPECIFICATION Spec
CONSTANTS
  None = None
  Services = {"backend", "frontend"}
  Linked = {"config"}
  Plain = {"db"}
  OwnUsers = TRUE
  RootIsLink = FALSE
  RemovalFails = FALSE
  MaxRuns = 3
INVARIANTS
  PayloadKept
  RunsWholePayload
  RollbackIsExact
PROPERTIES
  OldUsersKept
CHECK_DEADLOCK FALSE

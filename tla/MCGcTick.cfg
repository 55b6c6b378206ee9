SPECIFICATION Spec
CONSTANTS
  Current = current
  Archives = {archive}
  Tick = tick
  Jobs = {}
  Modes = {"auto"}
  RestartInPlace = TRUE
  IdentityReuse = FALSE
  SplitMinute = FALSE
  Retention = 2
  MaxLines = 3
  MaxFiles = 2
  MaxMinute = 3
  LastSubmit = 3
INVARIANTS
  TypeOK
  AcknowledgedIsRecorded
  SkippedIsReported
  NoSplitPause
  NoDoubleCount
  EvidenceKept
CHECK_DEADLOCK FALSE

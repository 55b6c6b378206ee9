SPECIFICATION FairSpec
CONSTANTS
  Current = current
  Archives = {archive}
  Tick = tick
  Jobs = {job}
  Modes = {"auto"}
  RestartInPlace = FALSE
  IdentityReuse = FALSE
  SplitMinute = TRUE
  Retention = 1
  MaxLines = 2
  MaxFiles = 2
  MaxMinute = 1
  LastSubmit = 0
PROPERTIES
  EventuallyRecorded
CHECK_DEADLOCK FALSE

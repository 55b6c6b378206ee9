SPECIFICATION Spec
CONSTANTS
  k1 = k1
  z1 = z1
  None = None
  EventCap = 2
  Nodes = {k1, z1}
  Passes = {tick}
  Role <- TwoRoles
  Prometheus = {k1}
  Scrapes <- FewScrapes
  Lines <- FewLines
  Texts <- FewTexts
  HostRows <- OneHost
  GcStates <- OneGc
  TailLines = 2
  EventLimit = 2
  AlertAge = 1
  SarMaxAge = 0
  Day = 1
  Retention = 1
  Bucket = 2
  MaxTime = 2
  MaxLog = 1
  MaxUploads = 1
  MaxPasses = 2
PROPERTIES
  OnlyStoreFails
CHECK_DEADLOCK FALSE

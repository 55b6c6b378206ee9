SPECIFICATION Spec
CONSTANTS
  b1 = b1
  b2 = b2
  None = None
  Instances = {b1, b2}
  Place <- TwoPlaces
  Role <- TwoRoles
  Advised = "broker"
  Batches <- FewBatches
  Reports <- FewReports
  Widths = {2}
  Recent = 1
  MaxAge = 1
  Gap = 1
  Day = 1
  Month = 2
  Retention = 1
  MaxTime = 2
  MaxCollects = 3
  MaxReports = 2
  MaxBuckets = 2
INVARIANTS
  OkIsEarned
  FullGcShown
  PagesAgree
  NoActionIsEarned
  HostWindowExact
  SameVerdictButPeak

  
SYMMETRY Symmetry
CHECK_DEADLOCK FALSE

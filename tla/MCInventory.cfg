CONSTANTS
  n1 = n1
  n2 = n2
  Clusters = {c1, c2}
  Nodes = {n1, n2}
  Lists <- ListsOfTwo
  Slug <- OwnSlug
  Safe <- OwnName
  Number <- NumbersSwapped
  MaxStarts = 4
SPECIFICATION Spec
SYMMETRY ClusterSymmetry
INVARIANTS
  TypeOK
  OwnHistory
  OneRowPerHost
  FollowsFiles
PROPERTIES
  HistoryKept
CHECK_DEADLOCK FALSE

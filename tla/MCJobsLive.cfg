SPECIFICATION FairSpec
CONSTANTS
  short = short
  long = long
  Clusters <- OneCluster
  Shadows <- NoShadows
  Jobs = {j1}
  MaxTicks = 1
  MaxRemovals = 1
PROPERTIES
  AcceptedJobEnds
CHECK_DEADLOCK FALSE

SPECIFICATION Spec
CONSTANTS
  short = short
  long = long
  Clusters <- TwoClusters
  Shadows <- NameShadows
  Jobs = {j1}
  MaxTicks = 1
  MaxRemovals = 0
INVARIANTS
  FlagHasHolder
SYMMETRY Symmetry
CHECK_DEADLOCK FALSE

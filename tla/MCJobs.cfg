SPECIFICATION Spec
CONSTANTS
  short = short
  long = long
  Clusters <- OneCluster
  Shadows <- NoShadows
  Jobs = {j1, j2}
  MaxTicks = 1
  MaxRemovals = 1
INVARIANTS
  TypeOK
  CancelledNeverCollects
  GuardHeld
PROPERTIES
  OutcomeIsFinal
SYMMETRY Symmetry
CHECK_DEADLOCK FALSE

SPECIFICATION Spec
CONSTANTS
  k1 = k1
  k2 = k2
  Keys = {k1, k2}
  Size <- OneCell
  GcPercent = 30
  Loads <- AllLoads
SYMMETRY KeySymmetry
INVARIANTS
  NothingLost
  NothingReturns
  ReadsTrue
CHECK_DEADLOCK FALSE

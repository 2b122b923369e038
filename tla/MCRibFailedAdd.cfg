\* _update_subtree may fail: a failed add keeps its route but drops its reference.
CONSTANTS
  W = 2
  Handles = {H1, H2}
  NULL = NULL
  FIBSZ = 3
  MaxRefs = 2
  RebuildMayFail = TRUE
SPECIFICATION Spec
PROPERTY RouteTableRefinement

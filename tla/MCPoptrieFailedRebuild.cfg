\* Adds over 3-bit keys with arenas of 8 nodes and 8 leaves, so that a
\* rebuild can run out of blocks.
CONSTANTS
  W = 3
  S = 1
  K = 1
  Handles = {H1, H2}
  NULL = NULL
  FIBSZ = 3
  MaxRefs = 4
  SZ1 = 3
  SZ0 = 3
  EOL = EOL
  MaxRoutes = 3
  Ops = {"add"}
  Lens = {0, 1, 2, 3}
  Normalised = TRUE
  KeepDead = FALSE
SPECIFICATION Spec
PROPERTY FailedRebuildPublishesNothing
SYMMETRY HandleSymmetry

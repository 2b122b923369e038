\* Adds over 3-bit keys with 8 node slots and 4 leaf slots: a /0 route's
\* rebuild of dir[0] runs out of leaves while dir[1] needs none, and the
\* call still reports success.
CONSTANTS
  W = 3
  S = 1
  K = 1
  Handles = {H1, H2}
  NULL = NULL
  FIBSZ = 3
  MaxRefs = 4
  SZ1 = 3
  SZ0 = 2
  EOL = EOL
  MaxRoutes = 3
  Ops = {"add"}
  Lens = {0, 1, 2, 3}
  Normalised = TRUE
  KeepDead = FALSE
SPECIFICATION Spec
INVARIANT CleanIndexAgrees
SYMMETRY HandleSymmetry

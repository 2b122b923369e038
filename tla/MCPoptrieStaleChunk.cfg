\* Adds and changes over 3-bit keys: a change of a route above a slot
\* node whose child node has an unmarked child and a missing one.
CONSTANTS
  W = 3
  S = 1
  K = 1
  Handles = {H1, H2}
  NULL = NULL
  FIBSZ = 3
  MaxRefs = 4
  SZ1 = 4
  SZ0 = 4
  EOL = EOL
  MaxRoutes = 2
  Ops = {"add", "change"}
  Lens = {0, 1, 2, 3}
  Normalised = TRUE
  KeepDead = FALSE
SPECIFICATION Spec
INVARIANT LookupAgreesWithRib
SYMMETRY HandleSymmetry

\* Keys of 3 bits: a 1-bit direct table and nodes of stride 1, so routes of
\* every kind exist: shorter than S (altdir rebuild), equal to S, one node
\* below dir (_update_part_dp) and two (a stack frame, loop1/loop2).  Adds
\* only; arenas of 16 nodes and 16 leaves, so no allocation fails.
CONSTANTS
  W = 3
  S = 1
  K = 1
  Handles = {H1, H2}
  NULL = NULL
  FIBSZ = 3
  MaxRefs = 4
  SZ1 = 4
  SZ0 = 4
  EOL = EOL
  MaxRoutes = 3
  Ops = {"add"}
  Lens = {0, 1, 2, 3}
  Normalised = TRUE
  KeepDead = FALSE
SPECIFICATION Spec
INVARIANT TypeOK
INVARIANT IndexBlocksExact
INVARIANT LookupAgreesWithRib
SYMMETRY HandleSymmetry

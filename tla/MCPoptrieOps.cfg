\* Keys of 2 bits, a 1-bit direct table and nodes of stride 1: routes
\* shorter than S (altdir rebuild), equal to S (_update_dp1) and one node
\* below dir (_update_part_dp), under add, change, update and delete, with
\* every reclaim path of _update_subtree.  Arenas of 8 nodes and 8 leaves.
CONSTANTS
  W = 2
  S = 1
  K = 1
  Handles = {H1, H2}
  NULL = NULL
  FIBSZ = 3
  MaxRefs = 2
  SZ1 = 3
  SZ0 = 3
  EOL = EOL
  MaxRoutes = 2
  Ops = {"add", "change", "update", "del"}
  Lens = {0, 1, 2}
  Normalised = TRUE
  KeepDead = FALSE
SPECIFICATION Spec
INVARIANT TypeOK
INVARIANT IndexBlocksExact
INVARIANT LookupAgreesWithRib
SYMMETRY HandleSymmetry

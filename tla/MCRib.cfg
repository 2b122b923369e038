\* Two-bit keys (seven prefixes), two next-hop handles and a FIB with room
\* for both; the rebuild always succeeds.
CONSTANTS
  W = 2
  Handles = {H1, H2}
  NULL = NULL
  FIBSZ = 3
  MaxRefs = 2
  RebuildMayFail = FALSE
SPECIFICATION Spec
INVARIANT TypeOK
INVARIANT ExtIsNearestCover
INVARIANT RibLookupIsLongestMatch
INVARIANT FibRefsCoverRoutes
INVARIANT SlotZeroReserved
PROPERTY RouteTableRefinement

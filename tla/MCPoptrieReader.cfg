\* One reader thread against the writer, at the bounds of MCPoptrie.cfg
\* (adds only, no allocation fails, so every sequential lookup agrees with
\* the route trie): any wrong answer comes from the interleaving alone.
CONSTANTS
  W = 3
  S = 1
  K = 1
  Handles = {H1, H2}
  NULL = NULL
  FIBSZ = 3
  MaxRefs = 4
  SZ1 = 4
  SZ0 = 4
  EOL = EOL
  MaxRoutes = 3
  Ops = {"add"}
  Lens = {0, 2}
  Normalised = TRUE
  KeepDead = TRUE
  Readers = {T1}
  Wild = Wild
  DirReload = FALSE
SPECIFICATION ReaderSpec
INVARIANT ReaderSeesOldOrNew
SYMMETRY ReaderHandleSymmetry

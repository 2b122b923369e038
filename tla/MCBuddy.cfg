\* The allocator as poptrie_init configures it: sz = level, so the arena
\* starts as two blocks of the top order.
CONSTANTS
  SZ = 3
  LEVEL = 3
  EOL = EOL
SPECIFICATION Spec
INVARIANT TypeOK
INVARIANT BlocksPartitionArena
INVARIANT OccupancyMatchesLive
INVARIANT RoundTrip
PROPERTY BuddyRefinesBlockPool

\* Two-bit addresses (three nested prefix lengths), one interface, added by
\* add_interface during the run, whose queue holds two datagrams, one next-hop address besides "attached", at most two
\* stored routes, route prefixes with zero host bits.
CONSTANTS
  W = 2
  MaxIfaces = 1
  Hops = {A}
  NoHop = NoHop
  NoEntry = NoEntry
  MaxTTL = 2
  MaxQueue = 2
  MaxRoutes = 2
  Normalised = TRUE
SPECIFICATION Spec
INVARIANT TypeOK
PROPERTY RouteFollowsLongestMatch

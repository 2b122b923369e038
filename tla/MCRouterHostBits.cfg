\* Route prefixes may carry host bits below prefix_length, as
\* src/apps/test.cc passes 128.30.76.255/16.
CONSTANTS
  W = 2
  MaxIfaces = 1
  Hops = {A}
  NoHop = NoHop
  NoEntry = NoEntry
  MaxTTL = 2
  MaxQueue = 1
  MaxRoutes = 2
  Normalised = FALSE
SPECIFICATION Spec
PROPERTY RouteFollowsLongestMatch

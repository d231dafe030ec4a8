SPECIFICATION DiscoveryFairSpec
CONSTANTS
  Routers = {r1, r2}
  Providers = {p1, p2, p3, p4}
  Limit = 2
  NoProvider = NoProvider
CHECK_DEADLOCK FALSE
INVARIANTS
  DiscoveryInv
PROPERTIES
  LimitEndsLookup
  CancelEndsLookup

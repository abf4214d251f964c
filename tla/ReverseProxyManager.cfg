SPECIFICATION ProxyFairSpec
CONSTANTS
  Client = {c1, c2}
  Proxy = {p1, p2, p3}
  Nobody = Nobody
  MaxServed = 2
  MaxCrashes = 1
CHECK_DEADLOCK FALSE
INVARIANT OneProxy
INVARIANT ManagedIsNamed
PROPERTY UnheldEnds

\* Three keys and room for two: evictions, refusals and three sweeps.
CONSTANTS
  Keys = {ip1, ip2, ip3}
  EmptyIP = EmptyIP
  Limit = 2
  Window = 3
  MaxEntries = 2
  Lag = 2
  MaxNow = 9
SPECIFICATION RateLimiterSpec
SYMMETRY Symmetry
INVARIANTS
  RateLimiterTypeOK
  MapCap
  LimitSinceEviction
  RefusalsJustified
  IdleForgotten
PROPERTY ImplementsSlidingWindow
\* The clock stops at MaxNow.
CHECK_DEADLOCK FALSE

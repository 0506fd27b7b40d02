\* The oldest key is the empty string.
CONSTANTS
  Keys = {EmptyIP, ip1, ip2}
  EmptyIP = EmptyIP
  Limit = 1
  Window = 3
  MaxEntries = 1
  Lag = 1
  MaxNow = 5
SPECIFICATION RateLimiterSpec
SYMMETRY Symmetry
INVARIANT TestMapCap
\* The clock stops at MaxNow.
CHECK_DEADLOCK FALSE

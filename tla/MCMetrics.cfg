\* Three increments, an allowed name and another, two processes with one
\* connection each, a day that ends, and a counter that is full at two.
CONSTANTS
  r1 = r1
  r2 = r2
  r3 = r3
  f1 = f1
  f2 = f2
  other = other
  Procs = {f1, f2}
  Requests = {r1, r2, r3}
  MaxOpen = 1
  Names = {runStarted, other}
  AllowedMetrics = {runStarted}
  MaxCount = 2
  MaxDay = 1
SPECIFICATION MCMetricsSpec
INVARIANTS
  MetricsTypeOK
  ConnectionsReturned
  CountsMatchAnswers
  OneVerdictPerProcess
PROPERTIES
  PastDaysFinal
  EveryoneIsServed
\* All increments may have been answered.
CHECK_DEADLOCK FALSE

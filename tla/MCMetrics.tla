------------------------------ MODULE MCMetrics ------------------------------
(* Model-checking instance of Metrics.  A temporal property rules symmetry    *)
(* out, so the instance starts from one of each set of initial states that    *)
(* differ by a renaming of the requests or the processes.                     *)
EXTENDS Metrics

CONSTANTS r1, r2, r3, f1, f2, other

\* The third request alone may be served elsewhere, and of the requests of f1
\* the first ones ask for another name.
Representative ==
  /\ at[r1] = f1 /\ at[r2] = f1
  /\ name[r2] = other => name[r1] = other
  /\ at[r3] = f1 /\ name[r3] = other => name[r2] = other

MCMetricsInit == MetricsInit /\ Representative

MCMetricsSpec == MCMetricsInit /\ [][MetricsNext]_metricsVars /\ MetricsFairness
=============================================================================

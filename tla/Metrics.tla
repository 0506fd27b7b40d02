------------------------------- MODULE Metrics -------------------------------
(***************************************************************************)
(* POST /api/metrics/inc: RequireAuth, the list of allowed names that each *)
(* process loads once, and an upsert that adds one to today's counter.     *)
(* Both statements take a connection of the process's pool.                *)
(***************************************************************************)
EXTENDS Database, Postgres, FiniteSetsExt

CONSTANTS
  Names,           \* metric names clients send
  AllowedMetrics,  \* those listed in config/metrics.yaml
  MaxCount,        \* what an INTEGER column holds: 2^31 - 1
  MaxDay           \* bound: the last day of the model

ASSUME MetricsAssumption ==
  /\ AllowedMetrics \subseteq Names
  /\ MaxCount \in Nat
  /\ MaxDay \in Nat

VARIABLES
  today,   \* CURRENT_DATE
  counts,  \* counts[n][d]: the row of `metrics`, zero when there is none
  list,    \* list[p]: metricsOnce not done, or done with a list or an error
  name,    \* name[q]: the name request q increments
  at,      \* at[q]: the process that serves q
  inc,     \* inc[q]: the step q is at, or the status it was answered
  began,   \* began[q]: CURRENT_DATE for the upsert of q, the day it began
  overtaken  \* history: the upserts that were running when the day turned

metricsVars == <<databaseVars, today, counts, list, name, at, inc, began, overtaken>>

Days == 0..MaxDay

Waiting == {"lookup", "upsert"}
Running == {"looking", "counting"}
IncSteps == {"idle", "auth", "check", "crashed"} \cup Waiting \cup Running
IncAnswers == {"204", "400", "401", "405", "503"}

\* The counters hold what their column holds.
MetricsTypeOK ==
  /\ DatabaseTypeOK
  /\ today \in Days
  /\ counts \in [Names -> [Days -> 0..MaxCount]]
  /\ list \in [Procs -> {"unloaded", "loaded", "broken"}]
  /\ name \in [Requests -> Names]
  /\ at \in [Requests -> Procs]
  /\ inc \in [Requests -> IncSteps \cup IncAnswers]
  /\ began \in [Requests -> Days]
  /\ overtaken \subseteq Requests

MetricsInit ==
  /\ DatabaseInit
  /\ today = 0
  /\ counts = [n \in Names |-> [d \in Days |-> 0]]
  /\ list = [p \in Procs |-> "unloaded"]
  /\ name \in [Requests -> Names]
  /\ at \in [Requests -> Procs]
  /\ inc = [q \in Requests |-> "idle"]
  /\ began = [q \in Requests |-> 0]
  /\ overtaken = {}

-----------------------------------------------------------------------------
IncGoes(q, from, to) ==
  /\ inc[q] = from
  /\ inc' = [inc EXCEPT ![q] = to]
  /\ UNCHANGED <<today, name, at, overtaken>>

\* A process that died is sent no more requests.
Alive(p) == \A q \in Requests : at[q] = p => inc[q] # "crashed"

\* Not a POST, or no bearer token.
RefuseInc(q) ==
  /\ Alive(at[q])
  /\ \E status \in {"405", "401"} : IncGoes(q, "idle", status)
  /\ UNCHANGED <<databaseVars, counts, list, began>>

AcceptInc(q) ==
  /\ Alive(at[q])
  /\ IncGoes(q, "idle", "auth")
  /\ UNCHANGED <<databaseVars, counts, list, began>>

\* AuthenticateRequest opens the database ...
OpenForLookup(q) ==
  /\ \E result \in HandleStates :
       /\ GetDB(at[q], result)
       /\ IncGoes(q, "auth", IF result = "open" THEN "lookup" ELSE "503")
  /\ UNCHANGED <<conns, counts, list, began>>

\* A day that is worked out when the request arrives.
DayOfArrival(q) == 0

\* DEFAULT CURRENT_DATE, once the upsert has its connection.
DayOfUpsert(q) == today

\* A statement of q gets its connection and begins.
StartStatement(q) ==
  /\ \/ IncGoes(q, "lookup", "looking") /\ UNCHANGED began
     \/ IncGoes(q, "upsert", "counting") /\ began' = [began EXCEPT ![q] = DayOfUpsert(q)]
  /\ Acquire(at[q], q)
  /\ UNCHANGED <<handle, counts, list>>

\* A lookup whose rows are not closed before the handler goes on.
FinishLookupHolding(q) ==
  /\ \E next \in {"check", "401", "503"} :
       /\ IncGoes(q, "looking", next)
       /\ IF next = "check" THEN UNCHANGED conns ELSE Release(at[q], q)
  /\ UNCHANGED <<handle, counts, list, began>>

\* ... and looks the session up.
FinishLookup(q) ==
  /\ \E next \in {"check", "401", "503"} : IncGoes(q, "looking", next)
  /\ Release(at[q], q)
  /\ UNCHANGED <<handle, counts, list, began>>

\* A list that is read again after an error.
LoadedAgain(p, result) ==
  /\ list[p] \in {"unloaded", "broken", result}
  /\ list' = [list EXCEPT ![p] = result]

\* metricsOnce.Do(loadMetrics): the file is read once, or never could be.
LoadMetrics(p, result) ==
  /\ list[p] \in {"unloaded", result}
  /\ list' = [list EXCEPT ![p] = result]

\* IsAllowedMetric, then GetDB, which repeats what it said to the lookup.
CheckName(q) ==
  /\ \E result \in {"loaded", "broken"} :
       /\ LoadMetrics(at[q], result)
       /\ IncGoes(q, "check", IF result = "loaded" /\ name[q] \in AllowedMetrics
                                THEN "upsert" ELSE "400")
  /\ GetDB(at[q], "open")
  /\ UNCHANGED <<conns, counts, began>>

\* DO UPDATE SET count = increment.
CountAnew(q) == [counts EXCEPT ![name[q]][began[q]] = 1]

\* INSERT ... ON CONFLICT (name, date) DO UPDATE SET count = count + 1.
CountOne(q) == [counts EXCEPT ![name[q]][began[q]] = @ + 1]

AlwaysFits(q) == TRUE

Fits(q) == counts[name[q]][began[q]] < MaxCount

\* An upsert whose error path does not give the connection back.
FinishUpsertLeaking(q) ==
  /\ \E o \in Outcomes :
       /\ Applied(o) => Fits(q)
       /\ counts' = IF Applied(o) THEN CountOne(q) ELSE counts
       /\ IncGoes(q, "counting", IF Errs(o) THEN "503" ELSE "204")
       /\ IF Errs(o) THEN UNCHANGED conns ELSE Release(at[q], q)
  /\ UNCHANGED <<handle, list, began>>

\* UpsertMetric and the answer.  A count that no longer fits is an error.
FinishUpsert(q) ==
  /\ \E o \in Outcomes :
       /\ Applied(o) => Fits(q)
       /\ counts' = IF Applied(o) THEN CountOne(q) ELSE counts
       /\ IncGoes(q, "counting", IF Errs(o) THEN "503" ELSE "204")
  /\ Release(at[q], q)
  /\ UNCHANGED <<handle, list, began>>

\* Process p dies; of the upserts it was running the database may finish one
\* whose connection is not closed yet.
CrashProcess(p) ==
  LET mine == {q \in Requests : at[q] = p /\ inc[q] \in IncSteps \ {"idle", "crashed"}}
  IN  /\ mine # {}
      /\ inc' = [q \in Requests |-> IF q \in mine THEN "crashed" ELSE inc[q]]
      /\ \/ UNCHANGED counts
         \/ \E q \in mine : inc[q] = "counting" /\ Fits(q) /\ counts' = CountOne(q)
      /\ conns' = [conns EXCEPT ![p] = {}]
      /\ UNCHANGED <<handle, list, today, name, at, began, overtaken>>

NextDay ==
  /\ today < MaxDay
  /\ today' = today + 1
  /\ overtaken' = {q \in Requests : inc[q] = "counting"}
  /\ UNCHANGED <<databaseVars, counts, list, name, at, inc, began>>

IncStep(q) ==
  \/ OpenForLookup(q)
  \/ StartStatement(q)
  \/ FinishLookup(q)
  \/ CheckName(q)
  \/ FinishUpsert(q)

MetricsNext ==
  \/ NextDay
  \/ \E q \in Requests : RefuseInc(q) \/ AcceptInc(q) \/ IncStep(q)
  \/ \E p \in Procs : CrashProcess(p)

MetricsSpec == MetricsInit /\ [][MetricsNext]_metricsVars

\* A goroutine that is not killed runs on, and a statement that has its
\* connection returns.  Nothing is assumed of who gets a free connection.
MetricsFairness == \A q \in Requests : WF_metricsVars(IncStep(q))

MetricsFairSpec == MetricsSpec /\ MetricsFairness

-----------------------------------------------------------------------------
\* Connections are held by the process's running statements alone, at most
\* MaxOpen at a time: no path, an error's included, keeps one.
ConnectionsReturned ==
  \A p \in Procs : /\ conns[p] = {q \in Requests : at[q] = p /\ inc[q] \in Running}
                   /\ Cardinality(conns[p]) <= MaxOpen

\* Over all days a counter holds every increment answered 204, at most one for
\* a request answered 503 or cut off, and none for any other: a lost reply or a
\* crash never loses or doubles what a client was told is counted.
CountsMatchAnswers ==
  \A n \in Names :
    LET total == MapThenSumSet(LAMBDA d : counts[n][d], Days)
        ended(how) == {q \in Requests : name[q] = n /\ inc[q] \in how}
    IN  /\ Cardinality(ended({"204"})) <= total
        /\ total <= Cardinality(ended({"204", "503", "crashed"}))

\* A day that is over is final once the upserts that midnight overtook have
\* ended, however long others waited for a connection; until then, and on the
\* day itself, its counters only grow.
PastDaysFinal ==
  [][\A n \in Names, d \in Days : counts'[n][d] # counts[n][d] =>
       /\ counts'[n][d] > counts[n][d]
       /\ d < today => \E q \in overtaken : inc[q] = "counting"]_metricsVars

\* A process is of one mind for as long as it lives, about a name and about its
\* database: an allowed name is refused by a process that never counts anything,
\* and once GetDB failed no request of the process gets past it, so the error of
\* the first call is never lost on a later one.
OneVerdictPerProcess ==
  /\ \A q, r \in Requests :
       inc[q] = "400" /\ name[q] \in AllowedMetrics /\ at[r] = at[q] => inc[r] # "204"
  /\ \A q \in Requests :
       handle[at[q]] = "broken" => inc[q] \notin {"check", "400", "204"} \cup Waiting \cup Running

\* However few connections a process has, every increment it accepts is
\* answered, unless the process dies: nobody waits for a connection held by
\* one who waits.
EveryoneIsServed ==
  \A q \in Requests : inc[q] = "auth" ~> inc[q] \in IncAnswers \cup {"crashed"}
=============================================================================

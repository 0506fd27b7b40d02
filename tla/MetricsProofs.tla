---------------------------- MODULE MetricsProofs ----------------------------
(***************************************************************************)
(* Metrics, for every number of processes, requests, names, connections and *)
(* days: its types, its pools, the verdicts of a process on a name, what    *)
(* its counters hold, and what may still happen to a day that is over.     *)
(***************************************************************************)
EXTENDS Metrics, Counting

\* Every statement, failure and crash keeps the types: a counter never leaves
\* the range of its column.
LEMMA MetricsTypeStep == MetricsTypeOK /\ [MetricsNext]_metricsVars => MetricsTypeOK'
<1> SUFFICES ASSUME MetricsTypeOK, [MetricsNext]_metricsVars
             PROVE  MetricsTypeOK'
  OBVIOUS
<1> USE DEF MetricsTypeOK, DatabaseTypeOK, HandleStates, IncSteps, IncAnswers, Waiting, Running,
        IncGoes, Days
<1> DEFINE Written(q) == Fits(q) /\ counts' = CountOne(q)
<1>1. ASSUME NEW q \in Requests, Written(q)
      PROVE  counts' \in [Names -> [Days -> 0..MaxCount]]
  <2>1. counts[name[q]][began[q]] + 1 \in 0..MaxCount
    BY <1>1, MetricsAssumption DEF Fits
  <2> QED
    BY <1>1, <2>1 DEF CountOne
<1>2. CASE NextDay
  BY <1>2, MetricsAssumption DEF NextDay, databaseVars
<1>3. ASSUME NEW q \in Requests, RefuseInc(q) \/ AcceptInc(q)
      PROVE  MetricsTypeOK'
  BY <1>3 DEF RefuseInc, AcceptInc, databaseVars
<1>4. ASSUME NEW q \in Requests, OpenForLookup(q)
      PROVE  MetricsTypeOK'
  BY <1>4 DEF OpenForLookup, GetDB
<1>5. ASSUME NEW q \in Requests, StartStatement(q)
      PROVE  MetricsTypeOK'
  <2>1. UNCHANGED <<handle, counts, list, today, name, at, overtaken>>
    BY <1>5 DEF StartStatement
  <2>2. conns' \in [Procs -> SUBSET Requests]
    BY <1>5 DEF StartStatement, Acquire
  <2>3. inc' \in [Requests -> IncSteps \cup IncAnswers]
    BY <1>5 DEF StartStatement
  <2>4. began' \in [Requests -> Days]
    BY <1>5 DEF StartStatement, DayOfUpsert
  <2> QED
    BY <2>1, <2>2, <2>3, <2>4
<1>6. ASSUME NEW q \in Requests, FinishLookup(q)
      PROVE  MetricsTypeOK'
  BY <1>6 DEF FinishLookup, Release
<1>7. ASSUME NEW q \in Requests, CheckName(q)
      PROVE  MetricsTypeOK'
  BY <1>7 DEF CheckName, LoadMetrics, GetDB
<1>8. ASSUME NEW q \in Requests, FinishUpsert(q)
      PROVE  MetricsTypeOK'
  <2>1. counts' \in [Names -> [Days -> 0..MaxCount]]
    BY <1>1, <1>8 DEF FinishUpsert
  <2> QED
    BY <1>8, <2>1 DEF FinishUpsert, Release
<1>9. ASSUME NEW p \in Procs, CrashProcess(p)
      PROVE  MetricsTypeOK'
  <2>1. counts' \in [Names -> [Days -> 0..MaxCount]]
    BY <1>1, <1>9 DEF CrashProcess
  <2> QED
    BY <1>9, <2>1 DEF CrashProcess
<1>10. CASE UNCHANGED metricsVars
  BY <1>10 DEF metricsVars, databaseVars
<1> QED
  BY <1>2, <1>3, <1>4, <1>5, <1>6, <1>7, <1>8, <1>9, <1>10 DEF MetricsNext, IncStep

\* Types at the start.
LEMMA MetricsTypeInit == MetricsInit => MetricsTypeOK
  BY MetricsAssumption DEF MetricsInit, DatabaseInit, MetricsTypeOK, DatabaseTypeOK, HandleStates,
     IncSteps, Days

\* Every variable stays in its type, and no counter overflows its column.
THEOREM MetricsTypeCorrect == MetricsSpec => []MetricsTypeOK
  BY MetricsTypeInit, MetricsTypeStep, PTL DEF MetricsSpec

-----------------------------------------------------------------------------
\* A pool starts empty and grows by one connection at a time.
PoolsFinite == \A p \in Procs : IsFiniteSet(conns[p])

PoolIInv == MetricsTypeOK /\ PoolsFinite /\ ConnectionsReturned

\* Only the two statements take connections, one each, and all their outcomes
\* give them back.
LEMMA PoolStep == PoolIInv /\ [MetricsNext]_metricsVars => PoolIInv'
<1> SUFFICES ASSUME PoolIInv, [MetricsNext]_metricsVars
             PROVE  PoolIInv'
  OBVIOUS
<1> USE DEF PoolIInv, MetricsTypeOK, DatabaseTypeOK
<1>1. MetricsTypeOK'
  BY MetricsTypeStep
<1> DEFINE Holds(p) == /\ IsFiniteSet(conns'[p])
                       /\ conns'[p] = {q \in Requests : at'[q] = p /\ inc'[q] \in Running}
                       /\ Cardinality(conns'[p]) <= MaxOpen
<1>2. (\A p \in Procs : Holds(p)) => PoolIInv'
  BY <1>1 DEF PoolsFinite, ConnectionsReturned
\* Steps that neither start nor end a statement.
<1>3. ASSUME UNCHANGED <<conns, at>>,
             \A q \in Requests : inc'[q] \in Running <=> inc[q] \in Running
      PROVE  PoolIInv'
  BY <1>2, <1>3 DEF PoolsFinite, ConnectionsReturned
<1>4. CASE NextDay \/ UNCHANGED metricsVars
  BY <1>3, <1>4 DEF NextDay, metricsVars, databaseVars
<1>5. ASSUME NEW q \in Requests, RefuseInc(q) \/ AcceptInc(q) \/ OpenForLookup(q) \/ CheckName(q)
      PROVE  PoolIInv'
  BY <1>3, <1>5 DEF RefuseInc, AcceptInc, OpenForLookup, CheckName, IncGoes, Running, databaseVars
<1>6. ASSUME NEW q \in Requests, StartStatement(q)
      PROVE  PoolIInv'
  <2>1. /\ inc[q] \notin Running /\ inc'[q] \in Running
        /\ \A r \in Requests \ {q} : inc'[r] = inc[r]
        /\ UNCHANGED at
        /\ Cardinality(conns[at[q]]) < MaxOpen
        /\ conns' = [conns EXCEPT ![at[q]] = @ \cup {q}]
    BY <1>6 DEF StartStatement, Acquire, IncGoes, Running
  <2>2. at[q] \in Procs /\ q \notin conns[at[q]]
    BY <2>1 DEF ConnectionsReturned
  <2>3. /\ IsFiniteSet(conns'[at[q]])
        /\ Cardinality(conns'[at[q]]) = Cardinality(conns[at[q]]) + 1
    BY <2>1, <2>2, FS_AddElement DEF PoolsFinite
  <2>4. Cardinality(conns[at[q]]) \in Nat
    BY <2>2, FS_CardinalityType DEF PoolsFinite
  <2>5. Holds(at[q])
    BY <2>1, <2>2, <2>3, <2>4, DatabaseAssumption DEF ConnectionsReturned
  <2>6. \A p \in Procs \ {at[q]} : Holds(p)
    BY <2>1 DEF ConnectionsReturned, PoolsFinite
  <2> QED
    BY <1>2, <2>5, <2>6
<1>7. ASSUME NEW q \in Requests, FinishLookup(q) \/ FinishUpsert(q)
      PROVE  PoolIInv'
  <2>1. /\ inc[q] \in Running /\ inc'[q] \notin Running
        /\ \A r \in Requests \ {q} : inc'[r] = inc[r]
        /\ UNCHANGED at
        /\ conns' = [conns EXCEPT ![at[q]] = @ \ {q}]
    BY <1>7 DEF FinishLookup, FinishUpsert, Release, IncGoes, Running
  <2>2. at[q] \in Procs
    OBVIOUS
  <2>3. /\ IsFiniteSet(conns'[at[q]])
        /\ Cardinality(conns'[at[q]]) <= Cardinality(conns[at[q]])
        /\ Cardinality(conns'[at[q]]) \in Nat
        /\ Cardinality(conns[at[q]]) \in Nat
    BY <2>1, <2>2, FS_Subset, FS_CardinalityType DEF PoolsFinite
  <2>4. Holds(at[q])
    BY <2>1, <2>2, <2>3, DatabaseAssumption DEF ConnectionsReturned
  <2>5. \A p \in Procs \ {at[q]} : Holds(p)
    BY <2>1 DEF ConnectionsReturned, PoolsFinite
  <2> QED
    BY <1>2, <2>4, <2>5
<1>8. ASSUME NEW p \in Procs, CrashProcess(p)
      PROVE  PoolIInv'
  <2>1. /\ UNCHANGED at
        /\ conns' = [conns EXCEPT ![p] = {}]
        /\ \A q \in Requests : at[q] = p => inc'[q] \notin Running
        /\ \A q \in Requests : at[q] # p => inc'[q] = inc[q]
    BY <1>8 DEF CrashProcess, IncSteps, Waiting, Running, IncAnswers
  <2>2. Holds(p)
    BY <2>1, FS_EmptySet, DatabaseAssumption
  <2>3. \A o \in Procs \ {p} : Holds(o)
    BY <2>1 DEF ConnectionsReturned, PoolsFinite
  <2> QED
    BY <1>2, <2>2, <2>3
<1> QED
  BY <1>4, <1>5, <1>6, <1>7, <1>8 DEF MetricsNext, IncStep

\* Whatever the number of connections, they are held by running statements
\* alone, never more than MaxOpen of a process at a time.
THEOREM PoolCorrect == MetricsSpec => []ConnectionsReturned
<1>1. MetricsInit => PoolIInv
  BY MetricsTypeInit, FS_EmptySet, DatabaseAssumption
     DEF MetricsInit, DatabaseInit, PoolIInv, PoolsFinite, ConnectionsReturned, Running
<1>2. PoolIInv => ConnectionsReturned
  BY DEF PoolIInv
<1> QED
  BY <1>1, <1>2, PoolStep, PTL DEF MetricsSpec

-----------------------------------------------------------------------------
\* What a process said of a name is what its list says.
VerdictsFromList ==
  \A q \in Requests :
    /\ inc[q] = "400" /\ name[q] \in AllowedMetrics => list[at[q]] = "broken"
    /\ inc[q] \in {"upsert", "counting", "204"} => list[at[q]] = "loaded"

\* A request past GetDB is one of a process whose handle is open.
PastOpenHandle ==
  \A q \in Requests :
    inc[q] \in {"check", "400", "204"} \cup Waiting \cup Running => handle[at[q]] = "open"

\* An upsert began today, or midnight overtook it.
RunningSinceDay ==
  \A q \in Requests : inc[q] = "counting" => began[q] = today \/ q \in overtaken

MetricsIInv == MetricsTypeOK /\ VerdictsFromList /\ PastOpenHandle /\ RunningSinceDay

\* A handle that is open stays so, and no request passes one that is not.
LEMMA PastOpenStep == MetricsIInv /\ [MetricsNext]_metricsVars => PastOpenHandle'
<1> SUFFICES ASSUME MetricsIInv, [MetricsNext]_metricsVars
             PROVE  PastOpenHandle'
  OBVIOUS
<1> USE DEF MetricsIInv, MetricsTypeOK, DatabaseTypeOK, PastOpenHandle, Waiting, Running
<1>1. CASE NextDay \/ UNCHANGED metricsVars
  BY <1>1 DEF NextDay, metricsVars, databaseVars
<1>2. ASSUME NEW q \in Requests, RefuseInc(q) \/ AcceptInc(q)
      PROVE  PastOpenHandle'
  BY <1>2 DEF RefuseInc, AcceptInc, IncGoes, databaseVars
<1>3. ASSUME NEW q \in Requests, OpenForLookup(q)
      PROVE  PastOpenHandle'
  <2>1. PICK result \in {"open", "broken"} :
          /\ handle[at[q]] \in {"unopened", result}
          /\ handle' = [handle EXCEPT ![at[q]] = result]
          /\ inc' = [inc EXCEPT ![q] = IF result = "open" THEN "lookup" ELSE "503"]
          /\ at' = at
    BY <1>3 DEF OpenForLookup, GetDB, IncGoes, HandleStates
  <2>2. \A p \in Procs : handle[p] = "open" => handle'[p] = "open"
    BY <2>1
  <2>3. inc'[q] = "lookup" => handle'[at[q]] = "open"
    BY <2>1
  <2> QED
    BY <2>1, <2>2, <2>3
<1>4. ASSUME NEW q \in Requests, StartStatement(q)
      PROVE  PastOpenHandle'
  BY <1>4 DEF StartStatement, IncGoes
<1>5. ASSUME NEW q \in Requests, FinishLookup(q)
      PROVE  PastOpenHandle'
  BY <1>5 DEF FinishLookup, IncGoes
<1>6. ASSUME NEW q \in Requests, CheckName(q)
      PROVE  PastOpenHandle'
  BY <1>6 DEF CheckName, GetDB, IncGoes
<1>7. ASSUME NEW q \in Requests, FinishUpsert(q)
      PROVE  PastOpenHandle'
  BY <1>7 DEF FinishUpsert, IncGoes
<1>8. ASSUME NEW p \in Procs, CrashProcess(p)
      PROVE  PastOpenHandle'
  BY <1>8 DEF CrashProcess
<1> QED
  BY <1>1, <1>2, <1>3, <1>4, <1>5, <1>6, <1>7, <1>8 DEF MetricsNext, IncStep

\* A list is loaded once, and a day turns for all statements at once.
LEMMA MetricsNextIInv == MetricsIInv /\ [MetricsNext]_metricsVars => MetricsIInv'
<1> SUFFICES ASSUME MetricsIInv, [MetricsNext]_metricsVars
             PROVE  MetricsIInv'
  OBVIOUS
<1>1. MetricsTypeOK' /\ PastOpenHandle'
  BY MetricsTypeStep, PastOpenStep DEF MetricsIInv
<1> USE DEF MetricsIInv, MetricsTypeOK, DatabaseTypeOK, VerdictsFromList, RunningSinceDay
<1>2. CASE NextDay
  BY <1>1, <1>2 DEF NextDay
<1>3. ASSUME NEW q \in Requests,
             RefuseInc(q) \/ AcceptInc(q) \/ OpenForLookup(q) \/ FinishLookup(q)
      PROVE  MetricsIInv'
  <2>1. /\ UNCHANGED <<list, name, at, today, began, overtaken>>
        /\ inc'[q] \notin {"400", "upsert", "counting", "204"}
        /\ \A r \in Requests \ {q} : inc'[r] = inc[r]
    BY <1>3 DEF RefuseInc, AcceptInc, OpenForLookup, FinishLookup, IncGoes
  <2> QED
    BY <1>1, <2>1
<1>4. ASSUME NEW q \in Requests, StartStatement(q)
      PROVE  MetricsIInv'
  <2>1. /\ UNCHANGED <<list, name, at, today, overtaken>>
        /\ \A r \in Requests \ {q} : inc'[r] = inc[r] /\ began'[r] = began[r]
        /\ \/ inc'[q] = "looking"
           \/ inc[q] = "upsert" /\ inc'[q] = "counting" /\ began'[q] = today
    BY <1>4 DEF StartStatement, IncGoes, DayOfUpsert
  <2> QED
    BY <1>1, <2>1
<1>5. ASSUME NEW q \in Requests, CheckName(q)
      PROVE  MetricsIInv'
  <2>1. /\ UNCHANGED <<name, at, today, overtaken, began>>
        /\ \A r \in Requests \ {q} : inc'[r] = inc[r]
    BY <1>5 DEF CheckName, IncGoes
  <2>2. PICK result \in {"loaded", "broken"} :
          /\ list[at[q]] \in {"unloaded", result}
          /\ list' = [list EXCEPT ![at[q]] = result]
          /\ inc'[q] = IF result = "loaded" /\ name[q] \in AllowedMetrics
                         THEN "upsert" ELSE "400"
    BY <1>5 DEF CheckName, LoadMetrics, IncGoes
  <2>3. \A p \in Procs : list[p] # "unloaded" => list'[p] = list[p]
    BY <2>2
  <2>4. list'[at[q]] = result
    BY <2>2
  <2> QED
    BY <1>1, <2>1, <2>2, <2>3, <2>4
<1>6. ASSUME NEW q \in Requests, FinishUpsert(q)
      PROVE  MetricsIInv'
  <2>1. /\ UNCHANGED <<list, name, at, today, overtaken, began>>
        /\ \A r \in Requests \ {q} : inc'[r] = inc[r]
        /\ inc[q] = "counting" /\ inc'[q] \in {"503", "204"}
    BY <1>6 DEF FinishUpsert, IncGoes
  <2> QED
    BY <1>1, <2>1
<1>7. ASSUME NEW p \in Procs, CrashProcess(p)
      PROVE  MetricsIInv'
  <2>1. /\ UNCHANGED <<list, name, at, today, overtaken, began>>
        /\ \A q \in Requests : inc'[q] \in {inc[q], "crashed"}
    BY <1>7 DEF CrashProcess
  <2> QED
    BY <1>1, <2>1
<1>8. CASE UNCHANGED metricsVars
  BY <1>1, <1>8 DEF metricsVars
<1> QED
  BY <1>2, <1>3, <1>4, <1>5, <1>6, <1>7, <1>8 DEF MetricsNext, IncStep

\* The inductive invariant holds throughout.
LEMMA MetricsInvariant == MetricsSpec => []MetricsIInv
<1>1. MetricsInit => MetricsIInv
  BY MetricsTypeInit DEF MetricsInit, MetricsIInv, VerdictsFromList, PastOpenHandle,
     RunningSinceDay, Waiting, Running
<1> QED
  BY <1>1, MetricsNextIInv, PTL DEF MetricsSpec

\* A process that refuses an allowed name never counts anything, and none of its
\* requests gets past a GetDB that failed.
THEOREM OneVerdict == MetricsSpec => []OneVerdictPerProcess
<1>1. MetricsIInv => OneVerdictPerProcess
  BY DEF MetricsIInv, VerdictsFromList, PastOpenHandle, OneVerdictPerProcess
<1> QED
  BY <1>1, MetricsInvariant, PTL

\* A day that is over changes only by the upserts midnight overtook, and no
\* counter ever decreases.
THEOREM PastDaysClosed == MetricsSpec => PastDaysFinal
<1> DEFINE DaysFinal ==
      \A n \in Names, d \in Days : counts'[n][d] # counts[n][d] =>
        /\ counts'[n][d] > counts[n][d]
        /\ d < today => \E q \in overtaken : inc[q] = "counting"
<1>1. MetricsIInv /\ [MetricsNext]_metricsVars => [DaysFinal]_metricsVars
  <2> SUFFICES ASSUME MetricsIInv, MetricsNext
               PROVE  DaysFinal
    BY DEF metricsVars
  <2> USE DEF MetricsIInv, MetricsTypeOK, DatabaseTypeOK
  <2>1. \/ UNCHANGED counts
        \/ \E q \in Requests : inc[q] = "counting" /\ counts' = CountOne(q)
    BY DEF MetricsNext, IncStep, NextDay, RefuseInc, AcceptInc, OpenForLookup, StartStatement,
       FinishLookup, CheckName, FinishUpsert, CrashProcess, IncGoes
  <2>2. ASSUME NEW q \in Requests, inc[q] = "counting", counts' = CountOne(q)
        PROVE  DaysFinal
    <3>1. \A n \in Names, d \in Days : counts'[n][d] # counts[n][d] =>
            n = name[q] /\ d = began[q] /\ counts'[n][d] = counts[n][d] + 1
      BY <2>2 DEF CountOne
    <3>2. \A n \in Names, d \in Days : counts[n][d] \in Int
      BY MetricsAssumption
    <3>3. began[q] \in Int /\ today \in Int
      BY MetricsAssumption DEF Days
    <3> QED
      BY <2>2, <3>1, <3>2, <3>3 DEF RunningSinceDay
  <2> QED
    BY <2>1, <2>2
<1> QED
  BY <1>1, MetricsInvariant, PTL DEF MetricsSpec, PastDaysFinal

-----------------------------------------------------------------------------
\* The increments of n whose upsert began on day d and that ended so.
Ended(n, d, how) == {q \in Requests : name[q] = n /\ began[q] = d /\ inc[q] \in how}

Told == {"204"}
Maybe == {"204", "503", "crashed"}

\* Only so many requests have arrived.
ArrivedFinite == IsFiniteSet({q \in Requests : inc[q] # "idle"})

\* The counter of each day holds what was answered of that day.
DaysMatchAnswers ==
  \A n \in Names, d \in Days : /\ Cardinality(Ended(n, d, Told)) <= counts[n][d]
                               /\ counts[n][d] <= Cardinality(Ended(n, d, Maybe))

CountsIInv == MetricsTypeOK /\ ArrivedFinite /\ DaysMatchAnswers

\* What has ended has arrived, so it can be counted.
LEMMA EndedFinite ==
  ASSUME ArrivedFinite, NEW n, NEW d, NEW how \in SUBSET Maybe
  PROVE  IsFiniteSet(Ended(n, d, how)) /\ Cardinality(Ended(n, d, how)) \in Nat
<1>1. Ended(n, d, how) \subseteq {q \in Requests : inc[q] # "idle"}
  BY DEF Ended, Maybe
<1> QED
  BY <1>1, FS_Subset, FS_CardinalityType DEF ArrivedFinite

\* After a step as well.
LEMMA EndedFiniteNext ==
  ASSUME ArrivedFinite', NEW n, NEW d, NEW how \in SUBSET Maybe
  PROVE  IsFiniteSet(Ended(n, d, how)') /\ Cardinality(Ended(n, d, how)') \in Nat
<1>1. Ended(n, d, how)' \subseteq {q \in Requests : inc'[q] # "idle"}
  BY DEF Ended, Maybe
<1>2. IsFiniteSet({q \in Requests : inc'[q] # "idle"})
  BY DEF ArrivedFinite
<1> QED
  BY <1>1, <1>2, FS_Subset, FS_CardinalityType

\* A day whose counter stays, while nobody else is told 204.
LEMMA DayKept ==
  ASSUME CountsIInv, ArrivedFinite', NEW n \in Names, NEW d \in Days,
         Ended(n, d, Told)' = Ended(n, d, Told),
         Ended(n, d, Maybe) \subseteq Ended(n, d, Maybe)',
         counts'[n][d] = counts[n][d]
  PROVE  /\ Cardinality(Ended(n, d, Told)') <= counts'[n][d]
         /\ counts'[n][d] <= Cardinality(Ended(n, d, Maybe)')
<1>1. IsFiniteSet(Ended(n, d, Maybe)') /\ Cardinality(Ended(n, d, Maybe)') \in Nat
  BY EndedFiniteNext
<1>2. Cardinality(Ended(n, d, Maybe)) <= Cardinality(Ended(n, d, Maybe)')
  BY <1>1, FS_Subset
<1>3. Cardinality(Ended(n, d, Maybe)) \in Nat /\ counts[n][d] \in Nat
  BY EndedFinite DEF CountsIInv, MetricsTypeOK
<1> QED
  BY <1>1, <1>2, <1>3 DEF CountsIInv, DaysMatchAnswers

\* A day on which q is counted, and ends.
LEMMA DayCounted ==
  ASSUME CountsIInv, ArrivedFinite', NEW n \in Names, NEW d \in Days, NEW q,
         q \notin Ended(n, d, Maybe), q \in Ended(n, d, Maybe)',
         Ended(n, d, Told)' \subseteq Ended(n, d, Told) \cup {q},
         Ended(n, d, Maybe) \subseteq Ended(n, d, Maybe)',
         counts'[n][d] = counts[n][d] + 1
  PROVE  /\ Cardinality(Ended(n, d, Told)') <= counts'[n][d]
         /\ counts'[n][d] <= Cardinality(Ended(n, d, Maybe)')
<1> DEFINE T == Ended(n, d, Told)
           M == Ended(n, d, Maybe)
<1>1. Told \in SUBSET Maybe /\ Maybe \in SUBSET Maybe
  BY DEF Told, Maybe
<1>2. IsFiniteSet(T) /\ Cardinality(T) \in Nat /\ IsFiniteSet(M) /\ Cardinality(M) \in Nat
  BY <1>1, EndedFinite DEF CountsIInv
<1>3. /\ IsFiniteSet(T') /\ Cardinality(T') \in Nat
      /\ IsFiniteSet(M') /\ Cardinality(M') \in Nat
  BY <1>1, EndedFiniteNext
<1>4. counts[n][d] \in Nat /\ Cardinality(T) <= counts[n][d] /\ counts[n][d] <= Cardinality(M)
  BY DEF CountsIInv, MetricsTypeOK, DaysMatchAnswers
<1>5. T' \subseteq T \cup {q} /\ M \cup {q} \subseteq M' /\ q \notin M
  OBVIOUS
<1> HIDE DEF T, M
<1>6. Cardinality(T') <= Cardinality(T) + 1
  <2>1. /\ IsFiniteSet(T \cup {q})
        /\ Cardinality(T \cup {q}) = IF q \in T THEN Cardinality(T) ELSE Cardinality(T) + 1
    BY <1>2, FS_AddElement
  <2>2. Cardinality(T') <= Cardinality(T \cup {q})
    BY <1>5, <2>1, FS_Subset
  <2> QED
    BY <1>2, <1>3, <2>1, <2>2
<1>7. Cardinality(M) + 1 <= Cardinality(M')
  <2>1. Cardinality(M \cup {q}) = Cardinality(M) + 1
    BY <1>2, <1>5, FS_AddElement
  <2>2. Cardinality(M \cup {q}) <= Cardinality(M')
    BY <1>3, <1>5, FS_Subset
  <2> QED
    BY <2>1, <2>2
<1>8. Cardinality(T') <= counts'[n][d] /\ counts'[n][d] <= Cardinality(M')
  BY <1>2, <1>3, <1>4, <1>6, <1>7
<1> QED
  BY <1>8 DEF T, M

\* Statements that are no upserts count nothing and end without a 204 ...
LEMMA CountsKept ==
  ASSUME CountsIInv, ArrivedFinite', UNCHANGED <<counts, name>>,
         \A q \in Requests : inc[q] \in Maybe => inc'[q] = inc[q] /\ began'[q] = began[q],
         \A q \in Requests : inc'[q] \in Told => inc[q] \in Told
  PROVE  DaysMatchAnswers'
<1> SUFFICES ASSUME NEW n \in Names, NEW d \in Days
             PROVE  /\ Cardinality(Ended(n, d, Told)') <= counts'[n][d]
                    /\ counts'[n][d] <= Cardinality(Ended(n, d, Maybe)')
  BY DEF DaysMatchAnswers
<1>1. Ended(n, d, Told)' = Ended(n, d, Told)
  BY DEF Ended, Told, Maybe
<1>2. Ended(n, d, Maybe) \subseteq Ended(n, d, Maybe)'
  BY DEF Ended
<1> QED
  BY <1>1, <1>2, DayKept

\* ... and an upsert that counts ends its request, be it by an error or a crash.
LEMMA CountsAdded ==
  ASSUME CountsIInv, ArrivedFinite', UNCHANGED <<name, began>>,
         NEW q \in Requests, inc[q] = "counting", inc'[q] \in Maybe, counts' = CountOne(q),
         \A r \in Requests : inc[r] \in Maybe => inc'[r] = inc[r],
         \A r \in Requests \ {q} : inc'[r] \in Told => inc[r] \in Told
  PROVE  DaysMatchAnswers'
<1> SUFFICES ASSUME NEW n \in Names, NEW d \in Days
             PROVE  /\ Cardinality(Ended(n, d, Told)') <= counts'[n][d]
                    /\ counts'[n][d] <= Cardinality(Ended(n, d, Maybe)')
  BY DEF DaysMatchAnswers
<1>1. q \notin Ended(n, d, Maybe)
  BY DEF Ended, Maybe
<1>2. Ended(n, d, Maybe) \subseteq Ended(n, d, Maybe)'
  BY DEF Ended
<1>3. CASE n = name[q] /\ d = began[q]
  <2>1. counts'[n][d] = counts[n][d] + 1
    BY <1>3 DEF CountsIInv, MetricsTypeOK, CountOne
  <2>2. q \in Ended(n, d, Maybe)'
    BY <1>3 DEF Ended
  <2>3. Ended(n, d, Told)' \subseteq Ended(n, d, Told) \cup {q}
    BY DEF Ended
  <2> QED
    BY <1>1, <1>2, <2>1, <2>2, <2>3, DayCounted
<1>4. CASE ~ (n = name[q] /\ d = began[q])
  <2>1. counts'[n][d] = counts[n][d]
    BY <1>4 DEF CountsIInv, MetricsTypeOK, CountOne
  <2>2. Ended(n, d, Told)' = Ended(n, d, Told)
    BY <1>4 DEF Ended, Told, Maybe
  <2> QED
    BY <1>2, <2>1, <2>2, DayKept
<1> QED
  BY <1>3, <1>4

\* Every step keeps what is counted and the counts in step.
LEMMA CountsNextIInv == CountsIInv /\ [MetricsNext]_metricsVars => CountsIInv'
<1> SUFFICES ASSUME CountsIInv, [MetricsNext]_metricsVars
             PROVE  CountsIInv'
  OBVIOUS
<1>1. MetricsTypeOK'
  BY MetricsTypeStep DEF CountsIInv
<1>2. ArrivedFinite'
  <2> DEFINE A == {q \in Requests : inc[q] # "idle"}
  <2>1. \E q : A' \subseteq A \cup {q}
    <3>1. CASE UNCHANGED inc
      BY <3>1
    <3>2. ASSUME NEW q \in Requests, NEW from, NEW to, IncGoes(q, from, to)
          PROVE  A' \subseteq A \cup {q}
      BY <3>2 DEF IncGoes, CountsIInv, MetricsTypeOK
    <3>3. ASSUME NEW p \in Procs, CrashProcess(p) PROVE A' \subseteq A
      BY <3>3 DEF CrashProcess
    <3>4. \/ UNCHANGED inc
          \/ \E q \in Requests : \E from, to : IncGoes(q, from, to)
          \/ \E p \in Procs : CrashProcess(p)
      BY DEF MetricsNext, metricsVars, IncStep, NextDay, RefuseInc, AcceptInc, OpenForLookup,
         StartStatement, FinishLookup, CheckName, FinishUpsert
    <3> QED
      BY <3>1, <3>2, <3>3, <3>4
  <2>2. PICK q : A' \subseteq A \cup {q}
    BY <2>1
  <2>3. IsFiniteSet(A \cup {q})
    BY FS_AddElement DEF CountsIInv, ArrivedFinite
  <2>4. IsFiniteSet(A')
    BY <2>2, <2>3, FS_Subset
  <2> QED
    BY <2>4 DEF ArrivedFinite
<1> USE DEF Told, Maybe
<1>3. CASE NextDay \/ UNCHANGED metricsVars
  BY <1>1, <1>2, <1>3, CountsKept DEF CountsIInv, NextDay, metricsVars, databaseVars
<1>4. ASSUME NEW q \in Requests,
             \/ RefuseInc(q) \/ AcceptInc(q) \/ OpenForLookup(q)
             \/ StartStatement(q) \/ FinishLookup(q) \/ CheckName(q)
      PROVE  CountsIInv'
  <2>1. /\ UNCHANGED <<counts, name>>
        /\ inc[q] \notin Maybe /\ inc'[q] # "204"
        /\ \A r \in Requests \ {q} : inc'[r] = inc[r] /\ began'[r] = began[r]
    BY <1>4 DEF RefuseInc, AcceptInc, OpenForLookup, StartStatement, FinishLookup, CheckName,
       IncGoes, databaseVars, CountsIInv, MetricsTypeOK
  <2> QED
    BY <1>1, <1>2, <2>1, CountsKept DEF CountsIInv
<1>5. ASSUME NEW q \in Requests, FinishUpsert(q)
      PROVE  CountsIInv'
  <2>1. /\ UNCHANGED <<name, began>>
        /\ inc[q] = "counting" /\ inc'[q] \in {"204", "503"}
        /\ \A r \in Requests \ {q} : inc'[r] = inc[r]
        /\ counts' = CountOne(q) \/ (inc'[q] = "503" /\ UNCHANGED counts)
    BY <1>5 DEF FinishUpsert, IncGoes, Outcomes, Applied, Errs, CountsIInv, MetricsTypeOK
  <2>2. CASE counts' = CountOne(q)
    BY <1>1, <1>2, <2>1, <2>2, CountsAdded DEF CountsIInv
  <2>3. CASE inc'[q] = "503" /\ UNCHANGED counts
    BY <1>1, <1>2, <2>1, <2>3, CountsKept DEF CountsIInv
  <2> QED
    BY <2>1, <2>2, <2>3
<1>6. ASSUME NEW p \in Procs, CrashProcess(p)
      PROVE  CountsIInv'
  <2>1. /\ UNCHANGED <<name, began>>
        /\ \A r \in Requests : \/ inc'[r] = inc[r]
                               \/ inc'[r] = "crashed" /\ inc[r] \notin {"204", "503"}
    BY <1>6 DEF CrashProcess, IncSteps, Waiting, Running
  <2>2. CASE UNCHANGED counts
    BY <1>1, <1>2, <2>1, <2>2, CountsKept DEF CountsIInv
  <2>3. CASE \E q \in Requests : inc[q] = "counting" /\ inc'[q] = "crashed" /\ counts' = CountOne(q)
    BY <1>1, <1>2, <2>1, <2>3, CountsAdded DEF CountsIInv
  <2>4. \/ UNCHANGED counts
        \/ \E q \in Requests : inc[q] = "counting" /\ inc'[q] = "crashed" /\ counts' = CountOne(q)
    BY <1>6 DEF CrashProcess
  <2> QED
    BY <2>2, <2>3, <2>4
<1> QED
  BY <1>3, <1>4, <1>5, <1>6 DEF MetricsNext, IncStep

\* The days add up.
LEMMA DaysAddUp ==
  ASSUME CountsIInv, NEW n \in Names, NEW how \in SUBSET Maybe, NEW h,
         \A d \in Days : h[d] = Cardinality(Ended(n, d, how))
  PROVE  SumFunctionOnSet(h, Days) = Cardinality({q \in Requests : name[q] = n /\ inc[q] \in how})
<1> DEFINE X == {q \in Requests : name[q] = n /\ inc[q] \in how}
           g == [q \in X |-> began[q]]
<1>1. IsFiniteSet(X)
  <2>1. X \subseteq {q \in Requests : inc[q] # "idle"}
    BY DEF Maybe
  <2> QED
    BY <2>1, FS_Subset DEF CountsIInv, ArrivedFinite
<1>2. IsFiniteSet(Days)
  BY MetricsAssumption, FS_Interval DEF Days
<1>3. g \in [X -> Days]
  BY DEF CountsIInv, MetricsTypeOK
<1>4. ASSUME NEW d \in Days PROVE h[d] = Cardinality({q \in X : g[q] = d})
  <2>1. {q \in X : g[q] = d} = Ended(n, d, how)
    BY DEF Ended
  <2> QED
    BY <2>1
<1> HIDE DEF g, X
<1>5. SumFunctionOnSet(h, Days) = Cardinality(X)
  BY <1>1, <1>2, <1>3, <1>4, SumOfCounts
<1> QED
  BY <1>5 DEF X

\* However many requests, names, days and processes: every increment answered
\* 204 is in its counter, and nothing that was refused.
THEOREM CountsMatch == MetricsSpec => []CountsMatchAnswers
<1>1. MetricsInit => CountsIInv
  <2> SUFFICES ASSUME MetricsInit PROVE CountsIInv
    OBVIOUS
  <2>1. {q \in Requests : inc[q] # "idle"} = {}
    BY DEF MetricsInit
  <2>2. \A n \in Names, d \in Days : Ended(n, d, Told) = {} /\ Ended(n, d, Maybe) = {}
    BY DEF MetricsInit, Ended, Told, Maybe
  <2>3. \A n \in Names, d \in Days : counts[n][d] = 0
    BY DEF MetricsInit
  <2> QED
    BY <2>1, <2>2, <2>3, MetricsTypeInit, FS_EmptySet
       DEF CountsIInv, ArrivedFinite, DaysMatchAnswers
<1>2. CountsIInv => CountsMatchAnswers
  <2> SUFFICES ASSUME CountsIInv, NEW n \in Names
               PROVE  LET total == MapThenSumSet(LAMBDA d : counts[n][d], Days)
                          ended(how) == {q \in Requests : name[q] = n /\ inc[q] \in how}
                      IN  /\ Cardinality(ended({"204"})) <= total
                          /\ total <= Cardinality(ended({"204", "503", "crashed"}))
    BY Zenon DEF CountsMatchAnswers
  <2> DEFINE total == SumFunctionOnSet(counts[n], Days)
             told == [d \in Days |-> Cardinality(Ended(n, d, Told))]
             maybe == [d \in Days |-> Cardinality(Ended(n, d, Maybe))]
  <2>1. MapThenSumSet(LAMBDA d : counts[n][d], Days) = total
    BY Zenon DEF MapThenSumSet, SumFunctionOnSet, FoldFunctionOnSet, MapThenFoldSet
  <2>2. IsFiniteSet(Days)
    BY MetricsAssumption, FS_Interval DEF Days
  <2>3. Told \in SUBSET Maybe /\ Maybe \in SUBSET Maybe
    BY DEF Told, Maybe
  <2>4. \A d \in Days : /\ counts[n][d] \in Nat /\ told[d] \in Nat /\ maybe[d] \in Nat
                        /\ told[d] <= counts[n][d] /\ counts[n][d] <= maybe[d]
    BY <2>3, EndedFinite DEF CountsIInv, DaysMatchAnswers, MetricsTypeOK
  <2>5. SumFunctionOnSet(told, Days) = Cardinality({q \in Requests : name[q] = n /\ inc[q] \in Told})
    BY <2>3, DaysAddUp
  <2>6. SumFunctionOnSet(maybe, Days) = Cardinality({q \in Requests : name[q] = n /\ inc[q] \in Maybe})
    BY <2>3, DaysAddUp
  <2> HIDE DEF told, maybe
  <2>7. SumFunctionOnSet(told, Days) <= total
    BY <2>2, <2>4, SumMonotone
  <2>8. total <= SumFunctionOnSet(maybe, Days)
    BY <2>2, <2>4, SumMonotone
  <2> HIDE DEF total
  <2> QED
    BY <2>1, <2>5, <2>6, <2>7, <2>8 DEF Told, Maybe
<1> QED
  BY <1>1, <1>2, CountsNextIInv, PTL DEF MetricsSpec
=============================================================================

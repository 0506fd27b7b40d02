-------------------------- MODULE RateLimiterProofs --------------------------
(***************************************************************************)
(* RateLimiter, for every limit, window, map size and set of keys; and that *)
(* it implements SlidingWindow: what a limiter with a bounded map, filtered *)
(* slices and a cleanup goroutine answers is what one answers that counts  *)
(* everything, save for keys overtaken by MaxEntries others.               *)
(***************************************************************************)
EXTENDS RateLimiter, FiniteSetTheorems, TLAPS

\* Times before a bound form a finite set.
LEMMA TimesFinite ==
  ASSUME NEW n \in Nat, NEW S \in SUBSET (1..n)
  PROVE  IsFiniteSet(S)
<1>1. IsFiniteSet(1..n)
  BY FS_Interval
<1> QED
  BY <1>1, FS_Subset

\* What a granted request does, with room and without: k gets its recent times
\* and t, other keys keep theirs or are evicted, and an eviction is recorded.
LEMMA GrantFacts ==
  ASSUME RateLimiterTypeOK, NEW k \in Keys, Grant(k, now')
  PROVE  /\ DOMAIN requests' \subseteq DOMAIN requests \cup {k}
         /\ k \in DOMAIN requests' => requests'[k] = Recent(TimesOf(k), now') \cup {now'}
         /\ \A j \in DOMAIN requests' \ {k} : j \in DOMAIN requests /\ requests'[j] = requests[j]
         /\ \A j \in Keys : lastEvicted'[j] = lastEvicted[j] \/ lastEvicted'[j] = now'
         /\ lastEvicted' \in [Keys -> {lastEvicted[j] : j \in Keys} \cup {now'}]
         /\ \A j \in DOMAIN requests \cup {k} : lastEvicted'[j] = now' \/ j \in DOMAIN requests'
         /\ \A j \in DOMAIN requests' : lastEvicted'[j] = lastEvicted[j]
<1> DEFINE map == Put(k, Recent(TimesOf(k), now') \cup {now'})
<1>1. /\ DOMAIN map = DOMAIN requests \cup {k}
      /\ map[k] = Recent(TimesOf(k), now') \cup {now'}
      /\ \A j \in DOMAIN requests \ {k} : map[j] = requests[j]
  BY DEF Put
<1>2. DOMAIN requests \cup {k} \subseteq Keys /\ lastEvicted = [j \in Keys |-> lastEvicted[j]]
  BY DEF RateLimiterTypeOK
<1> HIDE DEF map
<1>3. CASE GrantInRoom(k, map)
  BY <1>1, <1>2, <1>3 DEF GrantInRoom
<1>4. CASE GrantEvicting(k, map, now')
  <2>1. PICK oldest \in OldestIn(map) :
          /\ requests' = Keep(map, EvictKeeps(map, oldest))
          /\ lastEvicted' = [j \in Keys |->
               IF j \in DOMAIN map \ EvictKeeps(map, oldest) THEN now' ELSE lastEvicted[j]]
    BY <1>4 DEF GrantEvicting
  <2>2. /\ DOMAIN requests' = EvictKeeps(map, oldest)
        /\ \A j \in EvictKeeps(map, oldest) : requests'[j] = map[j]
        /\ EvictKeeps(map, oldest) \subseteq DOMAIN map
    BY <2>1 DEF Keep, EvictKeeps
  <2> QED
    BY <1>1, <1>2, <2>1, <2>2
<1> QED
  BY <1>3, <1>4 DEF Grant, map

-----------------------------------------------------------------------------
\* Every call of Allow, every sweep and every wait keeps the types.
LEMMA RateLimiterTypeStep ==
  RateLimiterTypeOK /\ [RateLimiterNext]_limiterVars => RateLimiterTypeOK'
<1> SUFFICES ASSUME RateLimiterTypeOK, [RateLimiterNext]_limiterVars
             PROVE  RateLimiterTypeOK'
  OBVIOUS
<1> USE RateLimiterAssumption
<1>1. CASE UNCHANGED limiterVars
  BY <1>1 DEF limiterVars, RateLimiterTypeOK
<1>2. CASE Wait
  BY <1>2 DEF Wait, RateLimiterTypeOK
<1>3. CASE Cleanup
  <2>1. \A k \in SweepKeeps(now') : k \in Keys /\ Recent(requests[k], now') \subseteq 1..now
    BY DEF Recent, SweepKeeps, RateLimiterTypeOK
  <2> QED
    BY <1>3, <2>1 DEF Cleanup, RateLimiterTypeOK
<1>4. ASSUME NEW k \in Keys, Allow(k)
      PROVE  RateLimiterTypeOK'
  <2>1. now' = now + 1 /\ now' \in Nat /\ nextSweep' = nextSweep /\ nextSweep \in Nat
    BY <1>4 DEF Allow, RateLimiterTypeOK
  <2>2. Recent(TimesOf(k), now') \subseteq 1..now
    BY DEF Recent, TimesOf, RateLimiterTypeOK
  <2>3. CASE Refuse(k, now')
    <3>1. /\ DOMAIN requests' = DOMAIN requests \cup {k}
          /\ requests' = [j \in DOMAIN requests' |-> requests'[j]]
          /\ \A j \in DOMAIN requests' : requests'[j] \in SUBSET (1..now')
      BY <2>1, <2>2, <2>3 DEF Refuse, Put, RateLimiterTypeOK
    <3>2. answer' = AnswerTo(k, now', FALSE) /\ UNCHANGED <<granted, lastEvicted>>
      BY <2>3 DEF Refuse
    <3>3. answer' \subseteq [key : Keys, at : 1..now', ok : BOOLEAN]
      BY <2>1, <3>2 DEF AnswerTo, RateLimiterTypeOK
    <3>4. /\ DOMAIN requests' \subseteq Keys
          /\ granted' \in [Keys -> SUBSET (1..now')]
          /\ lastEvicted' \in [Keys -> 0..now']
      BY <2>1, <3>1, <3>2 DEF RateLimiterTypeOK
    <3> QED
      BY <2>1, <3>1, <3>3, <3>4 DEF RateLimiterTypeOK
  <2>4. CASE Grant(k, now')
    <3>1. /\ DOMAIN requests' \subseteq Keys
          /\ \A j \in DOMAIN requests' : requests'[j] \in SUBSET (1..now')
      BY <2>1, <2>2, <2>4, GrantFacts DEF RateLimiterTypeOK
    <3>2. requests' = [j \in DOMAIN requests' |-> requests'[j]]
      BY <2>4 DEF Grant, GrantInRoom, GrantEvicting, Put, Keep
    <3>3. lastEvicted' \in [Keys -> 0..now']
      BY <2>1, <2>4, GrantFacts DEF RateLimiterTypeOK
    <3>4. granted' \in [Keys -> SUBSET (1..now')] /\ answer' = AnswerTo(k, now', TRUE)
      BY <2>1, <2>4 DEF Grant, RateLimiterTypeOK
    <3>5. answer' \subseteq [key : Keys, at : 1..now', ok : BOOLEAN]
      BY <2>1, <3>4 DEF AnswerTo, RateLimiterTypeOK
    <3> QED
      BY <2>1, <3>1, <3>2, <3>3, <3>4, <3>5 DEF RateLimiterTypeOK
  <2> QED
    BY <1>4, <2>3, <2>4 DEF Allow
<1> QED
  BY <1>1, <1>2, <1>3, <1>4 DEF RateLimiterNext

\* Every variable stays in its type.
THEOREM RateLimiterTypeCorrect == RateLimiterSpec => []RateLimiterTypeOK
<1>1. RateLimiterInit => RateLimiterTypeOK
  BY RateLimiterAssumption DEF RateLimiterInit, RateLimiterTypeOK, NoAnswer
<1> QED
  BY <1>1, RateLimiterTypeStep, PTL DEF RateLimiterSpec

-----------------------------------------------------------------------------
(* The inductive invariant behind the rest.                                 *)

\* A slice holds instants the key was granted, and is never empty.
SliceSound == \A k \in DOMAIN requests : requests[k] \subseteq granted[k] /\ requests[k] # {}

\* A slice holds all of them that still count, since the key was last evicted.
SliceComplete ==
  \A k \in Keys : \A u \in granted[k] :
    u > lastEvicted[k] /\ u + Window > now => k \in DOMAIN requests /\ u \in requests[k]

\* The cleanup is never overdue, and never more than a window ahead.
SweepTimely == now < nextSweep + Lag /\ nextSweep <= now + Window

\* The last sweep, at nextSweep - Window or later, left only keys it found fresh.
KeptFresh == \A k \in DOMAIN requests : \E u \in requests[k] : u + 2 * Window > nextSweep

LimiterIInv ==
  /\ RateLimiterTypeOK
  /\ SliceSound
  /\ SliceComplete
  /\ SweepTimely
  /\ KeptFresh
  /\ LimitSinceEviction
  /\ RefusalsJustified

\* The empty map satisfies it.
LEMMA LimiterInitIInv == RateLimiterInit => LimiterIInv
  BY RateLimiterAssumption DEF RateLimiterInit, LimiterIInv, RateLimiterTypeOK, NoAnswer,
     SliceSound, SliceComplete, SweepTimely, KeptFresh, LimitSinceEviction, RefusalsJustified

\* The windows of the past do not change: a later grant is not in them.
LEMMA PastWindows ==
  ASSUME RateLimiterTypeOK, NEW k \in Keys, NEW t \in 1..now,
         granted'[k] \subseteq granted[k] \cup {now'}, granted[k] \subseteq granted'[k],
         now' = now + 1
  PROVE  GrantsUpTo(k, t)' = GrantsUpTo(k, t)
  BY DEF GrantsUpTo, RateLimiterTypeOK

\* A call that is refused keeps the inductive invariant.
LEMMA RefuseIInv ==
  ASSUME LimiterIInv, RateLimiterTypeOK', NEW k \in Keys, Refuse(k, now'),
         now' = now + 1, SweepTimely', UNCHANGED nextSweep
  PROVE  LimiterIInv'
<1> USE RateLimiterAssumption DEF LimiterIInv
<1> DEFINE rec == Recent(TimesOf(k), now')
<1>1. /\ DOMAIN requests' = DOMAIN requests \cup {k}
      /\ requests'[k] = rec
      /\ \A j \in DOMAIN requests \ {k} : requests'[j] = requests[j]
      /\ answer' = AnswerTo(k, now', FALSE)
      /\ UNCHANGED <<granted, lastEvicted>>
      /\ Cardinality(rec) >= Limit
  BY DEF Refuse, Put
<1>2. rec # {}
  BY <1>1, FS_EmptySet
<1>3. \A u : u \in rec => k \in DOMAIN requests /\ u \in requests[k] /\ u + Window > now'
  BY DEF Recent, TimesOf
<1>4. SliceSound'
  BY <1>1, <1>2, <1>3 DEF SliceSound
<1>5. SliceComplete'
  <2> SUFFICES ASSUME NEW j \in Keys, NEW u \in granted[j],
                      u > lastEvicted[j], u + Window > now'
               PROVE  j \in DOMAIN requests' /\ u \in requests'[j]
    BY <1>1 DEF SliceComplete
  <2>1. j \in DOMAIN requests /\ u \in requests[j]
    BY DEF SliceComplete, RateLimiterTypeOK
  <2> QED
    BY <1>1, <2>1 DEF Recent, TimesOf
<1>6. KeptFresh'
  <2>1. PICK u \in rec : TRUE
    BY <1>2
  <2>2. u \in Nat /\ u + Window > now'
    BY <1>3, <2>1 DEF RateLimiterTypeOK
  <2>3. u + 2 * Window > nextSweep
    BY <2>2 DEF SweepTimely, RateLimiterTypeOK
  <2> QED
    BY <1>1, <2>1, <2>3 DEF KeptFresh
<1>7. LimitSinceEviction'
  BY <1>1 DEF LimitSinceEviction, GrantsUpTo
<1>8. RefusalsJustified'
  <2>1. rec \subseteq GrantsUpTo(k, now')
    BY <1>3 DEF GrantsUpTo, SliceSound, RateLimiterTypeOK
  <2>2. IsFiniteSet(GrantsUpTo(k, now'))
    <3>1. GrantsUpTo(k, now') \in SUBSET (1..now) /\ now \in Nat
      BY DEF GrantsUpTo, RateLimiterTypeOK
    <3> QED
      BY <3>1, TimesFinite
  <2>3. Cardinality(GrantsUpTo(k, now')) >= Limit
    <3>1. Cardinality(rec) <= Cardinality(GrantsUpTo(k, now')) /\ IsFiniteSet(rec)
      BY <2>1, <2>2, FS_Subset
    <3>2. Cardinality(rec) \in Nat /\ Cardinality(GrantsUpTo(k, now')) \in Nat
      BY <2>2, <3>1, FS_CardinalityType
    <3> QED
      BY <1>1, <3>1, <3>2
  <2> SUFFICES ASSUME NEW a \in answer'
               PROVE  Cardinality(GrantsUpTo(a.key, a.at)') >= Limit
    BY DEF RefusalsJustified
  <2>4. a.key = k /\ a.at = now'
    BY <1>1 DEF AnswerTo
  <2>5. GrantsUpTo(a.key, a.at)' = GrantsUpTo(k, now')
    BY <1>1, <2>4 DEF GrantsUpTo
  <2> QED
    BY <2>3, <2>5
<1> QED
  BY <1>4, <1>5, <1>6, <1>7, <1>8

\* So does a call that is granted, whoever is evicted for it.
LEMMA GrantIInv ==
  ASSUME LimiterIInv, RateLimiterTypeOK', NEW k \in Keys, Grant(k, now'),
         now' = now + 1, SweepTimely', UNCHANGED nextSweep
  PROVE  LimiterIInv'
<1> USE RateLimiterAssumption DEF LimiterIInv
<1> DEFINE rec == Recent(TimesOf(k), now')
<1>1. /\ granted' = [granted EXCEPT ![k] = @ \cup {now'}]
      /\ answer' = AnswerTo(k, now', TRUE)
      /\ Cardinality(rec) < Limit
  BY DEF Grant
<1>2. /\ DOMAIN requests' \subseteq DOMAIN requests \cup {k}
      /\ k \in DOMAIN requests' => requests'[k] = rec \cup {now'}
      /\ \A j \in DOMAIN requests' \ {k} : j \in DOMAIN requests /\ requests'[j] = requests[j]
      /\ \A j \in Keys : lastEvicted'[j] = lastEvicted[j] \/ lastEvicted'[j] = now'
      /\ \A j \in DOMAIN requests \cup {k} : lastEvicted'[j] = now' \/ j \in DOMAIN requests'
  BY GrantFacts
<1>3. \A u : u \in rec => k \in DOMAIN requests /\ u \in requests[k] /\ u + Window > now'
  BY DEF Recent, TimesOf
<1>4. /\ granted'[k] = granted[k] \cup {now'}
      /\ \A j \in Keys \ {k} : granted'[j] = granted[j]
      /\ \A j \in Keys : granted[j] \in SUBSET (1..now) /\ lastEvicted[j] \in 0..now
      /\ now \in Nat
  BY <1>1 DEF RateLimiterTypeOK
<1> HIDE DEF rec
<1>5. SliceSound'
  BY <1>2, <1>3, <1>4 DEF SliceSound, RateLimiterTypeOK
<1>6. \A u \in granted[k] : u > lastEvicted[k] /\ u + Window > now' => u \in rec
  BY <1>4 DEF SliceComplete, Recent, TimesOf, rec
<1>7. SliceComplete'
  <2> SUFFICES ASSUME NEW j \in Keys, NEW u \in granted'[j],
                      u > lastEvicted'[j], u + Window > now'
               PROVE  j \in DOMAIN requests' /\ u \in requests'[j]
    BY DEF SliceComplete
  <2>1. lastEvicted'[j] = lastEvicted[j] /\ lastEvicted'[j] # now'
    BY <1>2, <1>4
  <2>2. CASE j = k
    BY <1>2, <1>4, <1>6, <2>1, <2>2
  <2>3. CASE j # k
    <3>1. j \in DOMAIN requests /\ u \in requests[j]
      BY <1>4, <2>1, <2>3 DEF SliceComplete
    <3> QED
      BY <1>2, <2>1, <2>3, <3>1
  <2> QED
    BY <2>2, <2>3
<1>8. KeptFresh'
  <2>1. now' + 2 * Window > nextSweep'
    BY <1>4 DEF SweepTimely, RateLimiterTypeOK
  <2>2. \A j \in DOMAIN requests' \ {k} : \E u \in requests'[j] : u + 2 * Window > nextSweep'
    BY <1>2 DEF KeptFresh
  <2>3. k \in DOMAIN requests' => now' \in requests'[k]
    BY <1>2
  <2> QED
    BY <2>1, <2>2, <2>3 DEF KeptFresh
<1>9. LimitSinceEviction'
  <2> SUFFICES ASSUME NEW j \in Keys, NEW t \in granted'[j]
               PROVE  Cardinality({u \in GrantsUpTo(j, t)' : u > lastEvicted'[j]}) <= Limit
    BY DEF LimitSinceEviction, GrantsUpTo
  <2> DEFINE win == {u \in GrantsUpTo(j, t)' : u > lastEvicted'[j]}
  <2>1. CASE t \in granted[j]
    <3> DEFINE old == {u \in GrantsUpTo(j, t) : u > lastEvicted[j]}
    <3>1. GrantsUpTo(j, t)' = GrantsUpTo(j, t)
      <4>1. t \in 1..now
        BY <1>4, <2>1
      <4>2. granted'[j] \subseteq granted[j] \cup {now'} /\ granted[j] \subseteq granted'[j]
        BY <1>4
      <4> QED
        BY <4>1, <4>2, PastWindows
    <3>2. win \subseteq old /\ old \in SUBSET (1..now)
      BY <1>2, <1>4, <3>1 DEF GrantsUpTo
    <3>3. IsFiniteSet(old)
      BY <1>4, <3>2, TimesFinite
    <3>4. Cardinality(old) <= Limit
      BY <2>1 DEF LimitSinceEviction
    <3>5. IsFiniteSet(win) /\ Cardinality(win) <= Cardinality(old)
      BY <3>2, <3>3, FS_Subset
    <3>6. Cardinality(win) \in Nat /\ Cardinality(old) \in Nat
      BY <3>3, <3>5, FS_CardinalityType
    <3> QED
      BY <3>4, <3>5, <3>6
  <2>2. CASE j = k /\ t = now'
    <3>1. win \subseteq rec \cup {now'}
      BY <1>2, <1>4, <1>6, <2>2 DEF GrantsUpTo
    <3>2. rec \in SUBSET (1..now)
      BY <1>3 DEF RateLimiterTypeOK
    <3>3. IsFiniteSet(rec)
      BY <1>4, <3>2, TimesFinite
    <3>4. IsFiniteSet(rec \cup {now'}) /\ Cardinality(rec \cup {now'}) <= Cardinality(rec) + 1
      BY <3>3, FS_AddElement, FS_CardinalityType
    <3>5. IsFiniteSet(win) /\ Cardinality(win) <= Cardinality(rec \cup {now'})
      BY <3>1, <3>4, FS_Subset
    <3>6. Cardinality(win) \in Nat /\ Cardinality(rec) \in Nat
          /\ Cardinality(rec \cup {now'}) \in Nat
      BY <3>3, <3>4, <3>5, FS_CardinalityType
    <3> QED
      BY <1>1, <3>4, <3>5, <3>6 DEF rec
  <2> QED
    BY <1>4, <2>1, <2>2
<1>10. RefusalsJustified'
  BY <1>1 DEF RefusalsJustified, AnswerTo
<1> QED
  BY <1>5, <1>7, <1>8, <1>9, <1>10

\* So does a sweep.
LEMMA CleanupIInv ==
  ASSUME LimiterIInv, RateLimiterTypeOK', Cleanup, SweepTimely'
  PROVE  LimiterIInv'
<1> USE RateLimiterAssumption DEF LimiterIInv
<1>1. /\ now' = now + 1 /\ now' >= nextSweep /\ nextSweep' = nextSweep + Window
      /\ UNCHANGED <<granted, lastEvicted, answer>>
  BY DEF Cleanup
<1>2. /\ DOMAIN requests' \subseteq DOMAIN requests
      /\ \A k \in DOMAIN requests' :
           requests'[k] # {} /\ requests'[k] = {u \in requests[k] : u + Window > now'}
      /\ \A k \in DOMAIN requests : \A u \in requests[k] :
           u + Window > now' => k \in DOMAIN requests'
  BY DEF Cleanup, SweepKeeps, Recent
<1>3. SliceSound'
  BY <1>1, <1>2 DEF SliceSound
<1>4. SliceComplete'
  <2> SUFFICES ASSUME NEW k \in Keys, NEW u \in granted[k],
                      u > lastEvicted[k], u + Window > now'
               PROVE  k \in DOMAIN requests' /\ u \in requests'[k]
    BY <1>1 DEF SliceComplete
  <2>1. k \in DOMAIN requests /\ u \in requests[k]
    BY <1>1 DEF SliceComplete, RateLimiterTypeOK
  <2> QED
    BY <1>2, <2>1
<1>5. KeptFresh'
  <2> SUFFICES ASSUME NEW k \in DOMAIN requests'
               PROVE  \E u \in requests'[k] : u + 2 * Window > nextSweep'
    BY DEF KeptFresh
  <2>1. PICK u \in requests'[k] : u + Window > now'
    BY <1>2
  <2>2. u \in Nat
    BY DEF RateLimiterTypeOK
  <2>3. u + 2 * Window > nextSweep'
    BY <1>1, <2>1, <2>2 DEF RateLimiterTypeOK
  <2> QED
    BY <2>3
<1>6. LimitSinceEviction' /\ RefusalsJustified'
  BY <1>1 DEF LimitSinceEviction, RefusalsJustified, GrantsUpTo
<1> QED
  BY <1>3, <1>4, <1>5, <1>6

\* So does every step.
LEMMA LimiterNextIInv == LimiterIInv /\ [RateLimiterNext]_limiterVars => LimiterIInv'
<1> SUFFICES ASSUME LimiterIInv, [RateLimiterNext]_limiterVars
             PROVE  LimiterIInv'
  OBVIOUS
<1>0. RateLimiterTypeOK'
  BY RateLimiterTypeStep DEF LimiterIInv
<1>1. CASE UNCHANGED limiterVars
  BY <1>0, <1>1 DEF LimiterIInv, limiterVars, SliceSound, SliceComplete, SweepTimely, KeptFresh,
     LimitSinceEviction, RefusalsJustified, GrantsUpTo
<1>2. CASE Wait
  <2>1. SweepTimely'
    BY <1>2, RateLimiterAssumption DEF Wait, BeforeOverdueSweep, LimiterIInv, SweepTimely,
       RateLimiterTypeOK
  <2>2. SliceComplete'
    BY <1>2, RateLimiterAssumption DEF Wait, LimiterIInv, SliceComplete, RateLimiterTypeOK
  <2> QED
    BY <1>0, <1>2, <2>1, <2>2 DEF Wait, LimiterIInv, SliceSound, KeptFresh,
       LimitSinceEviction, RefusalsJustified, GrantsUpTo
<1>3. CASE Cleanup
  <2>1. SweepTimely'
    BY <1>3, RateLimiterAssumption DEF Cleanup, LimiterIInv, SweepTimely, RateLimiterTypeOK
  <2> QED
    BY <1>0, <1>3, <2>1, CleanupIInv
<1>4. ASSUME NEW k \in Keys, Allow(k)
      PROVE  LimiterIInv'
  <2>1. now' = now + 1 /\ UNCHANGED nextSweep
    BY <1>4 DEF Allow
  <2>2. SweepTimely'
    BY <1>4, <2>1, RateLimiterAssumption DEF Allow, BeforeOverdueSweep, LimiterIInv,
       SweepTimely, RateLimiterTypeOK
  <2> QED
    BY <1>0, <1>4, <2>1, <2>2, RefuseIInv, GrantIInv DEF Allow
<1> QED
  BY <1>1, <1>2, <1>3, <1>4 DEF RateLimiterNext

\* The inductive invariant holds throughout.
LEMMA LimiterInvariant == RateLimiterSpec => []LimiterIInv
  BY LimiterInitIInv, LimiterNextIInv, PTL DEF RateLimiterSpec

-----------------------------------------------------------------------------
\* Between two of its evictions no key is ever granted more than Limit requests
\* in a window, at any rate of calls and whatever the other keys do.
THEOREM Limited == RateLimiterSpec => []LimitSinceEviction
  BY LimiterInvariant, PTL DEF LimiterIInv

\* Nobody is refused before having used up the limit.
THEOREM RefusalsFair == RateLimiterSpec => []RefusalsJustified
  BY LimiterInvariant, PTL DEF LimiterIInv

\* A key that stops asking is forgotten within two windows.
THEOREM Forgotten == RateLimiterSpec => []IdleForgotten
<1>1. LimiterIInv => IdleForgotten
  <2> SUFFICES ASSUME LimiterIInv, NEW k \in DOMAIN requests
               PROVE  \E u \in requests[k] : now < u + 2 * Window + Lag
    BY DEF IdleForgotten
  <2>1. PICK u \in requests[k] : u + 2 * Window > nextSweep
    BY DEF LimiterIInv, KeptFresh
  <2>2. u \in Nat
    BY DEF LimiterIInv, RateLimiterTypeOK
  <2>3. now < u + 2 * Window + Lag
    BY <2>1, <2>2, RateLimiterAssumption DEF LimiterIInv, SweepTimely, RateLimiterTypeOK
  <2> QED
    BY <2>3
<1> QED
  BY <1>1, LimiterInvariant, PTL

\* If "" is not a key, an eviction always takes one, and the map never outgrows
\* maxEntries.
THEOREM Capped ==
  ASSUME EmptyIP \notin Keys
  PROVE  RateLimiterSpec => []MapCap
<1> DEFINE Cap == IsFiniteSet(DOMAIN requests) /\ MapCap
<1>1. RateLimiterInit => Cap
  BY FS_EmptySet, RateLimiterAssumption DEF RateLimiterInit, MapCap
<1>2. RateLimiterTypeOK /\ Cap /\ [RateLimiterNext]_limiterVars => Cap'
  <2> SUFFICES ASSUME RateLimiterTypeOK, Cap, [RateLimiterNext]_limiterVars
               PROVE  Cap'
    OBVIOUS
  <2> USE RateLimiterAssumption
  <2>1. Cardinality(DOMAIN requests) \in Nat
    BY FS_CardinalityType
  <2>2. ASSUME DOMAIN requests' \subseteq DOMAIN requests
        PROVE  Cap'
    <3>1. /\ IsFiniteSet(DOMAIN requests')
          /\ Cardinality(DOMAIN requests') <= Cardinality(DOMAIN requests)
      BY <2>2, FS_Subset
    <3> QED
      BY <2>1, <3>1, FS_CardinalityType DEF MapCap
  <2>3. CASE Wait \/ Cleanup \/ UNCHANGED limiterVars
    BY <2>2, <2>3 DEF Wait, Cleanup, SweepKeeps, limiterVars
  <2>4. ASSUME NEW k \in Keys, Refuse(k, now')
        PROVE  Cap'
    <3>1. Cardinality(Recent(TimesOf(k), now')) # 0
      BY <2>4 DEF Refuse
    <3>2. k \in DOMAIN requests
      BY <3>1, FS_EmptySet DEF Recent, TimesOf
    <3> QED
      BY <2>2, <2>4, <3>2 DEF Refuse, Put
  <2>5. ASSUME NEW k \in Keys, Grant(k, now')
        PROVE  Cap'
    <3> DEFINE map == Put(k, Recent(TimesOf(k), now') \cup {now'})
    <3>1. /\ IsFiniteSet(DOMAIN map)
          /\ Cardinality(DOMAIN map) <= Cardinality(DOMAIN requests) + 1
      <4>1. DOMAIN map = DOMAIN requests \cup {k}
        BY DEF Put
      <4>2. /\ IsFiniteSet(DOMAIN requests \cup {k})
            /\ Cardinality(DOMAIN requests \cup {k}) =
                 IF k \in DOMAIN requests THEN Cardinality(DOMAIN requests)
                                          ELSE Cardinality(DOMAIN requests) + 1
        BY FS_AddElement
      <4> QED
        BY <2>1, <4>1, <4>2
    <3>2. Cardinality(DOMAIN map) \in Nat /\ DOMAIN map \subseteq Keys
      BY <3>1, FS_CardinalityType DEF Put, RateLimiterTypeOK
    <3> HIDE DEF map
    <3>3. CASE GrantInRoom(k, map)
      BY <3>1, <3>3 DEF GrantInRoom, MapCap
    <3>4. CASE GrantEvicting(k, map, now')
      <4>1. PICK oldest \in OldestIn(map) : requests' = Keep(map, EvictKeeps(map, oldest))
        BY <3>4 DEF GrantEvicting
      <4>2. oldest \in DOMAIN map /\ DOMAIN requests' \subseteq DOMAIN map \ {oldest}
        BY <3>2, <4>1 DEF OldestIn, Keep, EvictKeeps
      <4>3. /\ IsFiniteSet(DOMAIN map \ {oldest})
            /\ Cardinality(DOMAIN map \ {oldest}) = Cardinality(DOMAIN map) - 1
        BY <3>1, <4>2, FS_RemoveElement
      <4>4. /\ IsFiniteSet(DOMAIN requests')
            /\ Cardinality(DOMAIN requests') <= Cardinality(DOMAIN map) - 1
        BY <4>2, <4>3, FS_Subset
      <4>5. Cardinality(DOMAIN requests') \in Nat
        BY <4>4, FS_CardinalityType
      <4> QED
        BY <2>1, <3>1, <3>2, <4>4, <4>5 DEF MapCap
    <3> QED
      BY <2>5, <3>3, <3>4 DEF Grant, map
  <2> QED
    BY <2>3, <2>4, <2>5 DEF RateLimiterNext, Allow
<1> QED
  BY <1>1, <1>2, RateLimiterTypeCorrect, PTL DEF RateLimiterSpec

-----------------------------------------------------------------------------
(* The ideal sliding window *)

\* No instant is granted twice, so that of two keys one came last.
GrantsDistinct ==
  \A i, j \in Keys : i # j => granted[i] \cap granted[j] = {}

\* A slice was filled after the last eviction of its key, and it always holds
\* the last request granted since, however old.
SliceCounted ==
  \A k \in DOMAIN requests : \A u \in requests[k] : u > lastEvicted[k]

LastKept ==
  \A k \in DOMAIN requests : \A u \in granted[k] :
    u > lastEvicted[k] => \E v \in requests[k] : u <= v

OrderIInv == LimiterIInv /\ GrantsDistinct /\ SliceCounted /\ LastKept

\* What one key's slice keeps of its times when older ones are dropped.
LEMMA DropOld ==
  ASSUME OrderIInv, NEW k \in DOMAIN requests, NEW t \in Nat,
         NEW w \in requests[k], w + Window > t,
         NEW u \in granted[k], u > lastEvicted[k]
  PROVE  \E v \in Recent(requests[k], t) : u <= v
<1>1. PICK v \in requests[k] : u <= v
  BY DEF OrderIInv, LastKept
<1>2. u \in Nat /\ v \in Nat /\ w \in Nat /\ Window \in Nat /\ k \in Keys
  BY RateLimiterAssumption DEF OrderIInv, LimiterIInv, RateLimiterTypeOK
<1>3. CASE v + Window > t
  BY <1>1, <1>3 DEF Recent
<1>4. CASE ~(v + Window > t)
  <2>1. w \in Recent(requests[k], t) /\ u <= w
    BY <1>1, <1>2, <1>4 DEF Recent
  <2> QED
    BY <2>1
<1> QED
  BY <1>3, <1>4

\* Nothing is granted before the limiter starts.
LEMMA OrderInit == RateLimiterInit => OrderIInv
  BY LimiterInitIInv DEF RateLimiterInit, OrderIInv, GrantsDistinct, SliceCounted, LastKept

\* Dropping times that are no longer recent, and keys left without any, keeps
\* the last request of every key that stays.
LEMMA OrderFiltered ==
  ASSUME OrderIInv, LimiterIInv', NEW t \in Nat,
         DOMAIN requests' \subseteq DOMAIN requests,
         \A k \in DOMAIN requests' :
           requests'[k] = requests[k] \/ requests'[k] = Recent(requests[k], t),
         UNCHANGED <<granted, lastEvicted>>
  PROVE  OrderIInv'
<1>1. GrantsDistinct'
  BY DEF OrderIInv, GrantsDistinct
<1>2. SliceCounted'
  BY DEF OrderIInv, SliceCounted, Recent
<1>3. LastKept'
  <2> SUFFICES ASSUME NEW k \in DOMAIN requests', NEW u \in granted[k], u > lastEvicted[k]
               PROVE  \E v \in requests'[k] : u <= v
    BY DEF LastKept
  <2>1. CASE requests'[k] = requests[k]
    BY <2>1 DEF OrderIInv, LastKept
  <2>2. CASE requests'[k] = Recent(requests[k], t)
    <3>1. PICK w \in requests'[k] : TRUE
      BY DEF LimiterIInv, SliceSound
    <3>2. w \in requests[k] /\ w + Window > t
      BY <2>2, <3>1 DEF Recent
    <3> QED
      BY <2>2, <3>2, DropOld
  <2> QED
    BY <2>1, <2>2
<1> QED
  BY <1>1, <1>2, <1>3 DEF OrderIInv

\* A granted request is the last of all.
LEMMA OrderGranted ==
  ASSUME OrderIInv, LimiterIInv', NEW k \in Keys, Grant(k, now'), now' = now + 1
  PROVE  OrderIInv'
<1> USE DEF OrderIInv
<1>0. RateLimiterTypeOK /\ now \in Nat
  BY DEF LimiterIInv, RateLimiterTypeOK
<1>1. /\ k \in DOMAIN requests' => requests'[k] = Recent(TimesOf(k), now') \cup {now'}
      /\ \A j \in DOMAIN requests' \ {k} : j \in DOMAIN requests /\ requests'[j] = requests[j]
      /\ \A j \in DOMAIN requests' : lastEvicted'[j] = lastEvicted[j]
      /\ DOMAIN requests' \subseteq Keys
  BY <1>0, GrantFacts DEF LimiterIInv, RateLimiterTypeOK
<1>2. granted' = [granted EXCEPT ![k] = @ \cup {now'}]
  BY DEF Grant
<1>3. \A j \in Keys : granted[j] \subseteq 1..now /\ lastEvicted[j] \in 0..now
  BY <1>0 DEF RateLimiterTypeOK
<1>4. GrantsDistinct'
  <2>1. \A j \in Keys : now' \notin granted[j]
    BY <1>0, <1>3
  <2>2. \A j \in Keys : granted'[j] = IF j = k THEN granted[j] \cup {now'} ELSE granted[j]
    BY <1>0, <1>2 DEF RateLimiterTypeOK
  <2> QED
    BY <2>1, <2>2 DEF GrantsDistinct
<1>5. SliceCounted'
  <2> SUFFICES ASSUME NEW j \in DOMAIN requests', NEW u \in requests'[j]
               PROVE  u > lastEvicted[j]
    BY <1>1 DEF SliceCounted
  <2>1. CASE j # k
    BY <1>1, <2>1 DEF SliceCounted
  <2>2. CASE j = k /\ u = now'
    BY <1>0, <1>1, <1>3, <2>2
  <2>3. CASE j = k /\ u # now'
    BY <1>1, <2>3 DEF SliceCounted, Recent, TimesOf
  <2> QED
    BY <2>1, <2>2, <2>3
<1>6. LastKept'
  <2> SUFFICES ASSUME NEW j \in DOMAIN requests', NEW u \in granted'[j], u > lastEvicted[j]
               PROVE  \E v \in requests'[j] : u <= v
    BY <1>1 DEF LastKept
  <2>1. CASE j # k
    BY <1>0, <1>1, <1>2, <2>1 DEF LastKept, RateLimiterTypeOK
  <2>2. CASE j = k
    <3>1. u <= now' /\ now' \in requests'[k]
      BY <1>0, <1>1, <1>2, <1>3, <2>2 DEF RateLimiterTypeOK
    <3> QED
      BY <2>2, <3>1
  <2> QED
    BY <2>1, <2>2
<1> QED
  BY <1>4, <1>5, <1>6

\* The order invariant holds throughout.
LEMMA OrderInvariant == RateLimiterSpec => []OrderIInv
<1>1. OrderIInv /\ LimiterIInv' /\ [RateLimiterNext]_limiterVars => OrderIInv'
  <2> SUFFICES ASSUME OrderIInv, LimiterIInv', [RateLimiterNext]_limiterVars
               PROVE  OrderIInv'
    OBVIOUS
  <2>0. now \in Nat /\ now + 1 \in Nat
    BY DEF OrderIInv, LimiterIInv, RateLimiterTypeOK
  <2>1. CASE UNCHANGED limiterVars \/ Wait
    BY <2>0, <2>1, OrderFiltered DEF limiterVars, Wait
  <2>2. CASE Cleanup
    <3>1. /\ DOMAIN requests' \subseteq DOMAIN requests
          /\ \A k \in DOMAIN requests' : requests'[k] = Recent(requests[k], now')
          /\ now' \in Nat
          /\ UNCHANGED <<granted, lastEvicted>>
      BY <2>0, <2>2 DEF Cleanup, SweepKeeps
    <3> QED
      BY <3>1, OrderFiltered
  <2>3. ASSUME NEW k \in Keys, Allow(k)
        PROVE  OrderIInv'
    <3>1. now' = now + 1
      BY <2>3 DEF Allow
    <3>2. CASE Refuse(k, now')
      <4>1. Recent(TimesOf(k), now') # {}
        BY <3>2, FS_EmptySet, RateLimiterAssumption DEF Refuse
      <4>2. k \in DOMAIN requests
        BY <4>1 DEF Recent, TimesOf
      <4>3. /\ DOMAIN requests' = DOMAIN requests
            /\ \A j \in DOMAIN requests' :
                 requests'[j] = IF j = k THEN Recent(requests[k], now') ELSE requests[j]
            /\ UNCHANGED <<granted, lastEvicted>>
        BY <3>2, <4>2 DEF Refuse, Put, TimesOf
      <4> QED
        BY <2>0, <3>1, <4>3, OrderFiltered
    <3>3. CASE Grant(k, now')
      BY <3>1, <3>3, OrderGranted
    <3> QED
      BY <2>3, <3>2, <3>3 DEF Allow
  <2> QED
    BY <2>1, <2>2, <2>3 DEF RateLimiterNext
<1> QED
  BY <1>1, OrderInit, LimiterInvariant, PTL DEF RateLimiterSpec

-----------------------------------------------------------------------------
\* A request at t, whatever it is answered, sees in its slice just the recent
\* ones among those that count.
LEMMA SliceIsCounted ==
  ASSUME OrderIInv, NEW k \in Keys, now' = now + 1
  PROVE  Recent(TimesOf(k), now') = Ideal!CountedRecently(k, now')
<1>1. now \in Nat /\ Window \in Nat /\ granted[k] \subseteq 1..now
  BY RateLimiterAssumption DEF OrderIInv, LimiterIInv, RateLimiterTypeOK
<1>2. remembered[k] = {u \in granted[k] : u > lastEvicted[k]}
  BY DEF remembered
<1>3. \A u \in remembered[k] : u + Window > now' => k \in DOMAIN requests /\ u \in requests[k]
  BY <1>1, <1>2 DEF OrderIInv, LimiterIInv, SliceComplete
<1>4. k \in DOMAIN requests => requests[k] \subseteq remembered[k]
  BY <1>2 DEF OrderIInv, LimiterIInv, SliceSound, SliceCounted
<1> QED
  BY <1>3, <1>4 DEF Recent, TimesOf, Ideal!CountedRecently

\* What counts after a grant with room: one more request of k.
LEMMA CountedMore ==
  ASSUME OrderIInv, NEW k \in Keys, now' = now + 1,
         granted' = [granted EXCEPT ![k] = @ \cup {now'}]
  PROVE  [remembered EXCEPT ![k] = @ \cup {now'}]
           = [j \in Keys |-> {u \in granted'[j] : u > lastEvicted[j]}]
<1>1. now \in Nat /\ granted \in [Keys -> SUBSET (1..now)] /\ lastEvicted \in [Keys -> 0..now]
  BY DEF OrderIInv, LimiterIInv, RateLimiterTypeOK
<1>2. \A j \in Keys : granted'[j] = IF j = k THEN granted[j] \cup {now'} ELSE granted[j]
  BY <1>1
<1>3. \A j \in Keys : {u \in granted'[j] : u > lastEvicted[j]}
                        = remembered[j] \cup (IF j = k THEN {now'} ELSE {})
  BY <1>1, <1>2 DEF remembered
<1> QED
  BY <1>3 DEF remembered

\* The key that makes room was overtaken by MaxEntries others.
LEMMA Overtaken ==
  ASSUME IsFiniteSet(Keys), OrderIInv, NEW k \in Keys, now' = now + 1,
         NEW c, c = [remembered EXCEPT ![k] = @ \cup {now'}],
         NEW map, map = Put(k, Recent(TimesOf(k), now') \cup {now'}),
         Cardinality(DOMAIN map) > MaxEntries,
         NEW oldest \in OldestIn(map)
  PROVE  oldest \in Keys /\ Cardinality(Ideal!ServedSince(c, oldest)) >= MaxEntries
<1> USE DEF OrderIInv, LimiterIInv
<1>1. /\ now \in Nat
      /\ granted \in [Keys -> SUBSET (1..now)] /\ lastEvicted \in [Keys -> 0..now]
      /\ DOMAIN requests \subseteq Keys
      /\ \A j \in DOMAIN requests : requests[j] \subseteq 1..now
  BY DEF RateLimiterTypeOK
<1>2. \A j \in Keys :
        c[j] = {u \in granted[j] : u > lastEvicted[j]} \cup (IF j = k THEN {now'} ELSE {})
  BY DEF remembered
<1>3. /\ DOMAIN map = DOMAIN requests \cup {k}
      /\ map[k] = Recent(TimesOf(k), now') \cup {now'}
      /\ \A j \in DOMAIN requests \ {k} : map[j] = requests[j]
  BY DEF Put
<1>4. Recent(TimesOf(k), now') \subseteq {u \in granted[k] : u > lastEvicted[k]}
  BY DEF Recent, TimesOf, SliceSound, SliceCounted
<1>5. \A j \in DOMAIN map : j \in Keys /\ map[j] # {} /\ map[j] \subseteq c[j]
  <2> SUFFICES ASSUME NEW j \in DOMAIN map
               PROVE  j \in Keys /\ map[j] # {} /\ map[j] \subseteq c[j]
    OBVIOUS
  <2>1. j \in Keys
    BY <1>1, <1>3
  <2>2. CASE j = k
    BY <1>2, <1>3, <1>4, <2>1, <2>2
  <2>3. CASE j # k
    <3>1. j \in DOMAIN requests /\ map[j] = requests[j]
      BY <1>3, <2>3
    <3>2. requests[j] # {} /\ \A u \in requests[j] : u \in granted[j] /\ u > lastEvicted[j]
      BY <3>1 DEF SliceSound, SliceCounted
    <3> QED
      BY <1>2, <2>1, <3>1, <3>2
  <2> QED
    BY <2>2, <2>3
<1>6. \A j \in DOMAIN map : \A u \in c[j] : \E v \in map[j] : u <= v
  <2> SUFFICES ASSUME NEW j \in DOMAIN map, NEW u \in c[j]
               PROVE  \E v \in map[j] : u <= v
    OBVIOUS
  <2>1. CASE j = k
    BY <1>1, <1>2, <1>3, <2>1
  <2>2. CASE j # k
    BY <1>2, <1>3, <1>5, <2>2 DEF LastKept
  <2> QED
    BY <2>1, <2>2
<1>7. \A i, j \in Keys : i # j => \A u \in c[i] : u \notin c[j]
  BY <1>1, <1>2 DEF GrantsDistinct
<1>8. \A j \in Keys : c[j] \subseteq Nat
  BY <1>1, <1>2
<1>9. oldest \in DOMAIN map /\ \A j \in DOMAIN map : LastNotAfter(map[oldest], map[j])
  BY <1>5 DEF OldestIn
<1> HIDE DEF OrderIInv, LimiterIInv
<1>10. DOMAIN map \ {oldest} \subseteq Ideal!ServedSince(c, oldest)
  <2> SUFFICES ASSUME NEW j \in DOMAIN map, j # oldest, NEW v \in c[oldest]
               PROVE  \E u \in c[j] : u > v
    BY <1>5 DEF Ideal!ServedSince
  <2>1. PICK w \in map[oldest] : v <= w
    BY <1>6, <1>9
  <2>2. PICK u \in map[j] : w <= u
    BY <1>9, <2>1 DEF LastNotAfter
  <2>3. u \in c[j] /\ w \in c[oldest] /\ u # w
    <3>1. u \in c[j] /\ w \in c[oldest] /\ j \in Keys /\ oldest \in Keys
      BY <1>5, <1>9, <2>1, <2>2
    <3> QED
      BY <1>7, <3>1
  <2>4. u \in Nat /\ v \in Nat /\ w \in Nat
    BY <1>5, <1>8, <1>9, <2>3
  <2> QED
    BY <2>1, <2>2, <2>3, <2>4
<1>11. IsFiniteSet(DOMAIN map) /\ IsFiniteSet(Ideal!ServedSince(c, oldest))
  <2>1. DOMAIN map \subseteq Keys /\ Ideal!ServedSince(c, oldest) \subseteq Keys
    BY <1>5 DEF Ideal!ServedSince
  <2> QED
    BY <2>1, FS_Subset
<1>12. Cardinality(DOMAIN map \ {oldest}) = Cardinality(DOMAIN map) - 1
       /\ IsFiniteSet(DOMAIN map \ {oldest})
  BY <1>9, <1>11, FS_RemoveElement
<1>13. Cardinality(DOMAIN map \ {oldest}) <= Cardinality(Ideal!ServedSince(c, oldest))
  BY <1>10, <1>11, FS_Subset
<1>14. /\ Cardinality(DOMAIN map) \in Nat
       /\ Cardinality(Ideal!ServedSince(c, oldest)) \in Nat
       /\ MaxEntries \in Nat
  BY <1>11, FS_CardinalityType, RateLimiterAssumption
<1>15. Cardinality(Ideal!ServedSince(c, oldest)) >= MaxEntries
  <2>1. \A x, y, z, m \in Nat : x > m /\ y = x - 1 /\ y <= z => z >= m
    OBVIOUS
  <2>2. Cardinality(DOMAIN map \ {oldest}) \in Nat
    BY <1>12, FS_CardinalityType
  <2> QED
    BY <1>12, <1>13, <1>14, <2>1, <2>2
<1>16. oldest \in Keys
  BY <1>5, <1>9
<1> QED
  BY <1>15, <1>16

\* A grant is a grant of the ideal limiter, and what makes room in the map is
\* what that one may stop counting.
LEMMA GrantIsIdeal ==
  ASSUME IsFiniteSet(Keys), OrderIInv, OrderIInv', NEW k \in Keys,
         now' = now + 1, Grant(k, now')
  PROVE  remembered' \in Ideal!MayRemain([remembered EXCEPT ![k] = @ \cup {now'}])
<1>0. \A S : Ideal!Cardinality(S) = Cardinality(S)
  BY DEF Ideal!Cardinality, Cardinality
<1> DEFINE c == [remembered EXCEPT ![k] = @ \cup {now'}]
<1> DEFINE map == Put(k, Recent(TimesOf(k), now') \cup {now'})
<1>1. granted' = [granted EXCEPT ![k] = @ \cup {now'}]
  BY DEF Grant
<1>2. c = [j \in Keys |-> {u \in granted'[j] : u > lastEvicted[j]}]
  BY <1>1, CountedMore
<1>3. \A j \in Keys : granted'[j] \subseteq 1..now' /\ now' \in Nat
  BY DEF OrderIInv, LimiterIInv, RateLimiterTypeOK
<1>4. CASE GrantInRoom(k, map)
  <2>1. remembered' = c
    BY <1>2, <1>4 DEF GrantInRoom, remembered
  <2> QED
    BY <2>1 DEF Ideal!MayRemain
<1>5. CASE GrantEvicting(k, map, now')
  <2> HIDE DEF c
  <2>1. PICK oldest \in OldestIn(map) :
          lastEvicted' = [j \in Keys |->
            IF j \in DOMAIN map \ EvictKeeps(map, oldest) THEN now' ELSE lastEvicted[j]]
    BY <1>5 DEF GrantEvicting
  <2>2. oldest \in Keys /\ Cardinality(Ideal!ServedSince(c, oldest)) >= MaxEntries
    BY <1>5, <2>1, Overtaken DEF GrantEvicting, c
  <2>3. \A j \in DOMAIN map : map[j] # {}
    BY DEF Put, OrderIInv, LimiterIInv, SliceSound
  <2> HIDE DEF map
  <2>4. DOMAIN map \ EvictKeeps(map, oldest) \subseteq {oldest}
    BY <2>3 DEF EvictKeeps
  <2>5. CASE DOMAIN map \ EvictKeeps(map, oldest) = {}
    <3>1. remembered' = c
      <4>1. \A j \in Keys : lastEvicted'[j] = lastEvicted[j]
        BY <2>1, <2>5
      <4> QED
        BY <1>2, <4>1 DEF remembered
    <3> QED
      BY <3>1 DEF Ideal!MayRemain, c
  <2>6. CASE DOMAIN map \ EvictKeeps(map, oldest) = {oldest}
    <3>1. \A j \in Keys : lastEvicted'[j] = IF j = oldest THEN now' ELSE lastEvicted[j]
      BY <2>1, <2>6
    <3>2. {u \in granted'[oldest] : u > now'} = {}
      BY <1>3, <2>2
    <3>3. \A j \in Keys : {u \in granted'[j] : u > lastEvicted'[j]}
                            = IF j = oldest THEN {} ELSE {u \in granted'[j] : u > lastEvicted[j]}
      BY <3>1, <3>2
    <3>4. remembered' = [c EXCEPT ![oldest] = {}]
      BY <1>2, <2>2, <3>3 DEF remembered
    <3> QED
      BY <1>0, <2>2, <3>4 DEF Ideal!MayRemain, c
  <2> QED
    BY <2>4, <2>5, <2>6
<1> QED
  BY <1>4, <1>5 DEF Grant

\* For any finite set of keys, a caller of Allow sees the ideal limiter: the
\* sweeps, and what a refusal drops, make no difference to any answer.
THEOREM LimiterIsSlidingWindow ==
  ASSUME IsFiniteSet(Keys)
  PROVE  RateLimiterSpec => ImplementsSlidingWindow
<1>0. \A S : Ideal!Cardinality(S) = Cardinality(S)
  BY DEF Ideal!Cardinality, Cardinality
<1>1. RateLimiterInit => Ideal!WindowInit
  BY DEF RateLimiterInit, remembered, Ideal!WindowInit, NoAnswer, Ideal!NoAnswer
<1>2. OrderIInv /\ OrderIInv' /\ [RateLimiterNext]_limiterVars
        => [Ideal!WindowNext]_(Ideal!windowVars)
  <2> SUFFICES ASSUME OrderIInv, OrderIInv', [RateLimiterNext]_limiterVars
               PROVE  Ideal!WindowNext \/ UNCHANGED Ideal!windowVars
    OBVIOUS
  <2>1. CASE UNCHANGED limiterVars
    BY <2>1 DEF limiterVars, Ideal!windowVars, remembered
  <2>2. CASE Wait \/ Cleanup
    BY <2>2 DEF Wait, Cleanup, Ideal!WindowNext, Ideal!Elapse, remembered
  <2>3. ASSUME NEW k \in Keys, Allow(k)
        PROVE  Ideal!WindowNext
    <3>1. now' = now + 1
      BY <2>3 DEF Allow
    <3>2. Recent(TimesOf(k), now') = Ideal!CountedRecently(k, now')
      BY <3>1, SliceIsCounted
    <3>3. CASE Refuse(k, now')
      <4>1. Ideal!Refuse(k, now')
        BY <1>0, <3>2, <3>3 DEF Refuse, Ideal!Refuse, AnswerTo, Ideal!AnswerTo, remembered
      <4> QED
        BY <3>1, <4>1 DEF Ideal!WindowNext
    <3>4. CASE Grant(k, now')
      <4>1. remembered' \in Ideal!MayRemain([remembered EXCEPT ![k] = @ \cup {now'}])
        BY <3>1, <3>4, GrantIsIdeal
      <4>2. Ideal!Grant(k, now')
        BY <1>0, <3>2, <3>4, <4>1 DEF Grant, Ideal!Grant, AnswerTo, Ideal!AnswerTo
      <4> QED
        BY <3>1, <4>2 DEF Ideal!WindowNext
    <3> QED
      BY <2>3, <3>3, <3>4 DEF Allow
  <2> QED
    BY <2>1, <2>2, <2>3 DEF RateLimiterNext
<1> QED
  BY <1>1, <1>2, OrderInvariant, PTL
     DEF RateLimiterSpec, ImplementsSlidingWindow, Ideal!WindowSpec
=============================================================================

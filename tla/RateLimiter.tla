----------------------------- MODULE RateLimiter -----------------------------
(***************************************************************************)
(* IPLimiter (api/_pkg/ratelimit/memory.go), the in-memory limiter in front *)
(* of POST /api/auth.  Allow and the cleanup goroutine hold l.mu from start *)
(* to end, so each is one step.  Both read time.Now() under the mutex, and  *)
(* the monotonic clock moves between two readings: the readings are         *)
(* distinct and in the order of the steps.  A slice of times is therefore   *)
(* sorted and without repetitions, and is modelled by its set: append adds  *)
(* the largest element, the last element is the largest.                    *)
(***************************************************************************)
EXTENDS Naturals, FiniteSets

CONSTANTS
  Keys,        \* the IPs GetClientIP returns
  EmptyIP,     \* the empty string
  Limit,       \* l.limit
  Window,      \* l.window
  MaxEntries,  \* maxEntries
  Lag,         \* ticks within which the cleanup goroutine gets the mutex
  MaxNow       \* bound: where the model's clock stops

ASSUME RateLimiterAssumption ==
  /\ Limit \in Nat \ {0}
  /\ Window \in Nat \ {0}
  /\ MaxEntries \in Nat \ {0}
  /\ Lag \in Nat /\ Lag < Window
  /\ MaxNow \in Nat

VARIABLES
  now,          \* the last reading of the clock
  requests,     \* l.requests: a function on the keys it holds
  nextSweep,    \* when the ticker of the cleanup goroutine fires next
  granted,      \* history: granted[k]: every instant at which k was granted
  lastEvicted,  \* history: lastEvicted[k]: when k was last evicted, or 0
  answer        \* history: the last call of Allow and its result

limiterVars == <<now, requests, nextSweep, granted, lastEvicted, answer>>

NoAnswer == {}
AnswerTo(k, t, ok) == {[key |-> k, at |-> t, ok |-> ok]}

RateLimiterTypeOK ==
  /\ now \in Nat
  /\ DOMAIN requests \subseteq Keys
  /\ requests \in [DOMAIN requests -> SUBSET (1..now)]
  /\ nextSweep \in Nat
  /\ granted \in [Keys -> SUBSET (1..now)]
  /\ lastEvicted \in [Keys -> 0..now]
  /\ answer \subseteq [key : Keys, at : 1..now, ok : BOOLEAN]

RateLimiterInit ==
  /\ now = 0
  /\ requests = [k \in {} |-> {}]
  /\ nextSweep = Window
  /\ granted = [k \in Keys |-> {}]
  /\ lastEvicted = [k \in Keys |-> 0]
  /\ answer = NoAnswer

-----------------------------------------------------------------------------
\* The cleanup goroutine reads the clock at most Lag after its ticker fired, so
\* everyone else reads it before that.
BeforeOverdueSweep == now < MaxNow /\ now + 1 < nextSweep + Lag

\* A window one tick short.
RecentShort(times, t) == {u \in times : u + Window > t + 1}

\* t.After(now.Add(-window)).
Recent(times, t) == {u \in times : u + Window > t}

\* l.requests[k]: nil when k is absent.
TimesOf(k) == IF k \in DOMAIN requests THEN requests[k] ELSE {}

Put(k, times) == [j \in DOMAIN requests \cup {k} |-> IF j = k THEN times ELSE requests[j]]

\* l.requests[k] = append(l.requests[k], now), for every request.
PutUnfiltered(k, t) == [j \in DOMAIN requests \cup {k} |->
                          IF j = k THEN TimesOf(k) \cup {t} ELSE requests[j]]

Keep(map, ks) == [k \in ks |-> map[k]]

\* The last element of a is not after the last element of b.
LastNotAfter(a, b) == \A u \in a : \E v \in b : u <= v

\* evictOldest with its comparison turned round.
NewestIn(map) ==
  LET used == {k \in DOMAIN map : map[k] # {}}
  IN  {k \in used : \A j \in used : LastNotAfter(map[j], map[k])}

\* The keys evictOldest may pick: one whose last access is the oldest.
OldestIn(map) ==
  LET used == {k \in DOMAIN map : map[k] # {}}
  IN  {k \in used : \A j \in used : LastNotAfter(map[k], map[j])}

\* evictOldest without its last delete.
EvictNothing(map, k) == {j \in DOMAIN map : map[j] # {}}

\* evictOldest, having picked k: empty slices go, and k unless it is "".
EvictKeeps(map, k) == {j \in DOMAIN map : map[j] # {} /\ (j # k \/ j = EmptyIP)}

\* Allow that counts refused requests too.
RefuseCounting(k, t) ==
  /\ Cardinality(Recent(TimesOf(k), t)) >= Limit
  /\ requests' = PutUnfiltered(k, t)
  /\ answer' = AnswerTo(k, t, FALSE)
  /\ UNCHANGED <<granted, lastEvicted>>

\* Allow returns false.
Refuse(k, t) ==
  /\ Cardinality(Recent(TimesOf(k), t)) >= Limit
  /\ requests' = Put(k, Recent(TimesOf(k), t))
  /\ answer' = AnswerTo(k, t, FALSE)
  /\ UNCHANGED <<granted, lastEvicted>>

\* Allow returns true; the map had room.
GrantInRoom(k, map) ==
  /\ Cardinality(DOMAIN map) <= MaxEntries
  /\ requests' = map
  /\ UNCHANGED lastEvicted

\* Allow returns true; the map had grown over maxEntries.
GrantEvicting(k, map, t) ==
  /\ Cardinality(DOMAIN map) > MaxEntries
  /\ \E oldest \in OldestIn(map) :
       /\ requests' = Keep(map, EvictKeeps(map, oldest))
       /\ lastEvicted' = [j \in Keys |->
            IF j \in DOMAIN map \ EvictKeeps(map, oldest) THEN t ELSE lastEvicted[j]]

\* Allow that records when the request expires instead of when it came.
GrantStampingExpiry(k, t) ==
  /\ Cardinality(Recent(TimesOf(k), t)) < Limit
  /\ LET map == Put(k, Recent(TimesOf(k), t) \cup {t + Window})
     IN  GrantInRoom(k, map) \/ GrantEvicting(k, map, t)
  /\ granted' = [granted EXCEPT ![k] = @ \cup {t}]
  /\ answer' = AnswerTo(k, t, TRUE)

Grant(k, t) ==
  /\ Cardinality(Recent(TimesOf(k), t)) < Limit
  /\ LET map == Put(k, Recent(TimesOf(k), t) \cup {t})
     IN  GrantInRoom(k, map) \/ GrantEvicting(k, map, t)
  /\ granted' = [granted EXCEPT ![k] = @ \cup {t}]
  /\ answer' = AnswerTo(k, t, TRUE)

Allow(k) ==
  /\ BeforeOverdueSweep
  /\ now' = now + 1
  /\ Refuse(k, now') \/ Grant(k, now')
  /\ UNCHANGED nextSweep

\* A sweep that only forgets old times, never a key.
SweepKeepingKeys(t) == DOMAIN requests

\* The keys a sweep at t keeps.
SweepKeeps(t) == {k \in DOMAIN requests : Recent(requests[k], t) # {}}

\* One round of the cleanup goroutine.
Cleanup ==
  /\ now < MaxNow
  /\ now' = now + 1
  /\ now' >= nextSweep
  /\ nextSweep' = nextSweep + Window
  /\ requests' = [k \in SweepKeeps(now') |-> Recent(requests[k], now')]
  /\ UNCHANGED <<granted, lastEvicted, answer>>

\* Time passes without a call.
Wait ==
  /\ BeforeOverdueSweep
  /\ now' = now + 1
  /\ UNCHANGED <<requests, nextSweep, granted, lastEvicted, answer>>

RateLimiterNext == Wait \/ Cleanup \/ \E k \in Keys : Allow(k)

RateLimiterSpec == RateLimiterInit /\ [][RateLimiterNext]_limiterVars

-----------------------------------------------------------------------------
\* The map never outgrows maxEntries between two calls.
MapCap == Cardinality(DOMAIN requests) <= MaxEntries

\* The times k was granted in the window that ends at t.
GrantsUpTo(k, t) == {u \in granted[k] : u <= t /\ u + Window > t}

\* No key is granted more than Limit requests in any window, counting from
\* the last time it was evicted: neither refusals, nor the cleanup, nor the
\* eviction of another key ever gives a key more.
LimitSinceEviction ==
  \A k \in Keys : \A t \in granted[k] :
    Cardinality({u \in GrantsUpTo(k, t) : u > lastEvicted[k]}) <= Limit

\* A refusal is always owed to Limit requests granted within the last window:
\* a key that keeps asking while it is refused is not shut out for longer.
RefusalsJustified ==
  \A a \in answer : ~a.ok => Cardinality(GrantsUpTo(a.key, a.at)) >= Limit

\* The cleanup forgets a key within two windows of its last granted request.
IdleForgotten ==
  \A k \in DOMAIN requests : \E u \in requests[k] : now < u + 2 * Window + Lag

\* What TestMapCap says of the map, however many keys it is shown.
TestMapCap == Cardinality(DOMAIN requests) <= MaxEntries + 1

\* What the limiter remembers of k: the requests granted since its last eviction.
remembered == [k \in Keys |-> {u \in granted[k] : u > lastEvicted[k]}]

Ideal == INSTANCE SlidingWindow WITH Room <- MaxEntries, counted <- remembered

\* Every answer is that of a limiter that counts all it ever granted, save to a
\* key that was evicted; and a key is only evicted once MaxEntries others were
\* granted a request since its last one.
ImplementsSlidingWindow == Ideal!WindowSpec
=============================================================================

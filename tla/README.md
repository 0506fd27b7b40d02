# A TLA+ model of rmpc-server

rmpc-server is the back end and web page of a Trackmania challenge: a plugin
logs its player in, submits the scores of finished runs, and a page shows
leaderboards.  The modules here describe its state machines, TLC checks them on
small instances, and TLAPS proves the main results for every size.

## The system

| Part | Source | State | Operations |
|---|---|---|---|
| Login | `api/auth.go`, `api/_pkg/auth`, `api/_pkg/db/{players,sessions}.go` | `players`, `sessions` | `POST /api/auth` |
| Session check | `api/_pkg/auth/session.go` | reads `sessions` | `RequireAuth` around a handler |
| Score submission | `api/scores.go`, `api/_pkg/db/scores.go` | `scores`; reads `banned_players` | `POST /api/scores` |
| Rate limiter | `api/_pkg/ratelimit/memory.go` | one map per process | `Allow`, a cleanup goroutine |
| Web page | `public/js/app.js` | navigation state, three caches, a generation counter | clicks, `hashchange`, responses |
| Boards | `api/{leaderboard,halloffame,worldrecords,player,activity}.go` and their queries | none of their own | read-only `GET`s |
| Edge cache | `api/_pkg/response/json.go` | the CDN's copies | `Cache-Control` headers |
| Metrics | `api/metrics/inc.go`, `api/_pkg/db/metrics.go` | `metrics`; allowed names | `POST /api/metrics/inc` |
| Database handle | `api/_pkg/db/connection.go` | a handle and a pool per process | `GetDB`; every statement takes a connection |

Each request runs in a goroutine of its own, in one of several short-lived
processes.  Requests meet only in the database and, within a process, in the
limiter.  No handler opens a transaction or takes a database lock, so every SQL
statement commits on its own and the statements of one handler interleave with
those of all others.  The page talks to the read-only endpoints and keeps its
own caches.

What is hard, and what correctness means there:

* **Login** deletes the player's sessions, then inserts one.  Logins overlap,
  statements fail, replies are lost, processes die in between.  A delivered
  token must stay good until the same player logs in again; a session must have
  a player; old sessions must go.
* **Submission** reads a ban and a cooldown and then writes.  Answers must tell
  the truth about the table, scores must respect the cooldown except for
  submissions that overlap, a ban must stop everything not already past it.
* **Both together**: a score belongs to the account whose login produced the
  token, and an outdated token lets nothing in.
* **Limiter**: the cap, the quota, no refusal that is not owed, no key kept for
  ever, and the cleanup goroutine must not change any answer.
* **Boards** read tables that move.  Each answer must be right at one moment of
  its request although it reads the clock apart from the tables, and worldrecords
  the tables twice; ties are left to the database, and still the boards must
  agree with one another.
* **Metrics** runs on what a process initialises once and shares: a handle, a
  list of names, ten connections.  An answer must tell the truth about the
  counter across lost replies, crashes and midnight, and nobody may wait for a
  connection for ever.
* **Page**: late responses must not be drawn over, or cached under, another page; the URL must follow the state; spinners must end.

## Modules

| Module | What it is |
|---|---|
| `Postgres` | external: how one autocommitted statement ends (`ok`, `lost` = committed but the reply is an error, `failed`) |
| `SessionLedger` | abstract: tokens in force per player, issued once, revoked per player |
| `Auth` | `POST /api/auth`, one action per step of the handler; implements `SessionLedger` |
| `Scores` | `POST /api/scores` behind `RequireAuth`, plus bans by an operator |
| `Server` | `Auth` and `Scores` over one clock and one database, joined by the session lookup |
| `SlidingWindow` | abstract: a limiter that counts all it granted, save for keys overtaken by `Room` others |
| `RateLimiter` | `Allow`, `evictOldest`, `cleanup`; implements `SlidingWindow` |
| `Boards` | the read-only endpoints and their queries, one request over moving tables |
| `Database` | `GetDB` and the connection pool of each process |
| `Metrics` | `POST /api/metrics/inc` over `Database` |
| `Frontend` | the page: hash routing, tabs, `fetchCached` |
| `AuthProofs`, `ScoresProofs`, `ServerProofs`, `RateLimiterProofs`, `MetricsProofs`, `FrontendProofs`, `BoardsProofs` | theorems, one module for each component |
| `Counting` | lemmas that `MetricsProofs` and `BoardsProofs` share: induction over finite sets, maxima, sorted sequences, sums |
| `MC*` | instances for TLC: symmetry, or the initial states that stand for all others up to a renaming where a temporal property rules symmetry out |

How they read:

* A request is an element of `Logins` or `Submissions` and runs once.  Its place
  in the handler is `login[l]` or `submit[r]`: the name of the next step, or the
  HTTP status it was answered.  A step is everything the handler does up to and
  including one statement or remote call.
* A session token is 32 random bytes; it is named by the login that minted it,
  which makes tokens, and their hashes, distinct.  A score row's id is the
  submission that stored it.
* In `Auth` and `Scores` `GetDB` either works or fails like the first statement
  after it, with the same 503; the two are one step, and a statement gets its
  connection at once.  `Metrics` has the handle, its error that stays and the pool.
* The verdicts of body decoding, validation and Openplanet are choices: any
  request may be refused for them.
* One clock serves all processes and the database: clock skew is not modelled.
  The expiry comparison (`session.go:87`) and the lookup are one step.
* `banned_players` is written by no code of the server; `Ban` and `Unban` are the
  operator's SQL.  The ban's `ON DELETE CASCADE` neighbours are not modelled:
  nothing deletes a player.
* In `Boards` a query is the set of its possible results, because SQL leaves the
  order of ties open.  Readers change nothing and so do not meet: one request is
  followed, and `WorldMoves` is what anything else may do meanwhile - a score, a
  ban, its end, the clock.  Days and months are of equal length and one time
  zone.  A row carries what the queries select by or add up; players are numbered
  by their lower-cased display names.  `page.signed` says whether the link
  verifies.  An unused month filter is `AllTime`.
* In `Metrics` a statement begins when it gets its connection, and reads
  `CURRENT_DATE` then.  A process that dies does not come back (its successor is
  another member of `Procs`): it is sent no more requests (`Alive`), and its handle
  and list are looked at no more.  Of the upserts it was running at most one is
  still finished: enough to show that a count may appear that nobody was
  answered for.
* In `RateLimiter` each reading of `time.Now()` under the mutex is a tick of its
  own (the monotonic clock moves), so a slice of times is sorted and free of
  duplicates and is modelled as its set.  `Lag` bounds how late the cleanup
  goroutine gets the mutex after its ticker fired; only `IdleForgotten` depends
  on it.
* "Requests per IP per minute" (`env.go:26`) is not claimed of a key that was
  evicted: `maxEntries` deliberately trades it for memory.  `LimitSinceEviction`
  and the refinement say exactly what an eviction costs, and to whom: only to a
  key that `maxEntries` others were served after.
* In `Frontend` a page stands for its URL, its cache key and its data.  The month
  `current` is identified with the month it resolves to, so the turn of a month
  is left out, as is an exception thrown while drawing.
* Variables marked "history:" exist only in the model and no action reads them
  in a guard.
* Where an operator has a neighbour that states a plausible mistake in it (an
  ignored error, a swapped order, an off-by-one), that neighbour is written just
  before it and is used to show that the property really depends on it.

## Runs

| Run | Configuration | Shows |
|---|---|---|
| `auth` | `MCAuth.cfg`: 3 logins, 2 accounts | the sessions of a player are those of overlapping logins; delivered tokens live; sessions have players; the handler is a ledger of tokens |
| `auth_one_session` | `MCAuthOneSession.cfg` | **fails**: "one session per player" (`sessions.go:15`) |
| `scores` | `MCScores.cfg`: 3 submissions, 2 players, cooldown 2 | cooldown, truthful answers, effect of bans |
| `scores_cooldown` | `MCScoresCooldown.cfg` | **fails**: "minimum time between score submissions per player" (`env.go:23`) |
| `server` | `MCServer.cfg`: 2 logins, 2 accounts, 1 submission | scores belong to the token's owner; late submissions store nothing; everything accepted is answered; the composition is `Auth` and is `Scores` |
| `limiter` | `MCRateLimiter.cfg`: 3 keys, room for 2, 9 ticks, window 3 | cap, quota since the last eviction, justified refusals, forgetting, and the ideal limiter's answers |
| `limiter_empty_key` | `MCRateLimiterEmptyKey.cfg` | **fails**: the bound of `memory_test.go:93` when the oldest key is `""` |
| `boards` | `MCBoards.cfg`: every table of up to 3 of 9 rows, 2 changes meanwhile | each board, record list, hall of fame, player page and chart is right at one moment of its request; trophies and records follow the boards |
| `hall_of_fame` | `MCBoardsTies.cfg`: 5 players, 3 trophies a month | **fails**: "career best within the period" (`halloffame.go:25`) |
| `metrics` | `MCMetrics.cfg`: 3 increments, 2 processes with one connection each, 2 days | connections come back, counters match answers, past days are final, one verdict per process, everyone is served |
| `frontend` | `MCFrontend.cfg`: 2 modes, 3 periods, 2 players, 3 clicks | drawing, caching, URL, and spinners that end |
| `frontend_stale` | `MCFrontendStale.cfg` | **fails**: the "stale-response guard" of `app.js:235` after a cache hit |

A run marked **fails** checks one statement a comment or test of the repository
makes, and TLC finds a behaviour of the code that breaks it:

* *one session per player* - both DELETEs of two overlapping logins run before
  both INSERTs.  What does hold is `OneSessionUnlessOverlapping`.
* *minimum time between submissions* - both cooldown queries of two overlapping
  submissions run before both INSERTs.  What does hold is
  `CooldownUnlessOverlapping`.
* *map cap* - `evictOldest` takes `""` for "no key found".  What does hold is
  `MapCap` when `""` never occurs (`Capped`).
* *career best* - months off the podium are dropped before the maximum is taken.
  What does hold is `HallRight`: the trophies themselves and their order.
* *stale responses* - a cache hit does not advance `fetchGen`, so a fetch the
  user has left is still current.  What does hold is `StaleOnlyOverCached`.

One more comment does not hold, and the passing run `boards` shows by how much.
The one on `GetPlayerDetail` (`players.go:49-51`) promises "all their author/gold
scores", and nil only for a player who "doesn't exist, is banned, or has no scores
in these modes".  The query drops runs with score 0 (`players.go:70`), which
validation lets in (`scores.go:20`): a player who has no other run is a 404.
`PlayerRight` states what the code does instead - withheld are a banned player's
runs and those with score 0, no others, and the page is a 404 exactly if nothing
is left - and the tables of `MCBoards` hold such a run, alone in one of them.  All
boards leave these runs out, so the page agrees with them and not with its comment.

### Why the bounds are enough

Three overlapping requests give every interleaving of two that race plus one
that comes before, between or after; a third account or player would be another
uninvolved one.  Clocks run past one expiry (`server`), one cooldown (`scores`) and
three windows (`limiter`), which covers both sides of each comparison and its
boundary.  In `limiter` three keys with room for two make eviction, refusal and
refill meet; in `frontend` three clicks are enough to leave a page while it is
loading, return to a cached one and have the late response arrive, or to open
and dismiss a player while events are queued.  In `boards` the tables hold every tie the queries can meet (equal scores at
equal and at different instants, a better run in another month, runs without a
score or a board), the limits are two so that three players overrun them, the
clock starts on both sides of a month's turn, and two changes suffice for one
between any two of a handler's steps and one before or after.  In `metrics` two
requests race in one process and a third runs beside or after them; a pool of
one is where holding two connections shows first, and a column that is full at
two is passed.  The theorems below remove the bounds where they apply.
Deadlock is checked in `scores`, `scores_cooldown` and `server`,
where bans can always change; the other systems stop when all requests are
answered or their clock or click bound is reached.

### Fairness

* `ServerFairness`: weak fairness on the next step of each accepted login and
  submission.  A goroutine that is not killed is scheduled, the call to Openplanet
  ends within the client's 10 s (`openplanet.go:16-18`), and statements are
  assumed to return.  A crash ends the obligation, and arrivals are not fair.
* `MetricsFairness`: weak fairness on the next step of each increment, for the
  same reasons; a statement that has its connection returns.  Nothing is assumed
  of who gets a free connection: that one is free again and again is enough for
  finitely many requests.
* `FrontendFairSpec`: the browser handles queued events and settles every fetch.
  Clicks are not fair.

## Proofs

TLAPS checks every leaf; nothing is assumed but the named ASSUMEs on the
constants and, where listed, an assumption in the theorem itself.

* **`AuthProofs`**.  The checked properties are not inductive: that a delivered
  token is live or was swept says nothing of the moment between DELETE and
  INSERT.  `AuthIInv` adds what the handler's position implies: rows come from
  logins that issued them, a token is issued at most once and only at the INSERT,
  what a DELETE swept is never live again, and the player row exists from the
  upsert on.  From it: `AuthTypeCorrect`, `OneSession`, `TokensLive`,
  `SessionsReferential`, and `AuthImplementsLedger` (each step is a `Revoke`, an
  `Issue` or a stutter).
* **`ScoresProofs`**.  `ScoresIInv` ties each row to the state of its submission
  and keeps what the cooldown query saw; from it `ScoresTypeCorrect`, `Cooldown`,
  `Truthful` and, as an action property, `BanStops`.
* **`ServerProofs`**.  Each step of the composition is a step of `Auth` or leaves
  its variables alone, and likewise for `Scores`: `ServerImplementsAuth`,
  `ServerImplementsScores`.  So the endpoints do not disturb one another.  For what
  crosses from one to the other, `ServerIInv` says that a row of `sessions` is what
  its login inserted, that what a DELETE swept is gone for good, that a submission
  past the lookup holds a token of its player that was good when it was looked up,
  and that a row of `scores` names the player its submission was admitted for.
  From it `OwnerOnly` and `LateStoreNothing`; `ServerTypeCorrect` beside them.
* **`RateLimiterProofs`**.  The invariant relates the map to the full history of
  grants: what the map holds was granted, and what was granted since the last
  eviction and is still in the window is in the map.  From it
  `RateLimiterTypeCorrect`, `Limited`, `RefusalsFair`, `Forgotten`; `Capped`
  assumes `EmptyIP \notin Keys`.  To show that the key that is evicted was
  overtaken by `MaxEntries` others the invariant needs the order of grants: no
  instant is granted twice, a slice was filled after its key's last eviction, and
  it always holds the last request granted since (`OrderIInv`).  From it
  `LimiterIsSlidingWindow`, for any finite set of keys.
* **`MetricsProofs`**.  `PoolIInv` adds that each pool is finite, so that taking a
  connection raises its cardinality by one: `PoolCorrect`.  `MetricsIInv` adds what
  a request's answer says of the list its process loaded, and that a running upsert
  began today unless midnight overtook it: `OneVerdict`, and the action property
  `PastDaysClosed`.  For the other half of `OneVerdict` it says that whoever is past
  `GetDB` is in a process whose handle is open (`PastOpenHandle`): the kept error of a
  first call reaches every later one.  `MetricsTypeCorrect` has the bound on the counters.
  `CountsMatch` is about sums over the days, which no step preserves by itself: it
  follows from `CountsIInv`, which counts day by day (`DaysMatchAnswers`) and knows
  that only finitely many requests have arrived, since an infinite set has no
  cardinality.  `SumOfCounts` of `Counting` turns the days into the sum.
* **`Counting`**.  What both counters and boards are counted with.  Induction is
  over the set of the arguments for which a claim holds, a constant and not an
  operator, so that the provers can use it: over the subsets of a finite set
  (`StrongInduction`, `FiniteInduction`) and over the naturals.  From that: a
  finite set has its highest and lowest elements, can be listed in order, and is
  listed in one way as far as the order tells its members apart (`Descends`,
  `EmbeddedBelow`); sums over a set of counts are the count of the union.
* **`BoardsProofs`**.  The properties speak of moments of the request, so the
  invariant has to as well.  `BoardsIInv` says of every moment that its table is
  finite and has no row ahead of the clock, that the clock does not run back from
  one to the next (`MomentsOK`), and that what a handler holds between two of its
  steps was true at an earlier moment (`SoFar`): the months read from the clock, the
  all-time records, the days of the chart.  Without `SoFar` the second half of
  worldrecords, of the hall of fame and of the chart could join anything to
  anything.  The rest is about the queries at one moment: a leaderboard is the
  best run of each player, sorted and cut (`LeaderboardIs`, `BoardIs`), a record
  the highest score of its mode (`RecordsAre`), a `ROW_NUMBER` the place in a month
  (`MonthlyIs`, `RowNumbersIs`), a medal line the number of months on that place
  (`MedalsAre`), a chart column a sum over the maps of a day (`ActivityIs`).  From
  them `LeaderboardTrue`, `RecordsTrue`, `HallIsTrue`, `PlayerTrue`, `ActivityTrue`,
  and, for boards beside one another, `RecordsLeadTheBoards` and
  `TrophiesFollowTheBoards`: two queries that break ties apart still list the same
  scores.  All of it for every number of players, every limit, every length of
  days and months, and every finite table: `BoardsAssumption` asks for finite
  tables, because an infinite set has no maximum and no `ORDER BY`.
* **`FrontendProofs`**.  `FrontendIInv` adds that a fetch of the current generation
  is for the page on screen unless that page came from the cache, which is exactly
  how far the generation guard reaches: `StaleOverCachedOnly`, `CachesTruthful`,
  `HashNames`, `FrontendTypeCorrect`.

Model-checked only: the liveness properties `AcceptedIsAnswered`,
`EveryoneIsServed` and `LoadingEnds`, because the installed provers have no rule
for fairness and ENABLED.  Every other property of a passing run has a theorem.

## Not modelled

* The edge cache: the code sets one `Cache-Control` header, and the cache, its
  clock and what it does when told to revalidate belong to the hosting platform.
  Two hazards are therefore only named: a 404 or an empty board that is served
  after it stopped being true.
* A URL fragment that does not decode, as `#player/%/x`.  `decodeURIComponent` throws
  there (`app.js:563-564`) after `state.view` is set to "player", and neither
  `syncUI` nor `fetchData` runs: the state is then on a player and the screen on the
  page before, until the next hash or tab.  `Navigate` and the initial hash choose
  among fragments that decode, so the properties of `Frontend` - `HashNamesPage`
  above all - speak of those only.
* Display names, which the boards show and do not identify players by.
* `validate`, the hash of `playerlink`, formatting, logging: pure functions of one
  request.
* `config`: read once at start; its values are CONSTANTS, positive because
  `durationEnv` replaces anything else by a default.
* Generated table bindings, the development server and mock, scripts, styles.
* Several processes have several limiters; one instance is modelled.

## Plan

1. Done: `Auth`, `Scores`, `Server`, `RateLimiter`, `Boards`, `Database`, `Metrics`,
   `Frontend` with their runs, and a theorem for each of their safety and action
   properties.
2. Proofs left: that `Metrics` implements a plain counter, if one is worth
   stating as a module.
3. The limiter in front of `Auth`; display names in the upsert.

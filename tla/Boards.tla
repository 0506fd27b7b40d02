------------------------------- MODULE Boards -------------------------------
(***************************************************************************)
(* The read-only endpoints: leaderboard, hall of fame, world records,      *)
(* player page and activity, each a handler that reads the clock and sends *)
(* one or two queries over `scores`, `players` and `banned_players`.       *)
(*                                                                         *)
(* Readers change nothing and do not meet, so one request is followed, and *)
(* the tables and the clock move on between its steps.  A query is given   *)
(* as the set of its possible results: SQL leaves the order of ties open.  *)
(***************************************************************************)
EXTENDS Integers, FiniteSetsExt, SequencesExt

CONSTANTS
  Players,        \* numbered in the order of LOWER(display_name)
  DayLength,      \* instants in a day
  MonthLength,    \* instants in a month
  EarliestMonth,  \* leaderboardEarliestMonth
  BoardLimit,     \* LIMIT 50
  Podium,         \* trophies a month: gold, silver and bronze
  ActivityDays,   \* days = 30
  AllTime,        \* the leaderboard query without a month
  Asked,          \* bound: the months a leaderboard is asked for
  Runs,           \* bound: the runs submitted while a request is served
  StartTables,    \* bound: the `scores` tables a request may find,
  StartBans,      \* the players banned then,
  StartTimes,     \* and the instants
  MaxPast         \* bound: changes of the world while a request is served

Modes == {"author", "gold", "custom"}
BoardModes == {"author", "gold"}

Day(t) == t \div DayLength
Month(t) == t \div MonthLength

ScoreRow == [player : Players, mode : Modes, score : Nat, maps : Nat, at : Nat]

ASSUME BoardsAssumption ==
  /\ Players \subseteq Nat
  /\ {DayLength, MonthLength, BoardLimit, Podium, ActivityDays} \subseteq Nat \ {0}
  /\ MonthLength % DayLength = 0
  /\ EarliestMonth \in Nat
  /\ AllTime \notin Nat
  /\ Asked \subseteq Nat \cup {AllTime}
  /\ Runs \subseteq [player : Players, mode : Modes, score : Nat, maps : Nat]
  /\ \A rows \in StartTables : rows \subseteq ScoreRow /\ IsFiniteSet(rows)
  /\ StartTimes \subseteq Nat
  /\ StartBans \subseteq SUBSET Players
  /\ MaxPast \in Nat

VARIABLES
  world,  \* the clock, the rows of `scores`, the players in `banned_players`
  page,   \* what is asked for
  step,   \* the step the handler is at, or the status it answered
  body,   \* the handler's result so far
  past    \* history: the worlds since the request arrived, but for the last

boardVars == <<world, page, step, body, past>>

Pages ==
  [kind : {"leaderboard"}, modes : {{m} : m \in BoardModes} \cup {Modes}, month : Asked]
    \cup [kind : {"halloffame"}, mode : BoardModes]
    \cup [kind : {"player"}, player : Players, signed : BOOLEAN]
    \cup [kind : {"worldrecords", "activity"}]

Answers == {"200", "400", "404", "405", "503"}
ReadSteps == {"idle", "clock", "query", "monthly"}

BoardsTypeOK ==
  /\ world.now \in Nat
  /\ world.rows \subseteq ScoreRow
  /\ world.banned \subseteq Players
  /\ \A r \in world.rows : r.at <= world.now
  /\ page \in Pages
  /\ step \in ReadSteps \cup Answers
  /\ Len(past) <= MaxPast

-----------------------------------------------------------------------------
(* SQL *)

\* SELECT DISTINCT ON (key) ... ORDER BY key, score DESC.
DistinctOn(S, key(_)) ==
  {B \in SUBSET S :
     \A r \in S : \E b \in B :
       /\ key(b) = key(r)
       /\ b.score >= r.score
       /\ \A c \in B : key(c) = key(r) => c = b}

\* ORDER BY: rows neither of which goes before the other come in any order.
OrderBy(S, before(_, _)) ==
  {s \in [1..Cardinality(S) -> S] :
     \A i, j \in DOMAIN s : i < j => s[i] # s[j] /\ ~ before(s[j], s[i])}

Limit(s, n) == SubSeq(s, 1, Min({n, Len(s)}))

HigherScore(r, s) == r.score > s.score

\* The WHERE clause all boards share, the ban's LEFT JOIN included.
Ranked(w, modes, from, to) ==
  {r \in w.rows : /\ r.player \notin w.banned
                  /\ r.score > 0
                  /\ r.mode \in modes
                  /\ from <= r.at /\ r.at < to}

Start(month) == IF month = AllTime THEN 0 ELSE month * MonthLength
End(month, w) == IF month = AllTime THEN w.now + 1 ELSE (month + 1) * MonthLength

-----------------------------------------------------------------------------
(* The queries of api/_pkg/db *)

\* DISTINCT left out: a player once for every run.
GetEveryRun(w, modes, from, to) ==
  {Limit(s, BoardLimit) : s \in OrderBy(Ranked(w, modes, from, to), HigherScore)}

GetLeaderboard(w, modes, from, to) ==
  {Limit(s, BoardLimit) :
     s \in UNION {OrderBy(B, HigherScore) :
                    B \in DistinctOn(Ranked(w, modes, from, to), LAMBDA r : r.player)}}

\* No ORDER BY: DISTINCT ON keeps any row of a mode.
GetAnyRecords(w, from, to) ==
  LET S == Ranked(w, BoardModes, from, to)
  IN  {f \in [{r.mode : r \in S} -> S] : \A m \in DOMAIN f : f[m].mode = m}

GetWorldRecords(w, from, to) ==
  {[m \in {r.mode : r \in B} |-> CHOOSE r \in B : r.mode = m] :
     B \in DistinctOn(Ranked(w, BoardModes, from, to), LAMBDA r : r.mode)}

\* Custom runs included.
GetPlayerRuns(w, p) ==
  OrderBy({r \in Ranked(w, Modes, 0, w.now + 1) : r.player = p},
          LAMBDA r, s : r.at > s.at)

\* The author and gold scores of p above zero, newest first; none stands for
\* (nil, nil).  The comment on the function says all of them: see PlayerRight.
GetPlayerDetail(w, p) ==
  OrderBy({r \in Ranked(w, BoardModes, 0, w.now + 1) : r.player = p},
          LAMBDA r, s : r.at > s.at)

\* Days counted from this instant back; the first one is cut short.
GetActivityOfFewerDays(w) ==
  LET recent == {r \in w.rows : /\ r.player \notin w.banned
                                /\ r.at + (ActivityDays - 1) * DayLength >= w.now}
  IN  [d \in {Day(r.at) : r \in recent} |->
         MapThenSumSet(LAMBDA r : r.maps, {r \in recent : Day(r.at) = d})]

\* maps completed per day, for the days that have any rows.
GetMedalActivity(w) ==
  LET recent == {r \in w.rows : /\ r.player \notin w.banned
                                /\ r.at + ActivityDays * DayLength >= w.now}
  IN  [d \in {Day(r.at) : r \in recent} |->
         MapThenSumSet(LAMBDA r : r.maps, {r \in recent : Day(r.at) = d})]

\* The subquery "monthly": a player's best score and first instant in a month.
Monthly(rows) ==
  {LET mine == {r \in rows : r.player = g.player /\ Month(r.at) = g.month}
   IN  [player |-> g.player, month |-> g.month,
        best |-> Max({r.score : r \in mine}), first |-> Min({r.at : r \in mine})]
     : g \in {[player |-> r.player, month |-> Month(r.at)] : r \in rows}}

\* ROW_NUMBER() that follows the first instant only.
FirstOnly(a, b) == a.first < b.first

\* The ORDER BY of ROW_NUMBER().
BestThenFirst(a, b) == a.best > b.best \/ (a.best = b.best /\ a.first < b.first)

\* rn: for every month a numbering of its players.
RowNumbers(monthly) ==
  LET months == {g.month : g \in monthly}
      orders == [m \in months |-> OrderBy({g \in monthly : g.month = m}, BestThenFirst)]
  IN  {f \in [months -> UNION {orders[m] : m \in months}] :
         \A m \in months : f[m] \in orders[m]}

\* The rows with rn <= 3, as places <<month, rn>>.
Places(rn) == {x \in (DOMAIN rn) \X (1..Podium) : x[2] <= Len(rn[x[1]])}

\* One output row: COUNT(CASE ...) per trophy and MAX(best_score).
TrophiesOf(p, rn) ==
  LET mine == {x \in Places(rn) : rn[x[1]][x[2]].player = p}
  IN  [player |-> p,
       medals |-> [k \in 1..Podium |-> Cardinality({x \in mine : x[2] = k})],
       best |-> Max({rn[x[1]][x[2]].best : x \in mine})]

MoreMedals(a, b) ==
  \E k \in 1..Podium : /\ a.medals[k] > b.medals[k]
                       /\ \A j \in 1..(k - 1) : a.medals[j] = b.medals[j]

\* gold, silver, bronze, playerBest descending, then the name.
AheadInHall(a, b) ==
  \/ MoreMedals(a, b)
  \/ /\ a.medals = b.medals
     /\ a.best > b.best \/ (a.best = b.best /\ a.player < b.player)

GetHallOfFame(w, mode, earliest, before) ==
  UNION {OrderBy({TrophiesOf(rn[x[1]][x[2]].player, rn) : x \in Places(rn)}, AheadInHall) :
           rn \in RowNumbers(Monthly(Ranked(w, {mode}, earliest, before)))}

-----------------------------------------------------------------------------
(* The handlers of api *)

BoardsInit ==
  /\ world \in [now : StartTimes, rows : StartTables, banned : StartBans]
  /\ \A r \in world.rows : r.at <= world.now
  /\ page \in Pages
  /\ step = "idle"
  /\ body = <<>>
  /\ past = <<>>

\* The handler of `kind` leaves step `from` for step (or answer) `to`.
ReadGoes(kind, from, to) ==
  /\ page.kind = kind
  /\ step = from
  /\ step' = to
  /\ UNCHANGED <<world, page, past>>

\* playerlink.Verify, before any query.
Unsigned == page.kind = "player" /\ ~ page.signed

\* Not a GET, parameters that do not validate, or a link we did not sign.
RefuseRead ==
  \E status \in {"405"}
                  \cup (IF page.kind \in {"worldrecords", "activity"} THEN {} ELSE {"400"})
                  \cup (IF Unsigned THEN {"404"} ELSE {}) :
    ReadGoes(page.kind, "idle", status) /\ UNCHANGED body

AcceptRead ==
  /\ ~ Unsigned
  /\ ReadGoes(page.kind, "idle",
              IF page.kind \in {"leaderboard", "halloffame"} THEN "clock" ELSE "query")
  /\ UNCHANGED body

\* GetDB or the query fails.
FailRead ==
  \E from \in {"query", "monthly"} :
    ReadGoes(page.kind, from, "503") /\ UNCHANGED body

\* A month without data is answered without a query.
CheckMonth ==
  LET outside == page.month # AllTime /\ (\/ page.month < EarliestMonth
                                          \/ page.month > Month(world.now))
  IN  /\ ReadGoes("leaderboard", "clock", IF outside THEN "200" ELSE "query")
      /\ UNCHANGED body

QueryLeaderboard ==
  /\ ReadGoes("leaderboard", "query", "200")
  /\ body' \in GetLeaderboard(world, page.modes, Start(page.month), End(page.month, world))

\* currentMonth, read before the query.
ReadCurrentMonth ==
  /\ ReadGoes("halloffame", "clock", "query")
  /\ body' = Month(world.now)

HofEarliestMonth == EarliestMonth + 1

\* Months up to and including the current one.
QueryHallOfFameSoFar ==
  /\ ReadGoes("halloffame", "query", "200")
  /\ body' \in GetHallOfFame(world, page.mode, Start(HofEarliestMonth), Start(body + 1))

QueryHallOfFame ==
  /\ ReadGoes("halloffame", "query", "200")
  /\ body' \in GetHallOfFame(world, page.mode, Start(HofEarliestMonth), Start(body))

QueryAllTimeRecords ==
  /\ ReadGoes("worldrecords", "query", "clock")
  /\ \E records \in GetWorldRecords(world, Start(AllTime), End(AllTime, world)) :
       body' = [allTime |-> records]

ReadRecordMonth ==
  /\ ReadGoes("worldrecords", "clock", "monthly")
  /\ body' = [allTime |-> body.allTime, month |-> Month(world.now)]

\* A second query bounded below only.
QueryRecordsSinceMonth ==
  /\ ReadGoes("worldrecords", "monthly", "200")
  /\ \E records \in GetWorldRecords(world, Start(body.month), End(AllTime, world)) :
       body' = [allTime |-> body.allTime, month |-> body.month, monthly |-> records]

QueryMonthlyRecords ==
  /\ ReadGoes("worldrecords", "monthly", "200")
  /\ \E records \in GetWorldRecords(world, Start(body.month), End(body.month, world)) :
       body' = [allTime |-> body.allTime, month |-> body.month, monthly |-> records]

QueryPlayer ==
  /\ page.kind = "player"
  /\ \E rows \in GetPlayerDetail(world, page.player) :
       /\ ReadGoes("player", "query", IF rows = <<>> THEN "404" ELSE "200")
       /\ body' = rows

QueryActivity ==
  /\ ReadGoes("activity", "query", "clock")
  /\ body' = GetMedalActivity(world)

\* The last ActivityDays days, today last, zero where the lookup has none.
FillActivity ==
  LET day(i) == Day(world.now) + i - ActivityDays
  IN  /\ ReadGoes("activity", "clock", "200")
      /\ body' = [i \in 1..ActivityDays |->
                    IF day(i) \in DOMAIN body THEN body[day(i)] ELSE 0]

\* InsertScore by a process whose clock is ahead.
StoredAhead(r, t) ==
  [player |-> r.player, mode |-> r.mode, score |-> r.score, maps |-> r.maps, at |-> t + 1]

\* InsertScore: created_at is NOW().
Stored(r, t) ==
  [player |-> r.player, mode |-> r.mode, score |-> r.score, maps |-> r.maps, at |-> t]

\* What the other endpoints, an operator and time do meanwhile.  An instant is
\* too short for two scores of one player.
Successors(w) ==
  {[w EXCEPT !.now = @ + 1]}
    \cup {[w EXCEPT !.rows = @ \cup {Stored(r, w.now)}] :
            r \in {x \in Runs : \A y \in w.rows : y.player = x.player => y.at < w.now}}
    \cup {[w EXCEPT !.banned = @ \cup {p}] : p \in Players \ w.banned}
    \cup {[w EXCEPT !.banned = @ \ {p}] : p \in w.banned}

WorldMoves ==
  /\ step \in {"clock", "query", "monthly"}
  /\ Len(past) < MaxPast
  /\ world' \in Successors(world)
  /\ past' = Append(past, world)
  /\ UNCHANGED <<page, step, body>>

BoardsNext ==
  \/ RefuseRead \/ AcceptRead \/ FailRead
  \/ CheckMonth \/ QueryLeaderboard
  \/ ReadCurrentMonth \/ QueryHallOfFame
  \/ QueryAllTimeRecords \/ ReadRecordMonth \/ QueryMonthlyRecords
  \/ QueryPlayer
  \/ QueryActivity \/ FillActivity
  \/ WorldMoves

BoardsSpec == BoardsInit /\ [][BoardsNext]_boardVars

-----------------------------------------------------------------------------
\* The worlds a request has been through.
Moments == Append(past, world)
Answered(kind) == page.kind = kind /\ step = "200"

\* The WHERE clause spelled out for one row.
Counts(w, r, modes) ==
  r \in w.rows /\ r.player \notin w.banned /\ r.score > 0 /\ r.mode \in modes

During(r, month) == month = AllTime \/ Month(r.at) = month

\* A leaderboard is, at one moment of the request, the best BoardLimit players
\* of the month with their best run each, in order; nobody is on it twice, and
\* whoever is missing has no better run than the last entry of a full board.
LeaderboardRight ==
  Answered("leaderboard") /\ (page.month # AllTime => page.month >= EarliestMonth) =>
    \E i \in DOMAIN Moments :
      LET w == Moments[i]
          On(r) == Counts(w, r, page.modes) /\ During(r, page.month)
      IN  /\ \A k \in DOMAIN body : On(body[k])
          /\ \A j, k \in DOMAIN body :
               j < k => body[j].score >= body[k].score /\ body[j].player # body[k].player
          /\ \A r \in w.rows : On(r) =>
               \/ \E k \in DOMAIN body : body[k].player = r.player /\ body[k].score >= r.score
               \/ Len(body) = BoardLimit /\ body[BoardLimit].score >= r.score

AreRecords(records, w, month) ==
  \A m \in BoardModes :
    LET rows == {r \in w.rows : Counts(w, r, {m}) /\ During(r, month)}
    IN  IF rows = {} THEN m \notin DOMAIN records
        ELSE /\ m \in DOMAIN records
             /\ records[m] \in rows
             /\ \A r \in rows : r.score <= records[m].score

\* World records come from two statements: the all-time ones are right at one
\* moment, the monthly ones at a later one, for the month it was in between.
\* So a monthly record above the all-time one was stored in between.
RecordsRight ==
  Answered("worldrecords") =>
    \E i, j, k \in DOMAIN Moments :
      /\ i <= j /\ j <= k
      /\ body.month = Month(Moments[j].now)
      /\ AreRecords(body.allTime, Moments[i], AllTime)
      /\ AreRecords(body.monthly, Moments[k], body.month)

\* Player p's place in a finished month is k or may be, if others tie with it.
Placed(w, mode, month, p, k) ==
  LET mine(q) == {r \in w.rows : /\ Counts(w, r, {mode})
                                 /\ Month(r.at) = month /\ r.player = q}
      ahead(q, strictly) ==
        LET top(x) == CHOOSE r \in mine(x) : \A s \in mine(x) : s.score <= r.score
            first(x) == CHOOSE r \in mine(x) : \A s \in mine(x) : s.at >= r.at
        IN  \/ top(q).score > top(p).score
            \/ /\ top(q).score = top(p).score
               /\ IF strictly THEN first(q).at < first(p).at ELSE first(q).at <= first(p).at
      rivals == {q \in Players \ {p} : mine(q) # {}}
  IN  /\ mine(p) # {}
      /\ Cardinality({q \in rivals : ahead(q, TRUE)}) < k
      /\ Cardinality({q \in rivals : ahead(q, FALSE)}) >= k - 1

\* The hall of fame counts, for every finished month since the launch and no
\* other, one trophy of each kind as far as there are players, goes to those
\* who placed there, and is sorted by trophies; bans that end or begin while
\* the month turns do not mix two months' counts.
HallRight ==
  Answered("halloffame") =>
    \E i, j \in DOMAIN Moments :
      LET w == Moments[j]
          months == HofEarliestMonth..(Month(Moments[i].now) - 1)
          placed(m, k) == {p \in Players : Placed(w, page.mode, m, p, k)}
          entry(p) == {n \in DOMAIN body : body[n].player = p}
      IN  /\ i <= j
          /\ \A k \in 1..Podium :
               /\ \A p \in Players : \A n \in entry(p) :
                    /\ body[n].medals[k] <= Cardinality({m \in months : p \in placed(m, k)})
                    /\ body[n].medals[k] >= Cardinality({m \in months : placed(m, k) = {p}})
               /\ SumFunction([n \in DOMAIN body |-> body[n].medals[k]])
                    = Cardinality({m \in months : placed(m, k) # {}})
          /\ \A p \in Players : Cardinality(entry(p)) <= 1
          /\ \A n \in DOMAIN body : \E k \in 1..Podium : body[n].medals[k] > 0
          /\ \A n, o \in DOMAIN body : n < o => ~ MoreMedals(body[o], body[n])

\* What a player page withholds of the player's author and gold runs: all of
\* them for as long as the player is banned, and else those with score 0, and it
\* is a 404 exactly if that leaves nothing.  The comment on GetPlayerDetail says
\* otherwise: "all their author/gold scores", and nil only if the player "doesn't
\* exist, is banned, or has no scores in these modes".  A run with score 0 is
\* accepted and stored (scores.go:20), and a player with no other one has scores
\* in these modes and is a 404.  What is shown is shown once, newest first.
PlayerRight ==
  page.kind = "player" /\ step \in {"200", "404"} /\ page.signed =>
    \E i \in DOMAIN Moments :
      LET w == Moments[i]
          own == {r \in w.rows : r.player = page.player /\ r.mode \in BoardModes}
          withheld == {r \in own : page.player \in w.banned \/ r.score = 0}
      IN  /\ {body[k] : k \in DOMAIN body} = own \ withheld
          /\ Len(body) = Cardinality(own \ withheld)
          /\ \A j, k \in DOMAIN body : j < k => body[j].at >= body[k].at
          /\ step = "404" <=> own = withheld

\* Every day of the activity chart shows all maps completed on it, the oldest
\* day included, although the query and the chart read the clock separately.
ActivityRight ==
  Answered("activity") =>
    \E i, j \in DOMAIN Moments :
      /\ i <= j
      /\ \A n \in 1..ActivityDays :
           LET rows == {r \in Moments[i].rows : /\ r.player \notin Moments[i].banned
                                               /\ Day(r.at) = Day(Moments[j].now) + n - ActivityDays}
           IN  body[n] = MapThenSumSet(LAMBDA r : r.maps, rows)

\* The boards agree with one another over one table: in a finished month the
\* k-th trophy goes to a score as high as the k-th entry of that month's board.
TrophiesFollowBoards ==
  \A mode \in BoardModes :
    LET ranked == Ranked(world, {mode}, Start(HofEarliestMonth), Start(Month(world.now)))
    IN  \A rn \in RowNumbers(Monthly(ranked)) : \A m \in DOMAIN rn :
          \A board \in GetLeaderboard(world, {mode}, Start(m), End(m, world)) :
            /\ Len(board) = Min({BoardLimit, Len(rn[m])})
            /\ \A k \in DOMAIN board : board[k].score = rn[m][k].best

\* ... and an all-time record is the first score of the mode's all-time board.
RecordsLeadBoards ==
  \A records \in GetWorldRecords(world, Start(AllTime), End(AllTime, world)) :
    \A mode \in BoardModes :
      \A board \in GetLeaderboard(world, {mode}, Start(AllTime), End(AllTime, world)) :
        IF board = <<>> THEN mode \notin DOMAIN records
        ELSE mode \in DOMAIN records /\ records[mode].score = board[1].score

\* What the comment on GetHallOfFame says of equal trophies: "best_score is the
\* player's career best within the period, used to break trophy-count ties".
TiesBrokenByCareerBest ==
  Answered("halloffame") /\ past = <<>> =>
    \A j, k \in DOMAIN body :
      LET best(p) ==
            Max({r.score : r \in {s \in Ranked(world, {page.mode}, Start(HofEarliestMonth),
                                               Start(Month(world.now))) : s.player = p}})
      IN  j < k /\ body[j].medals = body[k].medals =>
            best(body[j].player) >= best(body[k].player)
=============================================================================

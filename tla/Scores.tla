------------------------------- MODULE Scores -------------------------------
(***************************************************************************)
(* handleScoreSubmit (api/scores.go) behind RequireAuth: the ban check, the *)
(* validation of the body, the cooldown check and the INSERT into `scores`. *)
(* Each submission runs in a goroutine of its own and no lock or           *)
(* transaction spans two of its statements.  NOW() in the cooldown query    *)
(* and the DEFAULT NOW() of created_at are both the clock of the database.  *)
(***************************************************************************)
EXTENDS Naturals, Postgres

CONSTANTS
  Submissions,    \* the POST /api/scores requests that may arrive
  Players,        \* the players RequireAuth can name
  NilPlayer,      \* uuid.Nil: no player yet
  ScoreCooldown,  \* config.Env.ScoreCooldown, in clock ticks
  MaxClock        \* bound: where the model's clock stops

ASSUME ScoresAssumption ==
  /\ NilPlayer \notin Players
  /\ ScoreCooldown \in Nat \ {0}
  /\ MaxClock \in Nat

VARIABLES
  clock,    \* NOW()
  banned,   \* players with a row in `banned_players`
  scores,   \* rows of `scores`; a row's id is the submission that stored it
  submit,   \* submit[r]: the step r is at, or the status it was answered
  player,   \* player[r]: the playerID RequireAuth passed to r's handler
  before,   \* history: before[r]: scores r's cooldown query could see
  faked,    \* history: submissions answered the fake 201 of a banned player
  exempt    \* history: submissions past the ban check when the ban was made

scoreVars == <<clock, banned, scores, submit, player, before, faked, exempt>>

PastBanCheck == {"parse", "cooldown", "insert"}
SubmitSteps == {"idle", "ban", "crashed"} \cup PastBanCheck
SubmitAnswers == {"201", "400", "401", "405", "429", "503"}

ScoreRow == [id : Submissions, player : Players, created : Nat]

ScoresTypeOK ==
  /\ clock \in Nat
  /\ banned \subseteq Players
  /\ scores \subseteq ScoreRow
  /\ submit \in [Submissions -> SubmitSteps \cup SubmitAnswers]
  /\ player \in [Submissions -> Players \cup {NilPlayer}]
  /\ before \in [Submissions -> SUBSET Submissions]
  /\ faked \subseteq Submissions
  /\ exempt \subseteq Submissions

ScoresInit ==
  /\ clock = 0
  /\ banned = {}
  /\ scores = {}
  /\ submit = [r \in Submissions |-> "idle"]
  /\ player = [r \in Submissions |-> NilPlayer]
  /\ before = [r \in Submissions |-> {}]
  /\ faked = {}
  /\ exempt = {}

-----------------------------------------------------------------------------
\* Submission r leaves step `from` for step (or answer) `to`.
SubmitGoes(r, from, to) ==
  /\ submit[r] = from
  /\ submit' = [submit EXCEPT ![r] = to]

\* Not a POST.
RefuseMethod(r) ==
  /\ SubmitGoes(r, "idle", "405")
  /\ UNCHANGED <<clock, banned, scores, player, before, faked, exempt>>

\* RequireAuth ends the request: 401, or 503 when the lookup fails.
RefuseSubmit(r, status) ==
  /\ SubmitGoes(r, "idle", status)
  /\ UNCHANGED <<clock, banned, scores, player, before, faked, exempt>>

\* RequireAuth hands the request of player p to handleScoreSubmit.
AcceptSubmit(r, p) ==
  /\ SubmitGoes(r, "idle", "ban")
  /\ player' = [player EXCEPT ![r] = p]
  /\ UNCHANGED <<clock, banned, scores, before, faked, exempt>>

IsPlayerBanned(r) == player[r] \in banned

\* A ban check that lets the request through when the query fails.
CheckBanFailingOpen(r) ==
  /\ \/ ~IsPlayerBanned(r) /\ SubmitGoes(r, "ban", "parse") /\ UNCHANGED faked
     \/ IsPlayerBanned(r) /\ SubmitGoes(r, "ban", "201") /\ faked' = faked \cup {r}
     \/ SubmitGoes(r, "ban", "parse") /\ UNCHANGED faked
  /\ UNCHANGED <<clock, banned, scores, player, before, exempt>>

\* A banned player is answered as if the score had been stored.
CheckBan(r) ==
  /\ \/ ~IsPlayerBanned(r) /\ SubmitGoes(r, "ban", "parse") /\ UNCHANGED faked
     \/ IsPlayerBanned(r) /\ SubmitGoes(r, "ban", "201") /\ faked' = faked \cup {r}
     \/ SubmitGoes(r, "ban", "503") /\ UNCHANGED faked
  /\ UNCHANGED <<clock, banned, scores, player, before, exempt>>

\* Decode the body and validate its fields and metadata.
ParseRequest(r) ==
  /\ \E next \in {"cooldown", "400"} : SubmitGoes(r, "parse", next)
  /\ UNCHANGED <<clock, banned, scores, player, before, faked, exempt>>

\* The rows of player p that are visible now.
ScoresOf(p) == {s \in scores : s.player = p}

\* A cooldown query that forgets the interval: created_at > NOW().
RecentIgnoringCooldown(p) == {s \in ScoresOf(p) : s.created > clock}

\* created_at > NOW() - cooldown.
RecentScores(p) == {s \in ScoresOf(p) : s.created + ScoreCooldown > clock}

\* CanSubmitScore, and its error path.
CheckCooldown(r) ==
  /\ \/ /\ RecentScores(player[r]) = {}
        /\ SubmitGoes(r, "cooldown", "insert")
        /\ before' = [before EXCEPT ![r] = {s.id : s \in ScoresOf(player[r])}]
     \/ /\ RecentScores(player[r]) # {}
        /\ SubmitGoes(r, "cooldown", "429")
        /\ UNCHANGED before
     \/ SubmitGoes(r, "cooldown", "503") /\ UNCHANGED before
  /\ UNCHANGED <<clock, banned, scores, player, faked, exempt>>

\* A row stored for nobody: the handler lost the player RequireAuth named.
NewScoreOfNobody(r) == [id |-> r, player |-> NilPlayer, created |-> clock]

NewScore(r) == [id |-> r, player |-> player[r], created |-> clock]

\* An INSERT whose error is ignored.
InsertScoreUnchecked(r) ==
  /\ SubmitGoes(r, "insert", "201")
  /\ \E o \in Outcomes :
       scores' = IF Applied(o) THEN scores \cup {NewScore(r)} ELSE scores
  /\ UNCHANGED <<clock, banned, player, before, faked, exempt>>

\* InsertScore and the answer.
InsertScore(r) ==
  /\ \E o \in Outcomes :
       /\ SubmitGoes(r, "insert", IF Errs(o) THEN "503" ELSE "201")
       /\ scores' = IF Applied(o) THEN scores \cup {NewScore(r)} ELSE scores
  /\ UNCHANGED <<clock, banned, player, before, faked, exempt>>

\* The process serving r dies, or the function is cut off, between two steps.
CrashSubmit(r) ==
  /\ submit[r] \in SubmitSteps \ {"idle", "crashed"}
  /\ submit' = [submit EXCEPT ![r] = "crashed"]
  /\ UNCHANGED <<clock, banned, scores, player, before, faked, exempt>>

\* No code of the server writes banned_players: an operator does, in SQL.
Ban(p) ==
  /\ p \notin banned
  /\ banned' = banned \cup {p}
  /\ exempt' = exempt \cup
       {r \in Submissions : player[r] = p /\ submit[r] \in PastBanCheck}
  /\ UNCHANGED <<clock, scores, submit, player, before, faked>>

Unban(p) ==
  /\ p \in banned
  /\ banned' = banned \ {p}
  /\ UNCHANGED <<clock, scores, submit, player, before, faked, exempt>>

ScoresTick ==
  /\ clock < MaxClock
  /\ clock' = clock + 1
  /\ UNCHANGED <<banned, scores, submit, player, before, faked, exempt>>

\* A step the code of r takes once r has been accepted.
SubmitStep(r) ==
  \/ CheckBan(r)
  \/ ParseRequest(r)
  \/ CheckCooldown(r)
  \/ InsertScore(r)

SubmitArrives(r) ==
  \/ RefuseMethod(r)
  \/ \E status \in {"401", "503"} : RefuseSubmit(r, status)
  \/ \E p \in Players : AcceptSubmit(r, p)

ScoresNext ==
  \/ ScoresTick
  \/ \E p \in Players : Ban(p) \/ Unban(p)
  \/ \E r \in Submissions : SubmitArrives(r) \/ SubmitStep(r) \/ CrashSubmit(r)

ScoresSpec == ScoresInit /\ [][ScoresNext]_scoreVars

-----------------------------------------------------------------------------
Stored(r) == \E s \in scores : s.id = r

\* Two scores of one player are a cooldown apart, unless their submissions
\* overlapped: a score that the cooldown query of another could see is at
\* least ScoreCooldown older.
CooldownUnlessOverlapping ==
  \A a, b \in scores :
    (a.player = b.player /\ a.id \in before[b.id]) => b.created >= a.created + ScoreCooldown

\* What an answer says of the table.  201 means stored, or faked for a banned
\* player; a refusal means not stored; only 503 and a lost connection leave
\* the client in doubt.  And no submission is stored twice.
AnswersTruthful ==
  /\ \A r \in Submissions :
       /\ submit[r] = "201" /\ r \notin faked => Stored(r)
       /\ Stored(r) => submit[r] \in {"201", "503", "crashed"} /\ r \notin faked
  /\ \A a, b \in scores : a.id = b.id => a = b

\* From a player's ban on, the only scores of theirs that still get in are
\* those of submissions the ban check had already let through.
BanStopsNewScores ==
  [][\A s \in scores' \ scores : s.player \in banned' => s.id \in exempt]_scoreVars

\* What the configuration says of SCORE_COOLDOWN: the minimum time between
\* two score submissions of one player.
CooldownBetweenScores ==
  \A a, b \in scores :
    (a.player = b.player /\ a # b /\ a.created <= b.created) =>
      b.created >= a.created + ScoreCooldown
=============================================================================

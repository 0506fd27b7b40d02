---------------------------- MODULE ScoresProofs ----------------------------
(***************************************************************************)
(* Scores, for every set of submissions and players, every cooldown and    *)
(* every interleaving: its types, its invariants and what a ban stops.     *)
(***************************************************************************)
EXTENDS Scores, TLAPS

\* Past RequireAuth a submission has a player: a row never names uuid.Nil.
HasPlayer == \A r \in Submissions :
  submit[r] \in {"ban"} \cup PastBanCheck => player[r] \in Players

\* Every statement and every failure of a submission keeps the types; that
\* rows name players rests on every handler having been given one.
LEMMA ScoresTypeStep ==
  ScoresTypeOK /\ HasPlayer /\ [ScoresNext]_scoreVars => ScoresTypeOK' /\ HasPlayer'
<1> SUFFICES ASSUME ScoresTypeOK, HasPlayer, [ScoresNext]_scoreVars
             PROVE  ScoresTypeOK' /\ HasPlayer'
  OBVIOUS
<1> USE DEF HasPlayer, ScoresTypeOK, SubmitSteps, PastBanCheck, SubmitAnswers, SubmitGoes
<1>1. CASE ScoresTick
  BY <1>1 DEF ScoresTick
<1>2. ASSUME NEW p \in Players, Ban(p) \/ Unban(p) PROVE ScoresTypeOK' /\ HasPlayer'
  BY <1>2 DEF Ban, Unban
<1>3. ASSUME NEW r \in Submissions, SubmitArrives(r) PROVE ScoresTypeOK' /\ HasPlayer'
  BY <1>3 DEF SubmitArrives, RefuseMethod, RefuseSubmit, AcceptSubmit
<1>4. ASSUME NEW r \in Submissions, CheckBan(r) PROVE ScoresTypeOK' /\ HasPlayer'
  BY <1>4 DEF CheckBan
<1>5. ASSUME NEW r \in Submissions, ParseRequest(r) PROVE ScoresTypeOK' /\ HasPlayer'
  BY <1>5 DEF ParseRequest
<1>6. ASSUME NEW r \in Submissions, CheckCooldown(r) PROVE ScoresTypeOK' /\ HasPlayer'
  <2>1. {s.id : s \in ScoresOf(player[r])} \subseteq Submissions
    BY DEF ScoresOf, ScoreRow
  <2> QED
    BY <1>6, <2>1 DEF CheckCooldown
<1>7. ASSUME NEW r \in Submissions, InsertScore(r) PROVE ScoresTypeOK' /\ HasPlayer'
  BY <1>7 DEF InsertScore, NewScore, ScoreRow
<1>8. ASSUME NEW r \in Submissions, CrashSubmit(r) PROVE ScoresTypeOK' /\ HasPlayer'
  BY <1>8 DEF CrashSubmit
<1>9. CASE UNCHANGED scoreVars
  BY <1>9 DEF scoreVars
<1> QED
  BY <1>1, <1>2, <1>3, <1>4, <1>5, <1>6, <1>7, <1>8, <1>9 DEF ScoresNext, SubmitStep

\* Every variable stays in its type.
THEOREM ScoresTypeCorrect == ScoresSpec => []ScoresTypeOK
<1>1. ScoresInit => ScoresTypeOK /\ HasPlayer
  BY DEF ScoresInit, ScoresTypeOK, HasPlayer, SubmitSteps, PastBanCheck
<1> QED
  BY <1>1, ScoresTypeStep, PTL DEF ScoresSpec

-----------------------------------------------------------------------------
(* The inductive invariant behind the rest.                                 *)

\* A row is that of its submission, stored in the past, and once.
RowsOfSubmissions ==
  /\ \A s \in scores :
       /\ s.player = player[s.id]
       /\ s.created <= clock
       /\ submit[s.id] \in {"201", "503"}
       /\ s.id \notin faked
  /\ \A a, b \in scores : a.id = b.id => a = b

\* 201 means stored or faked.
AnsweredStored == \A r \in Submissions : submit[r] = "201" => Stored(r) \/ r \in faked

\* Only submissions answered 201 are faked.
FakedAnswered == \A r \in faked : submit[r] = "201"

\* The cooldown query saw stored scores only, and no later than now.
SeenStored == \A r \in Submissions : \A i \in before[r] : Stored(i)

\* Once the query has let a submission through, all it saw stays a cooldown old.
CooldownElapsed ==
  \A r \in Submissions : submit[r] = "insert" =>
    \A s \in scores : s.id \in before[r] => clock >= s.created + ScoreCooldown

\* A submission of a banned player past the ban check was past it already.
BannedExempt ==
  \A r \in Submissions :
    submit[r] \in PastBanCheck /\ player[r] \in banned => r \in exempt

ScoresIInv ==
  /\ ScoresTypeOK
  /\ HasPlayer
  /\ RowsOfSubmissions
  /\ AnsweredStored
  /\ FakedAnswered
  /\ SeenStored
  /\ CooldownElapsed
  /\ BannedExempt
  /\ CooldownUnlessOverlapping

\* Empty tables satisfy the inductive invariant.
LEMMA ScoresInitIInv == ScoresInit => ScoresIInv
  BY DEF ScoresInit, ScoresIInv, ScoresTypeOK, HasPlayer, SubmitSteps, PastBanCheck,
     RowsOfSubmissions, AnsweredStored, FakedAnswered, SeenStored, CooldownElapsed,
     BannedExempt, CooldownUnlessOverlapping

\* So does every step of every submission, every ban and every tick.
LEMMA ScoresNextIInv == ScoresIInv /\ [ScoresNext]_scoreVars => ScoresIInv'
<1> SUFFICES ASSUME ScoresIInv, [ScoresNext]_scoreVars
             PROVE  ScoresIInv'
  OBVIOUS
<1>0. ScoresTypeOK' /\ HasPlayer'
  BY ScoresTypeStep DEF ScoresIInv
<1> USE ScoresAssumption DEF ScoresIInv, ScoresTypeOK, ScoreRow
\* A step that stores nothing, stops no clock and lets no submission past a check.
<1>1. ASSUME UNCHANGED <<scores, before, faked, player>>,
             clock' \in Nat, clock <= clock',
             banned' \subseteq banned, UNCHANGED exempt,
             \A k \in Submissions : submit'[k] # submit[k] =>
               /\ submit[k] \notin {"201", "503"}
               /\ submit'[k] \notin {"201", "insert"}
               /\ submit'[k] \in PastBanCheck =>
                    submit[k] \in PastBanCheck \/ player[k] \notin banned
      PROVE  ScoresIInv'
  <2>1. RowsOfSubmissions' /\ AnsweredStored' /\ FakedAnswered' /\ SeenStored'
    BY <1>1 DEF RowsOfSubmissions, AnsweredStored, FakedAnswered, SeenStored, Stored
  <2>2. CooldownElapsed'
    BY <1>1 DEF CooldownElapsed
  <2>3. BannedExempt'
    BY <1>1 DEF BannedExempt
  <2>4. CooldownUnlessOverlapping'
    BY <1>1 DEF CooldownUnlessOverlapping
  <2> QED
    BY <1>0, <2>1, <2>2, <2>3, <2>4
<1>2. CASE ScoresTick \/ UNCHANGED scoreVars
  BY <1>1, <1>2 DEF ScoresTick, scoreVars
<1>3. ASSUME NEW p \in Players, Unban(p) PROVE ScoresIInv'
  BY <1>1, <1>3 DEF Unban
<1>4. ASSUME NEW p \in Players, Ban(p) PROVE ScoresIInv'
  <2>1. BannedExempt'
    BY <1>4 DEF Ban, BannedExempt
  <2> QED
    BY <1>0, <1>4, <2>1 DEF Ban, RowsOfSubmissions, AnsweredStored, FakedAnswered, SeenStored,
       Stored, CooldownElapsed, CooldownUnlessOverlapping
<1>5. ASSUME NEW r \in Submissions,
             RefuseMethod(r) \/ \E status \in {"401", "503"} : RefuseSubmit(r, status)
      PROVE  ScoresIInv'
  BY <1>1, <1>5 DEF RefuseMethod, RefuseSubmit, SubmitGoes, PastBanCheck
<1>6. ASSUME NEW r \in Submissions, NEW p \in Players, AcceptSubmit(r, p)
      PROVE  ScoresIInv'
  <2>1. /\ UNCHANGED <<clock, banned, scores, before, faked, exempt>>
        /\ submit[r] = "idle" /\ submit'[r] = "ban"
        /\ \A k \in Submissions \ {r} : submit'[k] = submit[k] /\ player'[k] = player[k]
    BY <1>6 DEF AcceptSubmit, SubmitGoes
  <2>2. \A s \in scores : s.id # r
    BY <2>1 DEF RowsOfSubmissions
  <2> QED
    BY <1>0, <2>1, <2>2 DEF RowsOfSubmissions, AnsweredStored, FakedAnswered, SeenStored,
       Stored, CooldownElapsed, BannedExempt, PastBanCheck, CooldownUnlessOverlapping
<1>7. ASSUME NEW r \in Submissions, CheckBan(r) PROVE ScoresIInv'
  <2>1. CASE /\ \/ ~IsPlayerBanned(r) /\ SubmitGoes(r, "ban", "parse")
                \/ SubmitGoes(r, "ban", "503")
             /\ UNCHANGED faked
    BY <1>1, <1>7, <2>1 DEF CheckBan, SubmitGoes, PastBanCheck, IsPlayerBanned
  <2>2. CASE SubmitGoes(r, "ban", "201") /\ faked' = faked \cup {r}
    <3>1. /\ UNCHANGED <<clock, banned, scores, before, exempt, player>>
          /\ submit[r] = "ban" /\ submit'[r] = "201"
          /\ \A k \in Submissions \ {r} : submit'[k] = submit[k]
      BY <1>7, <2>2 DEF CheckBan, SubmitGoes
    <3>2. \A s \in scores : s.id # r
      BY <3>1 DEF RowsOfSubmissions
    <3> QED
      BY <1>0, <2>2, <3>1, <3>2 DEF RowsOfSubmissions, AnsweredStored, FakedAnswered,
         SeenStored, Stored, CooldownElapsed, BannedExempt, PastBanCheck,
         CooldownUnlessOverlapping
  <2> QED
    BY <1>7, <2>1, <2>2 DEF CheckBan
<1>8. ASSUME NEW r \in Submissions, ParseRequest(r) PROVE ScoresIInv'
  BY <1>1, <1>8 DEF ParseRequest, SubmitGoes, PastBanCheck
<1>9. ASSUME NEW r \in Submissions, CheckCooldown(r) PROVE ScoresIInv'
  <2>1. CASE /\ SubmitGoes(r, "cooldown", "429") \/ SubmitGoes(r, "cooldown", "503")
             /\ UNCHANGED before
    BY <1>1, <1>9, <2>1 DEF CheckCooldown, SubmitGoes, PastBanCheck
  <2>2. CASE /\ RecentScores(player[r]) = {}
             /\ SubmitGoes(r, "cooldown", "insert")
             /\ before' = [before EXCEPT ![r] = {s.id : s \in ScoresOf(player[r])}]
    <3>1. /\ UNCHANGED <<clock, banned, scores, faked, exempt, player>>
          /\ submit[r] = "cooldown" /\ submit'[r] = "insert"
          /\ \A k \in Submissions \ {r} : submit'[k] = submit[k] /\ before'[k] = before[k]
      BY <1>9, <2>2 DEF CheckCooldown, SubmitGoes
    <3>2. \A i \in before'[r] : \E s \in scores : s.id = i /\ s.player = player[r]
      BY <2>2 DEF ScoresOf
    <3>3. \A s \in scores : s.id \in before'[r] => clock >= s.created + ScoreCooldown
      BY <2>2, <3>2 DEF RecentScores, ScoresOf, RowsOfSubmissions
    <3>4. RowsOfSubmissions' /\ AnsweredStored' /\ FakedAnswered' /\ BannedExempt'
      BY <3>1 DEF RowsOfSubmissions, AnsweredStored, FakedAnswered, Stored, BannedExempt,
         PastBanCheck
    <3>5. SeenStored'
      BY <3>1, <3>2 DEF SeenStored, Stored
    <3>6. CooldownElapsed'
      BY <3>1, <3>3 DEF CooldownElapsed
    <3>7. CooldownUnlessOverlapping'
      BY <3>1 DEF CooldownUnlessOverlapping, RowsOfSubmissions
    <3> QED
      BY <1>0, <3>4, <3>5, <3>6, <3>7
  <2> QED
    BY <1>9, <2>1, <2>2 DEF CheckCooldown
<1>10. ASSUME NEW r \in Submissions, InsertScore(r) PROVE ScoresIInv'
  <2>1. CASE UNCHANGED scores /\ SubmitGoes(r, "insert", "503")
    BY <1>1, <1>10, <2>1 DEF InsertScore, SubmitGoes, PastBanCheck
  <2>2. CASE /\ scores' = scores \cup {NewScore(r)}
             /\ SubmitGoes(r, "insert", "201") \/ SubmitGoes(r, "insert", "503")
    <3>1. /\ UNCHANGED <<clock, banned, before, faked, exempt, player>>
          /\ submit[r] = "insert" /\ submit'[r] \in {"201", "503"}
          /\ \A k \in Submissions \ {r} : submit'[k] = submit[k]
      BY <1>10, <2>2 DEF InsertScore, SubmitGoes
    <3>2. /\ NewScore(r).id = r
          /\ NewScore(r).player = player[r]
          /\ NewScore(r).created = clock
      BY DEF NewScore
    <3>3. \A s \in scores : s.id # r
      BY <3>1 DEF RowsOfSubmissions
    <3>4. \A k \in Submissions : r \notin before[k]
      BY <3>3 DEF SeenStored, Stored
    <3>5. r \notin faked
      BY <3>1 DEF FakedAnswered
    <3>6. RowsOfSubmissions'
      BY <2>2, <3>1, <3>2, <3>3, <3>5 DEF RowsOfSubmissions
    <3>7. AnsweredStored' /\ FakedAnswered' /\ SeenStored' /\ BannedExempt'
      BY <2>2, <3>1, <3>2, <3>5 DEF AnsweredStored, FakedAnswered, SeenStored, Stored,
         BannedExempt, PastBanCheck
    <3>8. CooldownElapsed'
      BY <2>2, <3>1, <3>2, <3>4 DEF CooldownElapsed
    <3>9. CooldownUnlessOverlapping'
      <4> SUFFICES ASSUME NEW a \in scores', NEW b \in scores',
                          a.player = b.player, a.id \in before[b.id]
                   PROVE  b.created >= a.created + ScoreCooldown
        BY <3>1 DEF CooldownUnlessOverlapping
      <4>1. b.id \in Submissions
        BY <1>0
      <4>2. a \in scores
        BY <2>2, <3>2, <3>4, <4>1
      <4>3. CASE b \in scores
        BY <4>2, <4>3 DEF CooldownUnlessOverlapping
      <4>4. CASE b = NewScore(r)
        BY <3>1, <3>2, <4>2, <4>4 DEF CooldownElapsed
      <4> QED
        BY <2>2, <4>3, <4>4
    <3> QED
      BY <1>0, <3>6, <3>7, <3>8, <3>9
  <2> QED
    BY <1>10, <2>1, <2>2 DEF InsertScore, Outcomes, Errs, Applied
<1>11. ASSUME NEW r \in Submissions, CrashSubmit(r) PROVE ScoresIInv'
  BY <1>1, <1>11 DEF CrashSubmit, SubmitSteps, PastBanCheck
<1> QED
  BY <1>2, <1>3, <1>4, <1>5, <1>6, <1>7, <1>8, <1>9, <1>10, <1>11
     DEF ScoresNext, SubmitArrives, SubmitStep

\* The inductive invariant holds throughout.
LEMMA ScoresInvariant == ScoresSpec => []ScoresIInv
  BY ScoresInitIInv, ScoresNextIInv, PTL DEF ScoresSpec

-----------------------------------------------------------------------------
\* Two scores of one player are a cooldown apart unless their submissions
\* overlapped between the cooldown query and the INSERT.
THEOREM Cooldown == ScoresSpec => []CooldownUnlessOverlapping
  BY ScoresInvariant, PTL DEF ScoresIInv

\* The status a submission is answered tells whether its score is stored,
\* save 503 and the fake 201 of a banned player.
THEOREM Truthful == ScoresSpec => []AnswersTruthful
<1>1. ScoresIInv => AnswersTruthful
  BY DEF ScoresIInv, RowsOfSubmissions, AnsweredStored, AnswersTruthful, Stored
<1> QED
  BY <1>1, ScoresInvariant, PTL

\* After a ban only the submissions that had passed the ban check store scores.
THEOREM BanStops == ScoresSpec => BanStopsNewScores
<1> DEFINE BanHolds == \A s \in scores' \ scores : s.player \in banned' => s.id \in exempt
<1>1. ScoresIInv /\ [ScoresNext]_scoreVars => [BanHolds]_scoreVars
  <2> SUFFICES ASSUME ScoresIInv, ScoresNext, NEW s \in scores' \ scores, s.player \in banned'
               PROVE  s.id \in exempt
    BY DEF scoreVars
  <2>1. PICK r \in Submissions : InsertScore(r)
    BY DEF ScoresNext, ScoresTick, Ban, Unban, SubmitArrives, RefuseMethod, RefuseSubmit, AcceptSubmit,
       SubmitStep, CheckBan, ParseRequest, CheckCooldown, CrashSubmit
  <2>2. s = NewScore(r) /\ submit[r] = "insert" /\ banned' = banned
    BY <2>1 DEF InsertScore, SubmitGoes
  <2> QED
    BY <2>2 DEF NewScore, ScoresIInv, BannedExempt, PastBanCheck
<1> QED
  BY <1>1, ScoresInvariant, PTL DEF ScoresSpec, BanStopsNewScores
=============================================================================

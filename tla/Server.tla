------------------------------- MODULE Server -------------------------------
(***************************************************************************)
(* The two writing endpoints over one database: POST /api/auth (Auth) and  *)
(* POST /api/scores (Scores), joined by the session token.  What RequireAuth *)
(* reads in `sessions` decides which player a submission acts for, and from *)
(* then on the submission never looks at its session again.                *)
(***************************************************************************)
EXTENDS Naturals, Postgres

CONSTANTS
  Logins, Submissions, Players,   \* as in Auth and Scores
  NilPlayer,
  SessionTokenExpiry,
  ScoreCooldown,
  MaxClock,
  NoToken                         \* a submission without a bearer token

VARIABLES
  clock,
  account, players, sessions, expires, login, issued, swept,   \* Auth
  banned, scores, submit, player, before, faked, exempt,       \* Scores
  bearer,     \* bearer[r]: the token in the Authorization header of r
  arrived,    \* history: arrived[r]: the clock when r's token was looked up
  answered    \* history: answered[r]: the logins answered 200 by then

A == INSTANCE Auth
S == INSTANCE Scores

ASSUME ServerAssumption ==
  /\ NoToken \notin Logins
  /\ A!AuthAssumption
  /\ S!ScoresAssumption

loginVars == <<account, players, sessions, expires, login, issued, swept>>
submitVars == <<banned, scores, submit, player, before, faked, exempt>>
tokenVars == <<bearer, arrived, answered>>
serverVars == <<clock, loginVars, submitVars, tokenVars>>

ServerTypeOK ==
  /\ A!AuthTypeOK
  /\ S!ScoresTypeOK
  /\ bearer \in [Submissions -> Logins \cup {NoToken}]
  /\ arrived \in [Submissions -> Nat]
  /\ answered \in [Submissions -> SUBSET Logins]

ServerInit ==
  /\ A!AuthInit
  /\ S!ScoresInit
  /\ bearer = [r \in Submissions |-> NoToken]
  /\ arrived = [r \in Submissions |-> 0]
  /\ answered = [r \in Submissions |-> {}]

-----------------------------------------------------------------------------
\* The tokens clients hold: those a login was answered with.
Delivered == {t \in Logins : login[t] = "200"}

\* No request without a token of ours gets past RequireAuth.
SubmitWithoutToken(r) ==
  /\ \/ S!RefuseMethod(r)
     \/ \E status \in {"401", "503"} : S!RefuseSubmit(r, status)
  /\ UNCHANGED <<clock, loginVars, tokenVars>>

\* A lookup that deletes the row it finds expired.
SubmitPruning(r, t) ==
  /\ \/ \E p \in Players :
          A!Authenticates(t, p) /\ S!AcceptSubmit(r, p) /\ UNCHANGED loginVars
     \/ /\ ~ \E p \in Players : A!Authenticates(t, p)
        /\ S!RefuseSubmit(r, "401")
        /\ sessions' = {s \in sessions : s.token # t}
        /\ UNCHANGED <<account, players, expires, login, issued, swept>>
  /\ bearer' = [bearer EXCEPT ![r] = t]
  /\ arrived' = [arrived EXCEPT ![r] = clock]
  /\ answered' = [answered EXCEPT ![r] = Delivered]
  /\ UNCHANGED clock

\* A wrapper that calls the handler with uuid.Nil when the lookup fails.
SubmitAsNobody(r, t) ==
  /\ \/ \E p \in Players : A!Authenticates(t, p) /\ S!AcceptSubmit(r, p)
     \/ ~ (\E p \in Players : A!Authenticates(t, p)) /\ S!AcceptSubmit(r, NilPlayer)
  /\ bearer' = [bearer EXCEPT ![r] = t]
  /\ arrived' = [arrived EXCEPT ![r] = clock]
  /\ answered' = [answered EXCEPT ![r] = Delivered]
  /\ UNCHANGED <<clock, loginVars>>

\* RequireAuth: look the bearer token up, refuse or hand over to the handler.
SubmitWithToken(r, t) ==
  /\ \/ \E p \in Players : A!Authenticates(t, p) /\ S!AcceptSubmit(r, p)
     \/ ~ (\E p \in Players : A!Authenticates(t, p)) /\ S!RefuseSubmit(r, "401")
     \/ S!RefuseSubmit(r, "503")
  /\ bearer' = [bearer EXCEPT ![r] = t]
  /\ arrived' = [arrived EXCEPT ![r] = clock]
  /\ answered' = [answered EXCEPT ![r] = Delivered]
  /\ UNCHANGED <<clock, loginVars>>

\* The next step of a login, and of a submission past RequireAuth.
LoginProceeds(l) ==
  /\ A!LoginStep(l)
  /\ UNCHANGED <<submitVars, tokenVars>>

SubmissionProceeds(r) ==
  /\ S!SubmitStep(r)
  /\ UNCHANGED <<loginVars, tokenVars>>

\* A login arrives, or the process of a login or a submission dies.
LoginArrives(l) ==
  /\ A!RefuseLogin(l) \/ A!AcceptLogin(l)
  /\ UNCHANGED <<submitVars, tokenVars>>

LoginDies(l) ==
  /\ A!CrashLogin(l)
  /\ UNCHANGED <<submitVars, tokenVars>>

SubmissionDies(r) ==
  /\ S!CrashSubmit(r)
  /\ UNCHANGED <<loginVars, tokenVars>>

BanMoves(p) ==
  /\ S!Ban(p) \/ S!Unban(p)
  /\ UNCHANGED <<loginVars, tokenVars>>

ServerTick ==
  /\ A!AuthTick
  /\ UNCHANGED <<submitVars, tokenVars>>

ServerNext ==
  \/ ServerTick
  \/ \E l \in Logins : LoginArrives(l) \/ LoginProceeds(l) \/ LoginDies(l)
  \/ \E p \in Players : BanMoves(p)
  \/ \E r \in Submissions :
       \/ SubmitWithoutToken(r)
       \/ \E t \in Delivered : SubmitWithToken(r, t)
       \/ SubmissionProceeds(r)
       \/ SubmissionDies(r)

ServerSpec == ServerInit /\ [][ServerNext]_serverVars

\* Openplanet calls end within the client's 10 s timeout and every statement
\* returns: a goroutine that is not killed keeps running.
ServerFairness ==
  /\ \A l \in Logins : WF_serverVars(LoginProceeds(l))
  /\ \A r \in Submissions : WF_serverVars(SubmissionProceeds(r))

ServerFairSpec == ServerSpec /\ ServerFairness

-----------------------------------------------------------------------------
\* A stored score belongs to the account that logged in for the token the
\* submission carried, however many logins, revocations and ticks lie between
\* the login, the lookup and the INSERT.
ScoresOfTokenOwner ==
  \A s \in scores :
    bearer[s.id] \in issued /\ s.player = account[bearer[s.id]]

\* A submission that arrives when a later login of its player has been
\* answered, or after its token expired, never stores a score; only one that
\* was already past RequireAuth by then still may.
LateSubmissionsStoreNothing ==
  \A s \in scores :
    LET t == bearer[s.id] IN
      /\ \A m \in answered[s.id] : t \notin swept[m]
      /\ arrived[s.id] <= expires[t]

\* Every login and every submission that is accepted is answered, whatever the
\* others do to the rows it works on, unless its process dies.
AcceptedIsAnswered ==
  /\ \A l \in Logins :
       login[l] = "validate" ~> login[l] \in A!LoginAnswers \cup {"crashed"}
  /\ \A r \in Submissions :
       submit[r] = "ban" ~> submit[r] \in S!SubmitAnswers \cup {"crashed"}

\* Together the endpoints behave as Auth and as Scores do alone, so what holds
\* of each of those holds here.
ServerIsAuth == A!AuthSpec
ServerIsScores == S!ScoresSpec
=============================================================================

-------------------------------- MODULE Auth --------------------------------
(***************************************************************************)
(* POST /api/auth (api/auth.go) and the rows it writes to `players` and    *)
(* `sessions` (api/_pkg/db).  Every login request runs in a goroutine of   *)
(* its own, possibly in a process of its own, and shares nothing with the  *)
(* others but the database, so each statement is one atomic step and the   *)
(* steps of different logins interleave freely.                            *)
(*                                                                         *)
(* A session token is 32 random bytes: it is modelled by the login that    *)
(* mints it, which makes tokens distinct, and so are their hashes.         *)
(***************************************************************************)
EXTENDS Naturals, Postgres

CONSTANTS
  Logins,              \* the login requests that may arrive
  Players,             \* Openplanet accounts
  SessionTokenExpiry,  \* config.Env.SessionTokenExpiry, in clock ticks
  MaxClock             \* bound: where the model's clock stops

ASSUME AuthAssumption == SessionTokenExpiry \in Nat \ {0} /\ MaxClock \in Nat

VARIABLES
  clock,      \* time.Now(), one clock for all processes and the database
  account,    \* account[l]: the account the Openplanet token of l belongs to
  players,    \* accounts that have a row in `players`
  sessions,   \* rows of `sessions`
  expires,    \* expires[l]: the handler's local expiresAt
  login,      \* login[l]: the step l is at, or the status it was answered
  issued,     \* history: tokens whose row was ever inserted
  swept       \* history: swept[l]: tokens issued when l ran its DELETE

authVars == <<clock, account, players, sessions, expires, login, issued, swept>>

LoginSteps == {"idle", "validate", "upsert", "mint", "delete", "insert", "crashed"}
LoginAnswers == {"200", "400", "401", "405", "429", "500", "503"}

SessionRow == [token : Logins, player : Players, expires : Nat]

AuthTypeOK ==
  /\ clock \in Nat
  /\ account \in [Logins -> Players]
  /\ players \subseteq Players
  /\ sessions \subseteq SessionRow
  /\ expires \in [Logins -> Nat]
  /\ login \in [Logins -> LoginSteps \cup LoginAnswers]
  /\ issued \subseteq Logins
  /\ swept \in [Logins -> SUBSET Logins]

AuthInit ==
  /\ clock = 0
  /\ account \in [Logins -> Players]
  /\ players = {}
  /\ sessions = {}
  /\ expires = [l \in Logins |-> 0]
  /\ login = [l \in Logins |-> "idle"]
  /\ issued = {}
  /\ swept = [l \in Logins |-> {}]

-----------------------------------------------------------------------------
\* Login l leaves step `from` for step (or answer) `to`.
LoginGoes(l, from, to) ==
  /\ login[l] = from
  /\ login' = [login EXCEPT ![l] = to]

\* Answered before anything is read or written: not a POST, over the rate
\* limit, or a body that does not decode and validate.
RefuseLogin(l) ==
  /\ \E status \in {"405", "429", "400"} : LoginGoes(l, "idle", status)
  /\ UNCHANGED <<clock, account, players, sessions, expires, issued, swept>>

AcceptLogin(l) ==
  /\ LoginGoes(l, "idle", "validate")
  /\ UNCHANGED <<clock, account, players, sessions, expires, issued, swept>>

\* Openplanet answers, or the client's timeout or any other error ends the call.
ValidateToken(l) ==
  /\ \E next \in {"upsert", "401"} : LoginGoes(l, "validate", next)
  /\ UNCHANGED <<clock, account, players, sessions, expires, issued, swept>>

\* An upsert whose error is ignored.
UpsertPlayerUnchecked(l) ==
  /\ LoginGoes(l, "upsert", "mint")
  /\ \E o \in Outcomes :
       players' = IF Applied(o) THEN players \cup {account[l]} ELSE players
  /\ UNCHANGED <<clock, account, sessions, expires, issued, swept>>

\* INSERT INTO players ... ON CONFLICT (openplanet_id) DO UPDATE.
UpsertPlayer(l) ==
  /\ \E o \in Outcomes :
       /\ LoginGoes(l, "upsert", IF Errs(o) THEN "503" ELSE "mint")
       /\ players' = IF Applied(o) THEN players \cup {account[l]} ELSE players
  /\ UNCHANGED <<clock, account, sessions, expires, issued, swept>>

ExpiresInThePast(l) == clock - SessionTokenExpiry - 1

ExpiresAt(l) == clock + SessionTokenExpiry

\* GenerateSessionToken and the expiry, fixed before the row is stored.
MintToken(l) ==
  /\ \/ /\ LoginGoes(l, "mint", "delete")
        /\ expires' = [expires EXCEPT ![l] = ExpiresAt(l)]
     \/ /\ LoginGoes(l, "mint", "500")
        /\ UNCHANGED expires
  /\ UNCHANGED <<clock, account, players, sessions, issued, swept>>

\* A DELETE that matches no row.
SweepNothing(l) == sessions

\* What DELETE FROM sessions WHERE player_id = ... leaves.
SessionsOfOthers(l) == {s \in sessions : s.player # account[l]}

\* A DELETE whose failure starts CreateSession again, with a new token.
DeleteSessionsRestarting(l) ==
  /\ \E o \in Outcomes :
       /\ LoginGoes(l, "delete", IF Errs(o) THEN "mint" ELSE "insert")
       /\ sessions' = IF Applied(o) THEN SessionsOfOthers(l) ELSE sessions
       /\ swept' = IF Applied(o)
                     THEN [swept EXCEPT ![l] = {t \in issued : account[t] = account[l]}]
                     ELSE swept
  /\ UNCHANGED <<clock, account, players, expires, issued>>

\* CreateSession, first statement.
DeleteSessions(l) ==
  /\ \E o \in Outcomes :
       /\ LoginGoes(l, "delete", IF Errs(o) THEN "503" ELSE "insert")
       /\ sessions' = IF Applied(o) THEN SessionsOfOthers(l) ELSE sessions
       /\ swept' = IF Applied(o)
                     THEN [swept EXCEPT ![l] = {t \in issued : account[t] = account[l]}]
                     ELSE swept
  /\ UNCHANGED <<clock, account, players, expires, issued>>

NewSession(l) == [token |-> l, player |-> account[l], expires |-> expires[l]]

\* CreateSession with its statements swapped: the DELETE takes the new row too.
InsertThenDelete(l) ==
  /\ \E o \in Outcomes :
       /\ LoginGoes(l, "insert", IF Errs(o) THEN "503" ELSE "200")
       /\ sessions' = IF Applied(o) THEN SessionsOfOthers(l) ELSE sessions
       /\ issued' = IF Applied(o) THEN issued \cup {l} ELSE issued
  /\ UNCHANGED <<clock, account, players, expires, swept>>

\* An INSERT that is repeated when its reply is lost.
InsertSessionRetrying(l) ==
  /\ \E o \in Outcomes :
       /\ LoginGoes(l, "insert", IF Errs(o) THEN "insert" ELSE "200")
       /\ sessions' = IF Applied(o) THEN sessions \cup {NewSession(l)} ELSE sessions
       /\ issued' = IF Applied(o) THEN issued \cup {l} ELSE issued
  /\ UNCHANGED <<clock, account, players, expires, swept>>

\* CreateSession, second statement, and the answer.
InsertSession(l) ==
  /\ \E o \in Outcomes :
       /\ LoginGoes(l, "insert", IF Errs(o) THEN "503" ELSE "200")
       /\ sessions' = IF Applied(o) THEN sessions \cup {NewSession(l)} ELSE sessions
       /\ issued' = IF Applied(o) THEN issued \cup {l} ELSE issued
  /\ UNCHANGED <<clock, account, players, expires, swept>>

\* The process serving l dies, or the function is cut off, between two steps.
CrashLogin(l) ==
  /\ login[l] \in LoginSteps \ {"idle", "crashed"}
  /\ login' = [login EXCEPT ![l] = "crashed"]
  /\ UNCHANGED <<clock, account, players, sessions, expires, issued, swept>>

AuthTick ==
  /\ clock < MaxClock
  /\ clock' = clock + 1
  /\ UNCHANGED <<account, players, sessions, expires, login, issued, swept>>

\* A step the code of l takes once l has been accepted.
LoginStep(l) ==
  \/ ValidateToken(l)
  \/ UpsertPlayer(l)
  \/ MintToken(l)
  \/ DeleteSessions(l)
  \/ InsertSession(l)

AuthNext ==
  \/ AuthTick
  \/ \E l \in Logins : \/ RefuseLogin(l)
                       \/ AcceptLogin(l)
                       \/ LoginStep(l)
                       \/ CrashLogin(l)

AuthSpec == AuthInit /\ [][AuthNext]_authVars

-----------------------------------------------------------------------------
\* A lookup that finds a session whatever its token.
AuthenticatesAnyToken(t, p) ==
  \E s \in sessions : s.player = p /\ ~(clock > s.expires)

\* session.go AuthenticateRequest: the token is accepted, for player p.
Authenticates(t, p) ==
  \E s \in sessions : s.token = t /\ s.player = p /\ ~(clock > s.expires)

Live(t) == \E s \in sessions : s.token = t

\* The sessions of one player are those of logins that overlapped: a login
\* that had stored its session when another login of the same player ran its
\* DELETE has lost it.  With logins one after the other that leaves one.
OneSessionUnlessOverlapping ==
  \A a, b \in sessions : a.player = b.player => a.token \notin swept[b.token]

\* A token that was handed out (status 200) is in the table until a later
\* DELETE of the same player takes it; nothing else, and no login of another
\* player, can log a player out.
IssuedTokenLives ==
  \A l \in Logins : login[l] = "200" =>
    \/ Live(l)
    \/ \E m \in Logins \ {l} : account[m] = account[l] /\ l \in swept[m]

\* A session row always refers to a stored player, so the REFERENCES clause
\* of sessions.player_id never makes the INSERT fail.
SessionsReferToPlayers == \A s \in sessions : s.player \in players

\* What the comment in CreateSession says: one session per player.
OneSessionPerPlayer ==
  \A a, b \in sessions : a.player = b.player => a = b

\* Seen through its table, the handler is a ledger of tokens: each is put in
\* force at most once, and only the player's own logins take it out of force.
liveTokens == [p \in Players |-> {s.token : s \in {r \in sessions : r.player = p}}]

Ledger == INSTANCE SessionLedger
  WITH Tokens <- Logins, Accounts <- Players, live <- liveTokens, used <- issued

ImplementsLedger == Ledger!LedgerSpec
=============================================================================

----------------------------- MODULE AuthProofs -----------------------------
(***************************************************************************)
(* Auth, for every set of logins and accounts and however they interleave: *)
(* its types, its invariants, and that it implements SessionLedger.        *)
(***************************************************************************)
EXTENDS Auth, TLAPS

\* Every statement and every failure of a login keeps the types.
LEMMA AuthTypeStep == AuthTypeOK /\ [AuthNext]_authVars => AuthTypeOK'
<1> SUFFICES ASSUME AuthTypeOK, [AuthNext]_authVars
             PROVE  AuthTypeOK'
  OBVIOUS
<1> USE DEF AuthTypeOK, LoginSteps, LoginAnswers, LoginGoes
<1>1. CASE AuthTick
  BY <1>1 DEF AuthTick
<1>2. ASSUME NEW l \in Logins, RefuseLogin(l) PROVE AuthTypeOK'
  BY <1>2 DEF RefuseLogin
<1>3. ASSUME NEW l \in Logins, AcceptLogin(l) PROVE AuthTypeOK'
  BY <1>3 DEF AcceptLogin
<1>4. ASSUME NEW l \in Logins, ValidateToken(l) PROVE AuthTypeOK'
  BY <1>4 DEF ValidateToken
<1>5. ASSUME NEW l \in Logins, UpsertPlayer(l) PROVE AuthTypeOK'
  BY <1>5 DEF UpsertPlayer
<1>6. ASSUME NEW l \in Logins, MintToken(l) PROVE AuthTypeOK'
  BY <1>6, AuthAssumption DEF MintToken, ExpiresAt
<1>7. ASSUME NEW l \in Logins, DeleteSessions(l) PROVE AuthTypeOK'
  BY <1>7 DEF DeleteSessions, SessionsOfOthers
<1>8. ASSUME NEW l \in Logins, InsertSession(l) PROVE AuthTypeOK'
  BY <1>8 DEF InsertSession, NewSession, SessionRow
<1>9. ASSUME NEW l \in Logins, CrashLogin(l) PROVE AuthTypeOK'
  BY <1>9 DEF CrashLogin
<1>10. CASE UNCHANGED authVars
  BY <1>10 DEF authVars
<1> QED
  BY <1>1, <1>2, <1>3, <1>4, <1>5, <1>6, <1>7, <1>8, <1>9, <1>10 DEF AuthNext, LoginStep

\* Every variable stays in its type; the invariant is inductive by itself.
THEOREM AuthTypeCorrect == AuthSpec => []AuthTypeOK
<1>1. AuthInit => AuthTypeOK
  BY AuthAssumption DEF AuthInit, AuthTypeOK, LoginSteps
<1> QED
  BY <1>1, AuthTypeStep, PTL DEF AuthSpec

-----------------------------------------------------------------------------
(* The inductive invariant behind the rest.                                 *)

\* Every row was inserted, for the account that logged in.
RowsIssued == \A s \in sessions : s.token \in issued /\ s.player = account[s.token]

\* A login that has not come past its INSERT has no row yet.
IssuedOnce ==
  \A l \in issued : login[l] \in {"200", "503"}

\* A login that was answered 200 came past its INSERT.
AnsweredIssued == \A l \in Logins : login[l] = "200" => l \in issued

\* What a DELETE swept were tokens of its own account, and they are gone.
SweptStaysDead ==
  \A m \in Logins : \A t \in swept[m] :
    t \in issued /\ account[t] = account[m] /\ ~Live(t)

\* A token leaves the table only by the DELETE of another login of its account.
IssuedLiveOrSwept ==
  \A t \in issued :
    Live(t) \/ \E m \in Logins \ {t} : account[m] = account[t] /\ t \in swept[m]

\* A login past the upsert has its player stored, and so has a session.
PlayersStored ==
  /\ \A l \in Logins : login[l] \in {"mint", "delete", "insert"} => account[l] \in players
  /\ SessionsReferToPlayers

AuthIInv ==
  /\ AuthTypeOK
  /\ RowsIssued
  /\ IssuedOnce
  /\ AnsweredIssued
  /\ SweptStaysDead
  /\ IssuedLiveOrSwept
  /\ PlayersStored

\* Empty tables satisfy the inductive invariant.
LEMMA AuthInitIInv == AuthInit => AuthIInv
  BY AuthAssumption DEF AuthInit, AuthIInv, AuthTypeOK, LoginSteps, RowsIssued, IssuedOnce,
     AnsweredIssued, SweptStaysDead, IssuedLiveOrSwept, PlayersStored, SessionsReferToPlayers

\* So does every step of every login; only the three SQL statements of the
\* handler change what it speaks of.
LEMMA AuthNextIInv == AuthIInv /\ [AuthNext]_authVars => AuthIInv'
<1> SUFFICES ASSUME AuthIInv, [AuthNext]_authVars
             PROVE  AuthIInv'
  OBVIOUS
<1>0. AuthTypeOK'
  BY AuthTypeStep DEF AuthIInv
<1> USE DEF AuthIInv, AuthTypeOK
\* The tables are only written by the three statements.
<1>1. ASSUME UNCHANGED <<account, players, sessions, issued, swept>>,
             \A k \in Logins : login'[k] # login[k] =>
               /\ login[k] \notin {"200", "503"}
               /\ login'[k] # "200"
               /\ login'[k] \in {"mint", "delete", "insert"}
                    => login[k] \in {"mint", "delete", "insert"}
      PROVE  AuthIInv'
  BY <1>0, <1>1 DEF RowsIssued, IssuedOnce, AnsweredIssued, SweptStaysDead,
     IssuedLiveOrSwept, PlayersStored, SessionsReferToPlayers, Live
<1>2. CASE AuthTick \/ UNCHANGED authVars
  BY <1>1, <1>2 DEF AuthTick, authVars
<1>3. ASSUME NEW l \in Logins, RefuseLogin(l) \/ AcceptLogin(l) \/ ValidateToken(l)
                                  \/ MintToken(l) \/ CrashLogin(l)
      PROVE  AuthIInv'
  BY <1>1, <1>3 DEF RefuseLogin, AcceptLogin, ValidateToken, MintToken, CrashLogin,
     LoginGoes, LoginSteps
<1>4. ASSUME NEW l \in Logins, UpsertPlayer(l)
      PROVE  AuthIInv'
  <2>1. /\ UNCHANGED <<account, sessions, issued, swept>>
        /\ players \subseteq players'
        /\ login[l] = "upsert"
        /\ (login'[l] = "mint" /\ account[l] \in players') \/ login'[l] = "503"
        /\ \A k \in Logins \ {l} : login'[k] = login[k]
    BY <1>4 DEF UpsertPlayer, LoginGoes, Outcomes, Errs, Applied
  <2> QED
    BY <1>0, <2>1 DEF RowsIssued, IssuedOnce, AnsweredIssued, SweptStaysDead,
       IssuedLiveOrSwept, PlayersStored, SessionsReferToPlayers, Live
<1>5. ASSUME NEW l \in Logins, DeleteSessions(l)
      PROVE  AuthIInv'
  <2>1. /\ UNCHANGED <<account, players, issued>>
        /\ login[l] = "delete"
        /\ login'[l] \in {"insert", "503"}
        /\ \A k \in Logins \ {l} : login'[k] = login[k]
    BY <1>5 DEF DeleteSessions, LoginGoes, Errs
  <2>2. l \notin issued
    BY <2>1 DEF IssuedOnce
  <2>3. CASE UNCHANGED <<sessions, swept>>
    BY <1>0, <2>1, <2>2, <2>3 DEF RowsIssued, IssuedOnce, AnsweredIssued, SweptStaysDead,
       IssuedLiveOrSwept, PlayersStored, SessionsReferToPlayers, Live
  <2>4. CASE /\ sessions' = SessionsOfOthers(l)
             /\ swept' = [swept EXCEPT ![l] = {t \in issued : account[t] = account[l]}]
    <3>1. /\ sessions' \subseteq sessions
          /\ \A s \in sessions' : s.player # account[l]
          /\ \A s \in sessions \ sessions' : s.player = account[l]
          /\ swept'[l] = {t \in issued : account[t] = account[l]}
          /\ \A m \in Logins \ {l} : swept'[m] = swept[m]
      BY <2>4 DEF SessionsOfOthers
    <3>2. RowsIssued' /\ IssuedOnce' /\ AnsweredIssued' /\ PlayersStored'
      BY <2>1, <2>2, <3>1 DEF RowsIssued, IssuedOnce, AnsweredIssued, PlayersStored,
         SessionsReferToPlayers
    <3>3. SweptStaysDead'
      BY <2>1, <3>1 DEF SweptStaysDead, RowsIssued, Live
    <3>4. IssuedLiveOrSwept'
      BY <2>1, <2>2, <3>1 DEF IssuedLiveOrSwept, RowsIssued, Live
    <3> QED
      BY <1>0, <3>2, <3>3, <3>4
  <2> QED
    BY <1>5, <2>3, <2>4 DEF DeleteSessions, Applied
<1>6. ASSUME NEW l \in Logins, InsertSession(l)
      PROVE  AuthIInv'
  <2>1. /\ UNCHANGED <<account, players, swept>>
        /\ login[l] = "insert"
        /\ \A k \in Logins \ {l} : login'[k] = login[k]
    BY <1>6 DEF InsertSession, LoginGoes
  <2>2. l \notin issued
    BY <2>1 DEF IssuedOnce
  <2>3. CASE UNCHANGED <<sessions, issued>> /\ login'[l] = "503"
    BY <1>0, <2>1, <2>2, <2>3 DEF RowsIssued, IssuedOnce, AnsweredIssued, SweptStaysDead,
       IssuedLiveOrSwept, PlayersStored, SessionsReferToPlayers, Live
  <2>4. CASE /\ sessions' = sessions \cup {NewSession(l)}
             /\ issued' = issued \cup {l}
             /\ login'[l] \in {"200", "503"}
    <3>1. NewSession(l).token = l /\ NewSession(l).player = account[l]
      BY DEF NewSession
    <3>2. RowsIssued' /\ IssuedOnce' /\ AnsweredIssued'
      BY <2>1, <2>2, <2>4, <3>1 DEF RowsIssued, IssuedOnce, AnsweredIssued
    <3>3. PlayersStored'
      BY <2>1, <2>4, <3>1 DEF PlayersStored, SessionsReferToPlayers
    <3>4. SweptStaysDead'
      BY <2>1, <2>2, <2>4, <3>1 DEF SweptStaysDead, Live
    <3>5. IssuedLiveOrSwept'
      BY <2>1, <2>4, <3>1 DEF IssuedLiveOrSwept, Live
    <3> QED
      BY <1>0, <3>2, <3>3, <3>4, <3>5
  <2> QED
    BY <1>6, <2>3, <2>4 DEF InsertSession, LoginGoes, Applied, Errs, Outcomes
<1> QED
  BY <1>2, <1>3, <1>4, <1>5, <1>6 DEF AuthNext, LoginStep

\* The inductive invariant holds throughout.
LEMMA AuthInvariant == AuthSpec => []AuthIInv
  BY AuthInitIInv, AuthNextIInv, PTL DEF AuthSpec

-----------------------------------------------------------------------------
\* Two sessions of one player belong to logins that overlapped (CreateSession
\* is not a transaction): neither's token had been stored when the other ran
\* its DELETE.
THEOREM OneSession == AuthSpec => []OneSessionUnlessOverlapping
<1>1. AuthIInv => OneSessionUnlessOverlapping
  BY DEF AuthIInv, AuthTypeOK, SessionRow, SweptStaysDead, OneSessionUnlessOverlapping, Live
<1> QED
  BY <1>1, AuthInvariant, PTL

\* A token that was handed out stays in force until a later login of the same
\* player deletes it.
THEOREM TokensLive == AuthSpec => []IssuedTokenLives
<1>1. AuthIInv => IssuedTokenLives
  BY DEF AuthIInv, AnsweredIssued, IssuedLiveOrSwept, IssuedTokenLives
<1> QED
  BY <1>1, AuthInvariant, PTL

\* No session row ever refers to a player that is not stored.
THEOREM SessionsReferential == AuthSpec => []SessionsReferToPlayers
<1>1. AuthIInv => SessionsReferToPlayers
  BY DEF AuthIInv, PlayersStored
<1> QED
  BY <1>1, AuthInvariant, PTL

-----------------------------------------------------------------------------
\* The login handler, statement by statement and with every failure, is a
\* ledger of tokens: a DELETE revokes the tokens of one player, an INSERT
\* issues a token never issued before, and every other step changes nothing.
THEOREM AuthImplementsLedger == AuthSpec => ImplementsLedger
<1> USE DEF liveTokens
<1>1. AuthInit => Ledger!LedgerInit
  BY DEF AuthInit, Ledger!LedgerInit
<1>2. AuthIInv /\ [AuthNext]_authVars => [Ledger!LedgerNext]_<<liveTokens, issued>>
  <2> SUFFICES ASSUME AuthIInv, [AuthNext]_authVars
               PROVE  Ledger!LedgerNext \/ UNCHANGED <<liveTokens, issued>>
    OBVIOUS
  <2> USE DEF AuthIInv, AuthTypeOK
  <2>1. ASSUME UNCHANGED <<sessions, issued>>
        PROVE  UNCHANGED <<liveTokens, issued>>
    BY <2>1
  <2>2. CASE AuthTick \/ UNCHANGED authVars
    BY <2>1, <2>2 DEF AuthTick, authVars
  <2>3. ASSUME NEW l \in Logins,
               RefuseLogin(l) \/ AcceptLogin(l) \/ ValidateToken(l) \/ UpsertPlayer(l)
                 \/ MintToken(l) \/ CrashLogin(l)
        PROVE  UNCHANGED <<liveTokens, issued>>
    BY <2>1, <2>3 DEF RefuseLogin, AcceptLogin, ValidateToken, UpsertPlayer, MintToken, CrashLogin
  <2>4. ASSUME NEW l \in Logins, DeleteSessions(l)
        PROVE  Ledger!LedgerNext \/ UNCHANGED <<liveTokens, issued>>
    <3>1. CASE sessions' = SessionsOfOthers(l) /\ UNCHANGED issued
      <4>1. \A s \in SessionsOfOthers(l) : s \in sessions /\ s.player # account[l]
        BY DEF SessionsOfOthers
      <4>2. \A s \in sessions : s.player # account[l] => s \in SessionsOfOthers(l)
        BY DEF SessionsOfOthers
      <4>3. liveTokens' = [liveTokens EXCEPT ![account[l]] = {}]
        BY <3>1, <4>1, <4>2
      <4> QED
        BY <3>1, <4>3 DEF Ledger!LedgerNext, Ledger!Revoke
    <3> QED
      BY <2>1, <2>4, <3>1 DEF DeleteSessions
  <2>5. ASSUME NEW l \in Logins, InsertSession(l)
        PROVE  Ledger!LedgerNext \/ UNCHANGED <<liveTokens, issued>>
    <3>1. CASE sessions' = sessions \cup {NewSession(l)} /\ issued' = issued \cup {l}
      <4>1. l \notin issued
        BY <2>5 DEF InsertSession, LoginGoes, IssuedOnce
      <4>2. NewSession(l).token = l /\ NewSession(l).player = account[l]
        BY DEF NewSession
      <4>3. liveTokens' = [liveTokens EXCEPT ![account[l]] = @ \cup {l}]
        BY <3>1, <4>2
      <4> QED
        BY <3>1, <4>1, <4>3 DEF Ledger!LedgerNext, Ledger!Issue
    <3> QED
      BY <2>1, <2>5, <3>1 DEF InsertSession
  <2> QED
    BY <2>2, <2>3, <2>4, <2>5 DEF AuthNext, LoginStep
<1> QED
  BY <1>1, <1>2, AuthInvariant, PTL DEF AuthSpec, ImplementsLedger, Ledger!LedgerSpec
=============================================================================

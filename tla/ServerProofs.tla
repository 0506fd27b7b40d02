---------------------------- MODULE ServerProofs ----------------------------
(***************************************************************************)
(* The endpoints together.  Seen from either of them, they are what that   *)
(* endpoint does alone: the theorems of AuthProofs and ScoresProofs speak  *)
(* of the composed server too.  And what a token lets in, for every set of *)
(* logins, submissions and accounts: a score is its token owner's, and a   *)
(* token that was revoked or had expired before the submission arrived     *)
(* stores nothing.                                                         *)
(***************************************************************************)
EXTENDS Server, TLAPS

\* Nothing that happens to a submission, a ban or a score writes to `sessions`
\* or `players`, or moves a login.
LEMMA ServerStepsAuth == [ServerNext]_serverVars => [A!AuthNext]_(A!authVars)
<1> SUFFICES ASSUME [ServerNext]_serverVars
             PROVE  A!AuthNext \/ UNCHANGED A!authVars
  OBVIOUS
<1>1. CASE UNCHANGED serverVars
  BY <1>1 DEF serverVars, loginVars, A!authVars
<1>2. CASE ServerTick
  BY <1>2 DEF ServerTick, A!AuthNext
<1>3. ASSUME NEW l \in Logins, LoginArrives(l) \/ LoginProceeds(l) \/ LoginDies(l)
      PROVE  A!AuthNext
  BY <1>3 DEF LoginArrives, LoginProceeds, LoginDies, A!AuthNext
<1>4. ASSUME NEW p \in Players, BanMoves(p)
      PROVE  UNCHANGED A!authVars
  BY <1>4 DEF BanMoves, S!Ban, S!Unban, loginVars, A!authVars
<1>5. ASSUME NEW r \in Submissions,
             SubmitWithoutToken(r) \/ \E t \in Delivered : SubmitWithToken(r, t)
      PROVE  UNCHANGED A!authVars
  BY <1>5 DEF SubmitWithoutToken, SubmitWithToken, loginVars, A!authVars
<1>6. ASSUME NEW r \in Submissions, SubmissionProceeds(r) \/ SubmissionDies(r)
      PROVE  UNCHANGED A!authVars
  BY <1>6 DEF SubmissionProceeds, SubmissionDies, loginVars, S!SubmitStep, S!CrashSubmit,
     S!CheckBan, S!ParseRequest, S!CheckCooldown, S!InsertScore, A!authVars
<1> QED
  BY <1>1, <1>2, <1>3, <1>4, <1>5, <1>6 DEF ServerNext

\* So the server, seen from its logins, is the login endpoint alone.
THEOREM ServerImplementsAuth == ServerSpec => ServerIsAuth
<1>1. ServerInit => A!AuthInit
  BY DEF ServerInit
<1> QED
  BY <1>1, ServerStepsAuth, PTL DEF ServerSpec, ServerIsAuth, A!AuthSpec

\* RequireAuth only ever hands a submission over for a player of the table, and
\* no login touches a submission, a ban or a score.
LEMMA ServerStepsScores == [ServerNext]_serverVars => [S!ScoresNext]_(S!scoreVars)
<1> SUFFICES ASSUME [ServerNext]_serverVars
             PROVE  S!ScoresNext \/ UNCHANGED S!scoreVars
  OBVIOUS
<1>1. CASE UNCHANGED serverVars
  BY <1>1 DEF serverVars, submitVars, S!scoreVars
<1>2. CASE ServerTick
  BY <1>2 DEF ServerTick, A!AuthTick, submitVars, S!ScoresTick, S!ScoresNext
<1>3. ASSUME NEW l \in Logins, LoginArrives(l) \/ LoginProceeds(l) \/ LoginDies(l)
      PROVE  UNCHANGED S!scoreVars
  BY <1>3 DEF LoginArrives, LoginProceeds, LoginDies, A!RefuseLogin, A!AcceptLogin, A!LoginStep, A!CrashLogin,
     A!ValidateToken, A!UpsertPlayer, A!MintToken, A!DeleteSessions, A!InsertSession,
     submitVars, S!scoreVars
<1>4. ASSUME NEW p \in Players, BanMoves(p)
      PROVE  S!ScoresNext
  BY <1>4 DEF BanMoves, S!ScoresNext
<1>5. ASSUME NEW r \in Submissions,
             SubmitWithoutToken(r) \/ \E t \in Delivered : SubmitWithToken(r, t)
      PROVE  S!ScoresNext
  <2>1. S!SubmitArrives(r)
    BY <1>5 DEF SubmitWithoutToken, SubmitWithToken, S!SubmitArrives
  <2> QED
    BY <2>1 DEF S!ScoresNext
<1>6. ASSUME NEW r \in Submissions, SubmissionProceeds(r) \/ SubmissionDies(r)
      PROVE  S!ScoresNext
  BY <1>6 DEF SubmissionProceeds, SubmissionDies, S!ScoresNext
<1> QED
  BY <1>1, <1>2, <1>3, <1>4, <1>5, <1>6 DEF ServerNext

\* So the server, seen from its submissions, is the score endpoint alone.
THEOREM ServerImplementsScores == ServerSpec => ServerIsScores
<1>1. ServerInit => S!ScoresInit
  BY DEF ServerInit
<1> QED
  BY <1>1, ServerStepsScores, PTL DEF ServerSpec, ServerIsScores, S!ScoresSpec

-----------------------------------------------------------------------------
(* What a token lets in *)

\* The type invariant, with what keeps rows from naming uuid.Nil.
Typed ==
  /\ ServerTypeOK
  /\ \A r \in Submissions :
       submit[r] \in {"ban"} \cup S!PastBanCheck => player[r] \in Players

\* Logins keep their types, whatever submissions do.
LEMMA LoginsTyped == A!AuthTypeOK /\ [A!AuthNext]_(A!authVars) => A!AuthTypeOK'
<1> SUFFICES ASSUME A!AuthTypeOK, [A!AuthNext]_(A!authVars)
             PROVE  A!AuthTypeOK'
  OBVIOUS
<1> USE DEF A!AuthTypeOK, A!LoginSteps, A!LoginAnswers, A!LoginGoes
<1>1. CASE A!AuthTick
  BY <1>1 DEF A!AuthTick
<1>2. ASSUME NEW l \in Logins, A!RefuseLogin(l) \/ A!AcceptLogin(l) \/ A!ValidateToken(l)
                                 \/ A!UpsertPlayer(l) \/ A!CrashLogin(l)
      PROVE  A!AuthTypeOK'
  BY <1>2 DEF A!RefuseLogin, A!AcceptLogin, A!ValidateToken, A!UpsertPlayer, A!CrashLogin
<1>3. ASSUME NEW l \in Logins, A!MintToken(l) PROVE A!AuthTypeOK'
  BY <1>3, ServerAssumption DEF A!MintToken, A!ExpiresAt, A!AuthAssumption
<1>4. ASSUME NEW l \in Logins, A!DeleteSessions(l) PROVE A!AuthTypeOK'
  BY <1>4 DEF A!DeleteSessions, A!SessionsOfOthers
<1>5. ASSUME NEW l \in Logins, A!InsertSession(l) PROVE A!AuthTypeOK'
  BY <1>5 DEF A!InsertSession, A!NewSession, A!SessionRow
<1>6. CASE UNCHANGED A!authVars
  BY <1>6 DEF A!authVars
<1> QED
  BY <1>1, <1>2, <1>3, <1>4, <1>5, <1>6 DEF A!AuthNext, A!LoginStep

\* Submissions keep theirs.
LEMMA SubmissionsTyped ==
  ASSUME S!ScoresTypeOK, [S!ScoresNext]_(S!scoreVars),
         \A r \in Submissions :
           submit[r] \in {"ban"} \cup S!PastBanCheck => player[r] \in Players
  PROVE  /\ S!ScoresTypeOK'
         /\ \A r \in Submissions :
              submit'[r] \in {"ban"} \cup S!PastBanCheck => player'[r] \in Players
<1> DEFINE Goal == /\ S!ScoresTypeOK'
                   /\ \A r \in Submissions :
                        submit'[r] \in {"ban"} \cup S!PastBanCheck => player'[r] \in Players
<1> USE DEF S!ScoresTypeOK, S!SubmitSteps, S!PastBanCheck, S!SubmitAnswers, S!SubmitGoes
<1>1. CASE S!ScoresTick
  BY <1>1 DEF S!ScoresTick
<1>2. ASSUME NEW p \in Players, S!Ban(p) \/ S!Unban(p) PROVE Goal
  BY <1>2 DEF S!Ban, S!Unban
<1>3. ASSUME NEW r \in Submissions, S!SubmitArrives(r) PROVE Goal
  BY <1>3 DEF S!SubmitArrives, S!RefuseMethod, S!RefuseSubmit, S!AcceptSubmit
<1>4. ASSUME NEW r \in Submissions, S!CheckBan(r) \/ S!ParseRequest(r) \/ S!CrashSubmit(r)
      PROVE  Goal
  BY <1>4 DEF S!CheckBan, S!ParseRequest, S!CrashSubmit
<1>5. ASSUME NEW r \in Submissions, S!CheckCooldown(r) PROVE Goal
  <2>1. {s.id : s \in S!ScoresOf(player[r])} \subseteq Submissions
    BY DEF S!ScoresOf, S!ScoreRow
  <2> QED
    BY <1>5, <2>1 DEF S!CheckCooldown
<1>6. ASSUME NEW r \in Submissions, S!InsertScore(r) PROVE Goal
  BY <1>6 DEF S!InsertScore, S!NewScore, S!ScoreRow
<1>7. CASE UNCHANGED S!scoreVars
  BY <1>7 DEF S!scoreVars
<1> QED
  BY <1>1, <1>2, <1>3, <1>4, <1>5, <1>6, <1>7 DEF S!ScoresNext, S!SubmitStep

\* The join adds the token a submission carries and what was true when it came.
LEMMA TypedStep == Typed /\ [ServerNext]_serverVars => Typed'
<1> SUFFICES ASSUME Typed, [ServerNext]_serverVars
             PROVE  Typed'
  OBVIOUS
<1>1. A!AuthTypeOK'
  BY ServerStepsAuth, LoginsTyped DEF Typed, ServerTypeOK
<1>2. /\ S!ScoresTypeOK'
      /\ \A r \in Submissions :
           submit'[r] \in {"ban"} \cup S!PastBanCheck => player'[r] \in Players
  BY ServerStepsScores, SubmissionsTyped DEF Typed, ServerTypeOK
<1> DEFINE Tokens == /\ bearer' \in [Submissions -> Logins \cup {NoToken}]
                     /\ arrived' \in [Submissions -> Nat]
                     /\ answered' \in [Submissions -> SUBSET Logins]
<1>3. ASSUME NEW r \in Submissions, NEW t \in Delivered, SubmitWithToken(r, t)
      PROVE  Tokens
  BY <1>3 DEF SubmitWithToken, Delivered, Typed, ServerTypeOK, A!AuthTypeOK
<1>4. ASSUME UNCHANGED tokenVars PROVE Tokens
  BY <1>4 DEF tokenVars, Typed, ServerTypeOK
<1>5. Tokens
  BY <1>3, <1>4 DEF ServerNext, ServerTick, LoginArrives, LoginProceeds, LoginDies,
     BanMoves, SubmitWithoutToken, SubmissionProceeds, SubmissionDies, serverVars
<1> QED
  BY <1>1, <1>2, <1>5 DEF Typed, ServerTypeOK

\* Types at the start.
LEMMA TypedInit == ServerInit => Typed
  BY ServerAssumption DEF ServerInit, A!AuthInit, S!ScoresInit, Typed, ServerTypeOK,
     A!AuthTypeOK, S!ScoresTypeOK, A!LoginSteps, S!SubmitSteps, S!PastBanCheck

\* Every variable of the composed server stays in its type.
THEOREM ServerTypeCorrect == ServerSpec => []ServerTypeOK
<1>1. Typed => ServerTypeOK
  BY DEF Typed
<1> QED
  BY <1>1, TypedInit, TypedStep, PTL DEF ServerSpec

-----------------------------------------------------------------------------
(* The inductive invariant behind the rest.                                 *)

\* A row of `sessions` is what its login inserted.
RowsOfLogins ==
  \A s \in sessions :
    s.token \in issued /\ s.player = account[s.token] /\ s.expires = expires[s.token]

\* A login that has issued a token is past MintToken and its INSERT.
IssuersDone == \A l \in issued : login[l] \in {"200", "503"}

\* What a DELETE swept was issued before it and is gone for good.
SweptGone == \A m \in Logins : \A t \in swept[m] : t \in issued /\ ~ A!Live(t)

\* A submission that has a player got it from a token of that player's, good
\* when it was looked up, and swept by none of the logins answered by then.
AdmittedByToken ==
  \A r \in Submissions : player[r] # NilPlayer =>
    /\ submit[r] # "idle"
    /\ bearer[r] \in issued
    /\ player[r] = account[bearer[r]]
    /\ arrived[r] <= expires[bearer[r]]
    /\ \A m \in answered[r] : login[m] = "200" /\ bearer[r] \notin swept[m]

\* A row of `scores` names the player its submission was admitted for.
RowsOfAdmitted ==
  \A s \in scores : s.player = player[s.id] /\ player[s.id] # NilPlayer

ServerIInv ==
  /\ Typed
  /\ RowsOfLogins
  /\ IssuersDone
  /\ SweptGone
  /\ AdmittedByToken
  /\ RowsOfAdmitted

\* Empty tables satisfy the inductive invariant.
LEMMA ServerInitIInv == ServerInit => ServerIInv
  BY TypedInit DEF ServerInit, A!AuthInit, S!ScoresInit, ServerIInv, RowsOfLogins, IssuersDone,
     SweptGone, AdmittedByToken, RowsOfAdmitted

\* A login that neither mints nor writes to `sessions` disturbs none of it.
LEMMA QuietLogin ==
  ASSUME ServerIInv, Typed', NEW l \in Logins,
         A!RefuseLogin(l) \/ A!AcceptLogin(l) \/ A!ValidateToken(l)
           \/ A!UpsertPlayer(l) \/ A!CrashLogin(l),
         UNCHANGED <<submitVars, tokenVars>>
  PROVE  ServerIInv'
<1> USE DEF ServerIInv, Typed, ServerTypeOK, A!AuthTypeOK, S!ScoresTypeOK
<1>1. /\ UNCHANGED <<account, sessions, expires, issued, swept>>
      /\ login[l] \notin {"200", "503"}
      /\ \A k \in Logins \ {l} : login'[k] = login[k]
  BY DEF A!RefuseLogin, A!AcceptLogin, A!ValidateToken, A!UpsertPlayer, A!CrashLogin,
     A!LoginGoes, A!LoginSteps
<1>2. UNCHANGED <<player, submit, scores, bearer, arrived, answered>>
  BY DEF submitVars, tokenVars
<1> QED
  BY <1>1, <1>2 DEF RowsOfLogins, IssuersDone, SweptGone, AdmittedByToken, RowsOfAdmitted, A!Live

\* Minting and the two statements of CreateSession.
LEMMA WritingLogin ==
  ASSUME ServerIInv, Typed', NEW l \in Logins,
         A!MintToken(l) \/ A!DeleteSessions(l) \/ A!InsertSession(l),
         UNCHANGED <<submitVars, tokenVars>>
  PROVE  ServerIInv'
<1> USE DEF ServerIInv, Typed, ServerTypeOK, A!AuthTypeOK, S!ScoresTypeOK
<1>1. UNCHANGED <<player, submit, scores, bearer, arrived, answered>>
  BY DEF submitVars, tokenVars
<1>2. /\ login[l] \in {"mint", "delete", "insert"}
      /\ \A k \in Logins \ {l} : login'[k] = login[k]
      /\ UNCHANGED account
  BY DEF A!MintToken, A!DeleteSessions, A!InsertSession, A!LoginGoes
<1>3. l \notin issued
  BY <1>2 DEF IssuersDone
<1>4. CASE A!MintToken(l)
  <2>1. /\ UNCHANGED <<sessions, issued, swept>>
        /\ \A t \in Logins \ {l} : expires'[t] = expires[t]
    BY <1>4 DEF A!MintToken
  <2> QED
    BY <1>1, <1>2, <1>3, <2>1
       DEF RowsOfLogins, IssuersDone, SweptGone, AdmittedByToken, RowsOfAdmitted, A!Live
<1>5. CASE A!DeleteSessions(l)
  <2>1. /\ UNCHANGED <<issued, expires>>
        /\ sessions' \subseteq sessions
        /\ \A m \in Logins \ {l} : swept'[m] = swept[m]
    BY <1>5 DEF A!DeleteSessions, A!SessionsOfOthers
  <2>2. \/ UNCHANGED swept
        \/ /\ sessions' = A!SessionsOfOthers(l)
           /\ swept'[l] = {t \in issued : account[t] = account[l]}
    BY <1>5 DEF A!DeleteSessions
  <2>3. SweptGone'
    BY <1>2, <2>1, <2>2 DEF SweptGone, RowsOfLogins, A!Live, A!SessionsOfOthers
  <2> QED
    BY <1>1, <1>2, <1>3, <2>1, <2>3
       DEF RowsOfLogins, IssuersDone, AdmittedByToken, RowsOfAdmitted
<1>6. CASE A!InsertSession(l)
  <2>1. UNCHANGED <<swept, expires>>
    BY <1>6 DEF A!InsertSession
  <2>2. \/ UNCHANGED <<sessions, issued>>
        \/ /\ sessions' = sessions \cup {A!NewSession(l)}
           /\ issued' = issued \cup {l}
    BY <1>6 DEF A!InsertSession
  <2>3. login'[l] \in {"200", "503"}
    BY <1>6 DEF A!InsertSession, A!LoginGoes
  <2>4. RowsOfLogins' /\ SweptGone'
    BY <1>2, <1>3, <2>1, <2>2 DEF RowsOfLogins, SweptGone, A!NewSession, A!Live
  <2> QED
    BY <1>1, <1>2, <1>3, <2>1, <2>2, <2>3, <2>4
       DEF IssuersDone, AdmittedByToken, RowsOfAdmitted
<1> QED
  BY <1>4, <1>5, <1>6

\* The session lookup of a submission: the one place where tokens are weighed.
LEMMA Lookup ==
  ASSUME ServerIInv, Typed', NEW r \in Submissions, NEW t \in Delivered, SubmitWithToken(r, t)
  PROVE  ServerIInv'
<1> USE DEF ServerIInv, Typed, ServerTypeOK, A!AuthTypeOK, S!ScoresTypeOK
<1>1. /\ UNCHANGED <<account, sessions, expires, issued, swept, login, scores>>
      /\ submit[r] = "idle"
      /\ submit'[r] # "idle"
      /\ \A q \in Submissions \ {r} : submit'[q] = submit[q] /\ player'[q] = player[q]
  BY DEF SubmitWithToken, loginVars, S!AcceptSubmit, S!RefuseSubmit, S!SubmitGoes
<1>2. player[r] = NilPlayer
  BY <1>1 DEF AdmittedByToken
<1>3. /\ bearer'[r] = t /\ arrived'[r] = clock /\ answered'[r] = Delivered
      /\ \A q \in Submissions \ {r} :
           bearer'[q] = bearer[q] /\ arrived'[q] = arrived[q] /\ answered'[q] = answered[q]
  BY DEF SubmitWithToken
<1>4. \/ player'[r] = NilPlayer
      \/ A!Authenticates(t, player'[r])
  BY <1>2 DEF SubmitWithToken, S!AcceptSubmit, S!RefuseSubmit
<1>5. A!Authenticates(t, player'[r]) =>
        /\ t \in issued
        /\ player'[r] = account[t]
        /\ clock <= expires[t]
        /\ \A m \in Delivered : t \notin swept[m]
  BY DEF A!Authenticates, RowsOfLogins, SweptGone, A!Live, Delivered, A!SessionRow
<1>6. AdmittedByToken'
  BY <1>1, <1>3, <1>4, <1>5 DEF AdmittedByToken, Delivered
<1>7. RowsOfAdmitted'
  BY <1>1, <1>2 DEF RowsOfAdmitted, S!ScoreRow
<1> QED
  BY <1>1, <1>6, <1>7 DEF RowsOfLogins, IssuersDone, SweptGone, A!Live

\* What a submission does after that, and what ends one without a token.
LEMMA SubmissionStep ==
  ASSUME ServerIInv, Typed', NEW r \in Submissions,
         SubmitWithoutToken(r) \/ SubmissionProceeds(r) \/ SubmissionDies(r)
  PROVE  ServerIInv'
<1> USE DEF ServerIInv, Typed, ServerTypeOK, A!AuthTypeOK, S!ScoresTypeOK
<1>1. UNCHANGED <<account, sessions, expires, issued, swept, login, bearer, arrived, answered, player>>
  BY DEF SubmitWithoutToken, SubmissionProceeds, SubmissionDies, loginVars, tokenVars,
     S!RefuseMethod, S!RefuseSubmit, S!SubmitStep, S!CheckBan, S!ParseRequest, S!CheckCooldown,
     S!InsertScore, S!CrashSubmit
<1>2. submit'[r] # "idle" /\ \A q \in Submissions \ {r} : submit'[q] = submit[q]
  BY DEF SubmitWithoutToken, SubmissionProceeds, SubmissionDies, S!RefuseMethod, S!RefuseSubmit,
     S!SubmitGoes, S!SubmitStep, S!CheckBan, S!ParseRequest, S!CheckCooldown, S!InsertScore, S!CrashSubmit
<1>3. \/ UNCHANGED scores
      \/ submit[r] = "insert" /\ scores' = scores \cup {S!NewScore(r)}
  BY DEF SubmitWithoutToken, SubmissionProceeds, SubmissionDies, S!RefuseMethod, S!RefuseSubmit,
     S!SubmitGoes, S!SubmitStep, S!CheckBan, S!ParseRequest, S!CheckCooldown, S!InsertScore, S!CrashSubmit
<1>4. RowsOfAdmitted'
  BY <1>1, <1>3, ServerAssumption DEF RowsOfAdmitted, S!NewScore, S!PastBanCheck,
     S!ScoresAssumption
<1> QED
  BY <1>1, <1>2, <1>4 DEF RowsOfLogins, IssuersDone, SweptGone, A!Live, AdmittedByToken

\* Every step of the server keeps the inductive invariant.
LEMMA ServerNextIInv == ServerIInv /\ [ServerNext]_serverVars => ServerIInv'
<1> SUFFICES ASSUME ServerIInv, [ServerNext]_serverVars
             PROVE  ServerIInv'
  OBVIOUS
<1>1. Typed'
  BY TypedStep DEF ServerIInv
<1>2. ASSUME NEW l \in Logins, LoginArrives(l) \/ LoginProceeds(l) \/ LoginDies(l)
      PROVE  ServerIInv'
  BY <1>1, <1>2, QuietLogin, WritingLogin
     DEF LoginArrives, LoginProceeds, LoginDies, A!LoginStep
<1>3. ASSUME NEW r \in Submissions, NEW t \in Delivered, SubmitWithToken(r, t)
      PROVE  ServerIInv'
  BY <1>1, <1>3, Lookup
<1>4. ASSUME NEW r \in Submissions,
             SubmitWithoutToken(r) \/ SubmissionProceeds(r) \/ SubmissionDies(r)
      PROVE  ServerIInv'
  BY <1>1, <1>4, SubmissionStep
<1>5. CASE ServerTick \/ (\E p \in Players : BanMoves(p)) \/ UNCHANGED serverVars
  <2>1. UNCHANGED <<account, sessions, expires, issued, swept, login, bearer, arrived, answered,
                    player, submit, scores>>
    BY <1>5 DEF ServerTick, BanMoves, S!Ban, S!Unban, A!AuthTick, serverVars, loginVars,
       submitVars, tokenVars
  <2> QED
    BY <1>1, <2>1 DEF ServerIInv, RowsOfLogins, IssuersDone, SweptGone, A!Live, AdmittedByToken,
       RowsOfAdmitted
<1> QED
  BY <1>2, <1>3, <1>4, <1>5 DEF ServerNext

\* The inductive invariant holds throughout.
LEMMA ServerInvariant == ServerSpec => []ServerIInv
  BY ServerInitIInv, ServerNextIInv, PTL DEF ServerSpec

-----------------------------------------------------------------------------
\* A stored score belongs to the account that logged in for the token its
\* submission carried.
THEOREM OwnerOnly == ServerSpec => []ScoresOfTokenOwner
<1>1. ServerIInv => ScoresOfTokenOwner
  BY DEF ServerIInv, Typed, ServerTypeOK, S!ScoresTypeOK, S!ScoreRow, AdmittedByToken,
     RowsOfAdmitted, ScoresOfTokenOwner
<1> QED
  BY <1>1, ServerInvariant, PTL

\* A token that a login answered earlier had swept, or that had expired when
\* the submission arrived, never let it store a score.
THEOREM LateStoreNothing == ServerSpec => []LateSubmissionsStoreNothing
<1>1. ServerIInv => LateSubmissionsStoreNothing
  BY DEF ServerIInv, Typed, ServerTypeOK, S!ScoresTypeOK, S!ScoreRow, AdmittedByToken,
     RowsOfAdmitted, LateSubmissionsStoreNothing
<1> QED
  BY <1>1, ServerInvariant, PTL
=============================================================================

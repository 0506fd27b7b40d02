---------------------------- MODULE BoardsProofs ----------------------------
(***************************************************************************)
(* Boards, for every number of players, length of days and months, limit   *)
(* and finite table: what the queries return, and that every endpoint      *)
(* answers with what was true at one moment, or two, of its request.       *)
(***************************************************************************)
EXTENDS Boards, Counting, SequenceTheorems

\* The tables as they may be: finitely many rows, none of them stored ahead of
\* the clock.
WorldOK(w) ==
  /\ w \in [now : Nat, rows : SUBSET ScoreRow, banned : SUBSET Players]
  /\ IsFiniteSet(w.rows)
  /\ \A r \in w.rows : r.at <= w.now

\* What happens meanwhile leaves a table of the past.
LEMMA SuccessorsOK ==
  ASSUME NEW w, WorldOK(w), NEW v \in Successors(w)
  PROVE  WorldOK(v) /\ w.now <= v.now
<1> USE DEF WorldOK
<1>1. CASE v = [w EXCEPT !.now = @ + 1]
  BY <1>1 DEF ScoreRow
<1>2. ASSUME NEW r \in Runs, v = [w EXCEPT !.rows = @ \cup {Stored(r, w.now)}]
      PROVE  WorldOK(v) /\ w.now <= v.now
  <2>1. Stored(r, w.now) \in ScoreRow /\ Stored(r, w.now).at = w.now
    BY BoardsAssumption DEF Stored, ScoreRow
  <2>2. IsFiniteSet(w.rows \cup {Stored(r, w.now)})
    BY FS_AddElement
  <2> QED
    BY <1>2, <2>1, <2>2
<1>3. ASSUME NEW p \in Players,
             v = [w EXCEPT !.banned = @ \cup {p}] \/ v = [w EXCEPT !.banned = @ \ {p}]
      PROVE  WorldOK(v) /\ w.now <= v.now
  BY <1>3
<1> QED
  BY <1>1, <1>2, <1>3 DEF Successors

-----------------------------------------------------------------------------
(* Months and rows *)

\* A month is the half-open interval a query asks for.
LEMMA MonthIs ==
  ASSUME NEW t \in Nat, NEW m \in Nat
  PROVE  Month(t) = m <=> Start(m) <= t /\ t < (m + 1) * MonthLength
<1>1. MonthLength \in Nat \ {0} /\ m # AllTime
  BY BoardsAssumption
<1>2. t \div MonthLength = m <=> m * MonthLength <= t /\ t < (m + 1) * MonthLength
  BY <1>1
<1> QED
  BY <1>1, <1>2 DEF Month, Start

\* The WHERE clause finds the rows that count, month by month or all of them.
LEMMA RankedIs ==
  ASSUME NEW w, WorldOK(w), NEW modes, NEW month \in Nat \cup {AllTime}
  PROVE  Ranked(w, modes, Start(month), End(month, w))
           = {r \in w.rows : Counts(w, r, modes) /\ During(r, month)}
<1>1. \A r \in w.rows : r.at \in Nat /\ r.at <= w.now /\ w.now \in Nat
  BY DEF WorldOK, ScoreRow
<1>2. CASE month = AllTime
  BY <1>1, <1>2 DEF Ranked, Counts, During, Start, End
<1>3. CASE month # AllTime
  <2>1. month \in Nat
    BY <1>3
  <2>2. \A r \in w.rows : During(r, month) <=> Start(month) <= r.at /\ r.at < End(month, w)
    BY <1>1, <1>3, <2>1, MonthIs DEF During, End
  <2> QED
    BY <2>2 DEF Ranked, Counts
<1> QED
  BY <1>2, <1>3

\* The rows a query ranks are finitely many rows of the table.
LEMMA RankedFinite ==
  ASSUME NEW w, WorldOK(w), NEW modes, NEW from, NEW to
  PROVE  /\ Ranked(w, modes, from, to) \subseteq w.rows
         /\ Ranked(w, modes, from, to) \subseteq ScoreRow
         /\ IsFiniteSet(Ranked(w, modes, from, to))
<1>1. Ranked(w, modes, from, to) \subseteq w.rows
  BY DEF Ranked
<1> QED
  BY <1>1, FS_Subset DEF WorldOK

-----------------------------------------------------------------------------
(* Sorting and limits *)

\* ORDER BY score DESC lists every row once, the higher scores first.
LEMMA ByScore ==
  ASSUME NEW S, IsFiniteSet(S), NEW s \in OrderBy(S, HigherScore)
  PROVE  Lists(s, S) /\ \A i, j \in 1..Cardinality(S) : i < j => ~ HigherScore(s[j], s[i])
<1>1. /\ s \in [1..Cardinality(S) -> S]
      /\ \A i, j \in DOMAIN s : i < j => s[i] # s[j] /\ ~ HigherScore(s[j], s[i])
  BY DEF OrderBy
<1>2. \A i, j \in DOMAIN s : i < j => s[i] # s[j]
  BY <1>1
<1>3. Lists(s, S)
  BY <1>1, <1>2, Enumeration
<1>4. DOMAIN s = 1..Cardinality(S)
  BY <1>1
<1> QED
  BY <1>1, <1>3, <1>4

AtMost(n, N) == IF n <= N THEN n ELSE N

\* l is the first M entries of s.
Cuts(l, M, s, S) ==
  /\ l \in [1..M -> S]
  /\ Len(l) = M
  /\ \A k \in 1..M : l[k] = s[k]

\* LIMIT n leaves the first n entries, or all of fewer.
LEMMA LimitIs ==
  ASSUME NEW S, NEW N \in Nat, NEW s \in [1..N -> S], NEW n \in Nat
  PROVE  AtMost(n, N) \in 0..N /\ Cuts(Limit(s, n), AtMost(n, N), s, S)
<1> DEFINE M == AtMost(n, N)
<1>1. s \in Seq(S) /\ Len(s) = N
  OBVIOUS
<1>2. Limit(s, n) = SubSeq(s, 1, M)
  BY <1>1, MinOfTwo DEF Limit, AtMost
<1>3. M \in 0..N /\ (M > 0 => M \in 1..N)
  BY DEF AtMost
<1> HIDE DEF M
<1>4. M \in Int /\ 1 \in Int /\ \A i \in 1..M : s[i] \in S
  BY <1>1, <1>3
<1>5. /\ SubSeq(s, 1, M) \in Seq(S)
      /\ Len(SubSeq(s, 1, M)) = IF 1 <= M THEN M - 1 + 1 ELSE 0
      /\ \A i \in 1..(M - 1 + 1) : SubSeq(s, 1, M)[i] = s[1 + i - 1]
  BY <1>4, SubSeqProperties
<1>6. Len(SubSeq(s, 1, M)) = M /\ \A i \in 1..M : SubSeq(s, 1, M)[i] = s[i]
  BY <1>3, <1>5
<1>7. SubSeq(s, 1, M) \in [1..M -> S]
  BY <1>5, <1>6, LenProperties
<1> QED
  BY <1>2, <1>3, <1>6, <1>7 DEF M, Cuts

-----------------------------------------------------------------------------
(* What the queries return *)

\* s is the best run in R of every player who has one, best first.
BestRuns(s, N, R) ==
  /\ s \in [1..N -> R]
  /\ \A i, j \in 1..N : s[i].player = s[j].player => i = j
  /\ \A i, j \in 1..N : i < j => s[i].score >= s[j].score
  /\ \A r \in R : \E i \in 1..N : s[i].player = r.player /\ s[i].score >= r.score

\* A leaderboard is cut from the best runs of everyone with a row that counts.
LEMMA LeaderboardIs ==
  ASSUME NEW w, WorldOK(w), NEW modes, NEW from, NEW to,
         NEW b \in GetLeaderboard(w, modes, from, to)
  PROVE  \E N \in Nat : \E s : /\ BestRuns(s, N, Ranked(w, modes, from, to))
                               /\ b = Limit(s, BoardLimit)
<1> DEFINE R == Ranked(w, modes, from, to)
<1>1. R \subseteq ScoreRow /\ IsFiniteSet(R)
  BY RankedFinite
<1>2. \E B \in DistinctOn(R, LAMBDA r : r.player) : \E s \in OrderBy(B, HigherScore) :
        b = Limit(s, BoardLimit)
  BY Zenon DEF GetLeaderboard
<1> HIDE DEF R
<1>3. PICK B \in SUBSET R :
        /\ \A r \in R : \E c \in B : /\ c.player = r.player
                                     /\ c.score >= r.score
                                     /\ \A d \in B : d.player = r.player => d = c
        /\ \E s \in OrderBy(B, HigherScore) : b = Limit(s, BoardLimit)
  BY <1>2 DEF DistinctOn
<1>4. PICK s : s \in OrderBy(B, HigherScore) /\ b = Limit(s, BoardLimit)
  BY <1>3
<1> DEFINE N == Cardinality(B)
<1>5. IsFiniteSet(B)
  BY <1>1, <1>3, FS_Subset
<1>6. Lists(s, B) /\ \A i, j \in 1..N : i < j => ~ HigherScore(s[j], s[i])
  BY <1>4, <1>5, ByScore
<1>7. \A i, j \in 1..N : i < j => ~ HigherScore(s[j], s[i])
  BY <1>6
<1>8. \A c, d \in B : c.player = d.player => c = d
  BY <1>3
<1>9. \A c \in B : c.score \in Nat
  BY <1>1, <1>3 DEF ScoreRow
<1>10. N \in Nat /\ s \in [1..N -> B]
  BY <1>6 DEF Lists
<1>11. \A i, j \in 1..N : s[i] = s[j] => i = j
  BY <1>6 DEF Lists
<1>12. \A x \in B : \E i \in 1..N : s[i] = x
  BY <1>6 DEF Lists
<1> HIDE DEF N
<1>13. \A i, j \in 1..N : s[i].player = s[j].player => i = j
  BY <1>8, <1>10, <1>11
<1>14. \A i, j \in 1..N : i < j => s[i].score >= s[j].score
  <2> SUFFICES ASSUME NEW i \in 1..N, NEW j \in 1..N, i < j PROVE s[i].score >= s[j].score
    OBVIOUS
  <2>1. ~ HigherScore(s[j], s[i])
    BY <1>7
  <2>2. s[i].score \in Nat /\ s[j].score \in Nat
    BY <1>9, <1>10
  <2> QED
    BY <2>1, <2>2 DEF HigherScore
<1>15. \A r \in R : \E i \in 1..N : s[i].player = r.player /\ s[i].score >= r.score
  BY <1>3, <1>12
<1>16. BestRuns(s, N, R)
  BY <1>10, <1>13, <1>14, <1>15 DEF BestRuns
<1> QED
  BY <1>4, <1>10, <1>16 DEF R

\* A board is what is left of that by the limit.
LEMMA BoardIs ==
  ASSUME NEW R \in SUBSET ScoreRow, NEW N \in Nat, NEW s, BestRuns(s, N, R)
  PROVE  AtMost(BoardLimit, N) \in 0..N /\ Cuts(Limit(s, BoardLimit), AtMost(BoardLimit, N), s, R)
<1>1. BoardLimit \in Nat /\ s \in [1..N -> R]
  BY BoardsAssumption DEF BestRuns
<1> QED
  BY <1>1, LimitIs

\* A record is the highest score of its mode.
LEMMA RecordsAre ==
  ASSUME NEW w, WorldOK(w), NEW from, NEW to, NEW records \in GetWorldRecords(w, from, to),
         NEW m \in BoardModes
  PROVE  LET rows == Ranked(w, {m}, from, to)
         IN  IF rows = {} THEN m \notin DOMAIN records
             ELSE /\ m \in DOMAIN records
                  /\ records[m] \in rows
                  /\ \A r \in rows : r.score <= records[m].score
<1> DEFINE R == Ranked(w, BoardModes, from, to)
           rows == Ranked(w, {m}, from, to)
<1>1. rows = {r \in R : r.mode = m} /\ \A r \in R : r.score \in Nat
  BY DEF Ranked, WorldOK, ScoreRow
<1>2. \E B \in DistinctOn(R, LAMBDA r : r.mode) :
        records = [n \in {r.mode : r \in B} |-> CHOOSE r \in B : r.mode = n]
  BY Zenon DEF GetWorldRecords
<1> HIDE DEF R, rows
<1>3. PICK B \in SUBSET R :
        /\ \A r \in R : \E c \in B : /\ c.mode = r.mode
                                     /\ c.score >= r.score
                                     /\ \A d \in B : d.mode = r.mode => d = c
        /\ records = [n \in {r.mode : r \in B} |-> CHOOSE r \in B : r.mode = n]
  BY <1>2 DEF DistinctOn
<1>4. CASE rows = {}
  BY <1>1, <1>3, <1>4 DEF rows
<1>5. CASE rows # {}
  <2>1. PICK q \in R : q.mode = m
    BY <1>1, <1>5
  <2>2. PICK c \in B : c.mode = m /\ \A d \in B : d.mode = m => d = c
    BY <1>3, <2>1
  <2>3. m \in DOMAIN records /\ records[m] = c
    BY <1>3, <2>2
  <2>4. \A r \in rows : r.score <= c.score
    BY <1>1, <1>3, <2>2
  <2>5. c \in rows
    BY <1>1, <1>3, <2>2
  <2> QED
    BY <1>5, <2>3, <2>4, <2>5 DEF rows
<1> QED
  BY <1>4, <1>5

-----------------------------------------------------------------------------
\* An all-time record leads its mode's all-time board, in every world.
LEMMA RecordsLead ==
  ASSUME WorldOK(world)
  PROVE  RecordsLeadBoards
<1> DEFINE to == End(AllTime, world)
<1> SUFFICES ASSUME NEW records \in GetWorldRecords(world, Start(AllTime), to),
                    NEW mode \in BoardModes,
                    NEW board \in GetLeaderboard(world, {mode}, Start(AllTime), to)
             PROVE  IF board = <<>> THEN mode \notin DOMAIN records
                    ELSE mode \in DOMAIN records /\ records[mode].score = board[1].score
  BY DEF RecordsLeadBoards
<1> HIDE DEF to
<1> DEFINE R == Ranked(world, {mode}, Start(AllTime), to)
<1>1. R \in SUBSET ScoreRow
  BY RankedFinite
<1>2. PICK N \in Nat : \E s : BestRuns(s, N, R) /\ board = Limit(s, BoardLimit)
  BY LeaderboardIs
<1>3. PICK s : BestRuns(s, N, R) /\ board = Limit(s, BoardLimit)
  BY <1>2
<1>4. IF R = {} THEN mode \notin DOMAIN records
      ELSE /\ mode \in DOMAIN records
           /\ records[mode] \in R
           /\ \A r \in R : r.score <= records[mode].score
  BY RecordsAre
<1> DEFINE M == AtMost(BoardLimit, N)
<1>5. M = AtMost(BoardLimit, N)
  OBVIOUS
<1> HIDE DEF R, M
<1>6. M \in 0..N /\ Cuts(board, M, s, R)
  BY <1>1, <1>3, <1>5, BoardIs
<1>7. /\ M \in 0..N
      /\ board \in [1..M -> R]
      /\ Len(board) = M
      /\ \A k \in 1..M : k \in 1..N /\ board[k] = s[k]
  BY <1>6 DEF Cuts
<1>8. BoardLimit \in Nat \ {0} /\ \A r \in R : r.score \in Nat
  BY <1>1, BoardsAssumption DEF ScoreRow
<1>9. CASE R = {}
  <2>1. N = 0
    BY <1>3, <1>9 DEF BestRuns
  <2>2. Len(board) = 0 /\ board \in Seq(R)
    BY <1>7, <1>8, <2>1
  <2>3. board = <<>>
    BY <2>2, EmptySeq
  <2> QED
    BY <1>4, <1>9, <2>3
<1>10. CASE R # {}
  <2>1. N >= 1
    BY <1>3, <1>10 DEF BestRuns
  <2>2. M >= 1
    BY <1>5, <1>8, <2>1 DEF AtMost
  <2>3. 1 \in 1..M /\ board[1] = s[1] /\ s[1] \in R /\ board # <<>>
    BY <1>3, <1>7, <1>8, <2>1, <2>2 DEF BestRuns
  <2>4. \A r \in R : r.score <= s[1].score
    <3> SUFFICES ASSUME NEW r \in R PROVE r.score <= s[1].score
      OBVIOUS
    <3>1. PICK i \in 1..N : s[i].score >= r.score
      BY <1>3 DEF BestRuns
    <3>2. s[i] \in R /\ (1 < i => s[1].score >= s[i].score)
      BY <1>3, <2>1 DEF BestRuns
    <3> QED
      BY <1>8, <2>3, <3>1, <3>2
  <2>5. records[mode].score <= s[1].score /\ s[1].score <= records[mode].score
    BY <1>4, <1>10, <2>3, <2>4
  <2> QED
    BY <1>4, <1>8, <1>10, <2>3, <2>5
<1> QED
  BY <1>9, <1>10

-----------------------------------------------------------------------------
(* The worlds of a request *)

Worlds == [now : Nat, rows : SUBSET ScoreRow, banned : SUBSET Players]

\* Every world of the request could be, and time does not run back.
MomentsOK ==
  /\ world \in Worlds
  /\ past \in Seq(Worlds)
  /\ \A i \in DOMAIN Moments : WorldOK(Moments[i])
  /\ \A i, j \in DOMAIN Moments : i <= j => Moments[i].now <= Moments[j].now

\* The last moment, the present.
Now == Len(past) + 1

\* A sequence with one more entry.
LEMMA AppendIs ==
  ASSUME NEW W, NEW p \in Seq(W), NEW w \in W
  PROVE  /\ Len(p) \in Nat
         /\ Append(p, w) \in Seq(W)
         /\ Len(Append(p, w)) = Len(p) + 1
         /\ DOMAIN Append(p, w) = 1..(Len(p) + 1)
         /\ Append(p, w)[Len(p) + 1] = w
         /\ \A i \in 1..Len(p) : Append(p, w)[i] = p[i]
BY AppendProperties, LenProperties

\* The moments of a request are numbered, and the last is the present.
LEMMA MomentsAre ==
  ASSUME MomentsOK
  PROVE  /\ DOMAIN Moments = 1..Now
         /\ Now \in Nat \ {0}
         /\ Moments[Now] = world
         /\ Now \in DOMAIN Moments
         /\ WorldOK(world)
         /\ \A i \in DOMAIN Moments : i <= Now
<1>1. past \in Seq(Worlds) /\ world \in Worlds
  BY DEF MomentsOK
<1>2. /\ Len(past) \in Nat
      /\ DOMAIN Moments = 1..Now
      /\ Moments[Now] = world
  BY <1>1, AppendIs DEF Moments, Now
<1>3. Now \in Nat \ {0} /\ Now \in 1..Now /\ \A i \in 1..Now : i <= Now
  BY <1>2 DEF Now
<1> QED
  BY <1>2, <1>3 DEF MomentsOK

\* When the world moves on, the request has been through one more.
LEMMA MomentsGrow ==
  ASSUME MomentsOK, WorldMoves
  PROVE  /\ MomentsOK'
         /\ DOMAIN Moments \subseteq DOMAIN Moments'
         /\ \A i \in DOMAIN Moments : Moments'[i] = Moments[i]
<1>1. /\ world' \in Successors(world)
      /\ past' = Append(past, world)
      /\ past \in Seq(Worlds)
      /\ world \in Worlds
  BY DEF WorldMoves, MomentsOK
<1>2. WorldOK(world') /\ world.now <= world'.now
  BY <1>1, MomentsAre, SuccessorsOK
<1>3. world' \in Worlds
  BY <1>2 DEF WorldOK, Worlds
<1>4. past' = Moments
  BY <1>1 DEF Moments
<1>5. Moments \in Seq(Worlds) /\ Len(Moments) = Now /\ DOMAIN Moments = 1..Now /\ Now \in Nat
  BY <1>1, AppendIs, MomentsAre DEF Moments, Now
<1>6. Moments' = Append(Moments, world')
  BY <1>4 DEF Moments
<1>7. /\ DOMAIN Moments' = 1..(Now + 1)
      /\ Moments'[Now + 1] = world'
      /\ \A i \in 1..Now : Moments'[i] = Moments[i]
  BY <1>3, <1>5, <1>6, AppendIs
<1>8. \A i \in 1..Now : WorldOK(Moments[i]) /\ Moments[i].now <= world'.now
  <2> SUFFICES ASSUME NEW i \in 1..Now
               PROVE  WorldOK(Moments[i]) /\ Moments[i].now <= world'.now
    OBVIOUS
  <2>1. WorldOK(Moments[i]) /\ WorldOK(world) /\ Moments[i].now <= world.now
    BY <1>5, MomentsAre DEF MomentsOK
  <2> QED
    BY <1>2, <2>1 DEF WorldOK
<1>9. \A i \in DOMAIN Moments' : i \in 1..Now \/ i = Now + 1
  BY <1>5, <1>7
<1>10. \A i \in DOMAIN Moments' : WorldOK(Moments'[i])
  BY <1>2, <1>7, <1>8, <1>9
<1>11. \A i, j \in DOMAIN Moments' : i <= j => Moments'[i].now <= Moments'[j].now
  <2> SUFFICES ASSUME NEW i \in DOMAIN Moments', NEW j \in DOMAIN Moments', i <= j
               PROVE  Moments'[i].now <= Moments'[j].now
    OBVIOUS
  <2>1. CASE j \in 1..Now
    <3>1. i \in 1..Now
      BY <1>5, <1>9, <2>1
    <3> QED
      BY <1>5, <1>7, <2>1, <3>1 DEF MomentsOK
  <2>2. CASE j = Now + 1
    <3>1. Moments'[i].now <= world'.now
      BY <1>2, <1>7, <1>8, <1>9 DEF WorldOK
    <3> QED
      BY <1>7, <2>2, <3>1
  <2> QED
    BY <1>9, <2>1, <2>2
<1>12. MomentsOK'
  BY <1>3, <1>4, <1>5, <1>10, <1>11 DEF MomentsOK
<1> QED
  BY <1>5, <1>7, <1>12

-----------------------------------------------------------------------------
(* The invariant *)

\* A handler's result so far was true at a moment of the request.
SoFar ==
  /\ page.kind = "leaderboard" /\ step \in {"idle", "clock", "query"} => body = <<>>
  /\ page.kind = "halloffame" /\ step = "query" =>
       \E i \in DOMAIN Moments : body = Month(Moments[i].now)
  /\ page.kind = "worldrecords" /\ step = "clock" =>
       \E i \in DOMAIN Moments : AreRecords(body.allTime, Moments[i], AllTime)
  /\ page.kind = "worldrecords" /\ step = "monthly" =>
       \E i, j \in DOMAIN Moments :
         /\ i <= j
         /\ body.month = Month(Moments[j].now)
         /\ AreRecords(body.allTime, Moments[i], AllTime)
  /\ page.kind = "activity" /\ step = "clock" =>
       \E i \in DOMAIN Moments : body = GetMedalActivity(Moments[i])

BoardsIInv == BoardsTypeOK /\ MomentsOK /\ SoFar

\* A request finds a table, a clock and bans as they may be, and nothing done.
LEMMA InitInv == BoardsInit => BoardsIInv
<1> SUFFICES ASSUME BoardsInit PROVE BoardsIInv
  OBVIOUS
<1>1. /\ world \in [now : StartTimes, rows : StartTables, banned : StartBans]
      /\ \A r \in world.rows : r.at <= world.now
      /\ page \in Pages
      /\ step = "idle"
      /\ body = <<>>
      /\ past = <<>>
  BY DEF BoardsInit
<1>2. /\ world.now \in Nat
      /\ world.rows \in SUBSET ScoreRow
      /\ IsFiniteSet(world.rows)
      /\ world.banned \in SUBSET Players
  BY <1>1, BoardsAssumption
<1>3. world \in Worlds
  BY <1>1, <1>2 DEF Worlds
<1>4. WorldOK(world)
  BY <1>1, <1>2, <1>3 DEF WorldOK, Worlds
<1>5. past \in Seq(Worlds) /\ Len(past) = 0
  BY <1>1
<1>6. DOMAIN Moments = 1..1 /\ Moments[1] = world
  BY <1>3, <1>5, AppendIs DEF Moments
<1>7. MomentsOK
  BY <1>3, <1>4, <1>5, <1>6 DEF MomentsOK, WorldOK
<1>8. BoardsTypeOK
  BY <1>1, <1>2, <1>5, BoardsAssumption DEF BoardsTypeOK, ReadSteps
<1>9. SoFar
  BY <1>1 DEF SoFar
<1> QED
  BY <1>7, <1>8, <1>9 DEF BoardsIInv

\* A step of the handler: to where it goes, with the world as it was.
LEMMA HandlerSteps ==
  ASSUME BoardsIInv, BoardsNext, ~ WorldMoves
  PROVE  /\ UNCHANGED <<world, page, past>>
         /\ step \in ReadSteps
         /\ step' \in ReadSteps \cup Answers
         /\ Moments' = Moments
         /\ MomentsOK'
<1>1. /\ UNCHANGED <<world, page, past>>
      /\ step \in ReadSteps
      /\ step' \in ReadSteps \cup Answers
  <2>1. CASE RefuseRead
    BY <2>1 DEF RefuseRead, ReadGoes, ReadSteps, Answers
  <2>2. CASE AcceptRead
    BY <2>2 DEF AcceptRead, ReadGoes, ReadSteps, Answers
  <2>3. CASE FailRead
    BY <2>3 DEF FailRead, ReadGoes, ReadSteps, Answers
  <2>4. CASE CheckMonth
    BY <2>4 DEF CheckMonth, ReadGoes, ReadSteps, Answers
  <2>5. CASE QueryLeaderboard
    BY <2>5 DEF QueryLeaderboard, ReadGoes, ReadSteps, Answers
  <2>6. CASE ReadCurrentMonth
    BY <2>6 DEF ReadCurrentMonth, ReadGoes, ReadSteps, Answers
  <2>7. CASE QueryHallOfFame
    BY <2>7 DEF QueryHallOfFame, ReadGoes, ReadSteps, Answers
  <2>8. CASE QueryAllTimeRecords
    BY <2>8 DEF QueryAllTimeRecords, ReadGoes, ReadSteps, Answers
  <2>9. CASE ReadRecordMonth
    BY <2>9 DEF ReadRecordMonth, ReadGoes, ReadSteps, Answers
  <2>10. CASE QueryMonthlyRecords
    BY <2>10 DEF QueryMonthlyRecords, ReadGoes, ReadSteps, Answers
  <2>11. CASE QueryPlayer
    BY <2>11 DEF QueryPlayer, ReadGoes, ReadSteps, Answers
  <2>12. CASE QueryActivity
    BY <2>12 DEF QueryActivity, ReadGoes, ReadSteps, Answers
  <2>13. CASE FillActivity
    BY <2>13 DEF FillActivity, ReadGoes, ReadSteps, Answers
  <2> QED
    BY <2>1, <2>2, <2>3, <2>4, <2>5, <2>6, <2>7, <2>8, <2>9, <2>10, <2>11, <2>12, <2>13
       DEF BoardsNext
<1>2. Moments' = Moments
  BY <1>1 DEF Moments
<1>3. MomentsOK'
  BY <1>1, <1>2 DEF MomentsOK, BoardsIInv
<1> QED
  BY <1>1, <1>2, <1>3

\* GetWorldRecords finds the records of a month, or of all time.
LEMMA RecordsAt ==
  ASSUME NEW w, WorldOK(w), NEW month \in Nat \cup {AllTime},
         NEW records \in GetWorldRecords(w, Start(month), End(month, w))
  PROVE  AreRecords(records, w, month)
<1> DEFINE rows(m) == {r \in w.rows : Counts(w, r, {m}) /\ During(r, month)}
<1> SUFFICES ASSUME NEW m \in BoardModes
             PROVE  IF rows(m) = {} THEN m \notin DOMAIN records
                    ELSE /\ m \in DOMAIN records
                         /\ records[m] \in rows(m)
                         /\ \A r \in rows(m) : r.score <= records[m].score
  BY DEF AreRecords
<1> DEFINE R == Ranked(w, {m}, Start(month), End(month, w))
<1>1. R = rows(m)
  BY RankedIs
<1>2. IF R = {} THEN m \notin DOMAIN records
      ELSE /\ m \in DOMAIN records
           /\ records[m] \in R
           /\ \A r \in R : r.score <= records[m].score
  BY RecordsAre
<1> HIDE DEF R, rows
<1> QED
  BY <1>1, <1>2

\* The clock of every moment is in a month.
LEMMA MonthOfMoment ==
  ASSUME MomentsOK, NEW i \in DOMAIN Moments
  PROVE  Moments[i].now \in Nat /\ Month(Moments[i].now) \in Nat
<1>1. Moments[i].now \in Nat
  BY DEF MomentsOK, WorldOK
<1>2. MonthLength \in Nat \ {0}
  BY BoardsAssumption
<1> QED
  BY <1>1, <1>2 DEF Month

\* A step of the handler keeps a result that was true, or makes one of the
\* present.
LEMMA SoFarKept ==
  ASSUME BoardsIInv, BoardsNext, ~ WorldMoves
  PROVE  SoFar'
<1>1. /\ page' = page
      /\ world' = world
      /\ Moments' = Moments
      /\ MomentsOK
      /\ SoFar
  BY HandlerSteps DEF BoardsIInv
<1>2. WorldOK(world) /\ Now \in DOMAIN Moments /\ Moments[Now] = world
  BY <1>1, MomentsAre
<1>3. CASE RefuseRead
  BY <1>3 DEF RefuseRead, ReadGoes, SoFar
<1>4. CASE AcceptRead
  BY <1>1, <1>4 DEF AcceptRead, ReadGoes, SoFar
<1>5. CASE FailRead
  BY <1>5 DEF FailRead, ReadGoes, SoFar
<1>6. CASE CheckMonth
  BY <1>1, <1>6 DEF CheckMonth, ReadGoes, SoFar
<1>7. CASE QueryLeaderboard
  BY <1>7 DEF QueryLeaderboard, ReadGoes, SoFar
<1>8. CASE ReadCurrentMonth
  <2>1. page.kind = "halloffame" /\ step' = "query" /\ body' = Month(Moments'[Now].now)
    BY <1>1, <1>2, <1>8 DEF ReadCurrentMonth, ReadGoes
  <2> QED
    BY <1>1, <1>2, <2>1 DEF SoFar
<1>9. CASE QueryHallOfFame
  BY <1>9 DEF QueryHallOfFame, ReadGoes, SoFar
<1>10. CASE QueryAllTimeRecords
  <2>1. /\ page.kind = "worldrecords"
        /\ step' = "clock"
        /\ \E records \in GetWorldRecords(world, Start(AllTime), End(AllTime, world)) :
             body' = [allTime |-> records]
    BY <1>10 DEF QueryAllTimeRecords, ReadGoes
  <2>2. AreRecords(body'.allTime, world, AllTime)
    <3>1. PICK records \in GetWorldRecords(world, Start(AllTime), End(AllTime, world)) :
            body' = [allTime |-> records]
      BY <2>1
    <3>2. AllTime \in Nat \cup {AllTime} /\ body'.allTime = records
      BY <3>1
    <3>3. AreRecords(records, world, AllTime)
      BY <1>2, <3>1, <3>2, RecordsAt
    <3> QED
      BY <3>2, <3>3
  <2>3. \E i \in DOMAIN Moments' : AreRecords(body'.allTime, Moments'[i], AllTime)
    BY <1>1, <1>2, <2>2
  <2> QED
    BY <1>1, <2>1, <2>3 DEF SoFar
<1>11. CASE ReadRecordMonth
  <2>1. /\ page.kind = "worldrecords"
        /\ step = "clock" /\ step' = "monthly"
        /\ body' = [allTime |-> body.allTime, month |-> Month(world.now)]
    BY <1>11 DEF ReadRecordMonth, ReadGoes
  <2>2. PICK i \in DOMAIN Moments : AreRecords(body.allTime, Moments[i], AllTime)
    BY <1>1, <2>1 DEF SoFar
  <2>3. i <= Now
    BY <1>1, MomentsAre
  <2>4. body'.month = Month(Moments'[Now].now) /\ body'.allTime = body.allTime
    BY <1>1, <1>2, <2>1
  <2>5. \E j, k \in DOMAIN Moments' :
          /\ j <= k
          /\ body'.month = Month(Moments'[k].now)
          /\ AreRecords(body'.allTime, Moments'[j], AllTime)
    BY <1>1, <1>2, <2>2, <2>3, <2>4
  <2> QED
    BY <1>1, <2>1, <2>5 DEF SoFar
<1>12. CASE QueryMonthlyRecords
  BY <1>12 DEF QueryMonthlyRecords, ReadGoes, SoFar
<1>13. CASE QueryPlayer
  BY <1>13 DEF QueryPlayer, ReadGoes, SoFar
<1>14. CASE QueryActivity
  <2>1. page.kind = "activity" /\ step' = "clock" /\ body' = GetMedalActivity(world)
    BY <1>14 DEF QueryActivity, ReadGoes
  <2>2. body' = GetMedalActivity(Moments'[Now]) /\ Now \in DOMAIN Moments'
    BY <1>1, <1>2, <2>1
  <2> QED
    BY <1>1, <2>1, <2>2 DEF SoFar
<1>15. CASE FillActivity
  BY <1>15 DEF FillActivity, ReadGoes, SoFar
<1> QED
  BY <1>3, <1>4, <1>5, <1>6, <1>7, <1>8, <1>9, <1>10, <1>11, <1>12, <1>13, <1>14, <1>15
     DEF BoardsNext

\* What was true at a moment stays so when the world moves on.
LEMMA SoFarMoves ==
  ASSUME BoardsIInv, WorldMoves
  PROVE  SoFar'
<1>1. /\ page' = page
      /\ step' = step
      /\ body' = body
      /\ SoFar
      /\ DOMAIN Moments \subseteq DOMAIN Moments'
      /\ \A i \in DOMAIN Moments : Moments'[i] = Moments[i]
  BY MomentsGrow DEF WorldMoves, BoardsIInv
<1>2. (page.kind = "leaderboard" /\ step \in {"idle", "clock", "query"} => body = <<>>)'
  BY <1>1 DEF SoFar
<1>3. (page.kind = "halloffame" /\ step = "query" =>
         \E i \in DOMAIN Moments : body = Month(Moments[i].now))'
  BY <1>1 DEF SoFar
<1>4. (page.kind = "worldrecords" /\ step = "clock" =>
         \E i \in DOMAIN Moments : AreRecords(body.allTime, Moments[i], AllTime))'
  BY <1>1 DEF SoFar
<1>5. (page.kind = "worldrecords" /\ step = "monthly" =>
         \E i, j \in DOMAIN Moments :
           /\ i <= j
           /\ body.month = Month(Moments[j].now)
           /\ AreRecords(body.allTime, Moments[i], AllTime))'
  BY <1>1 DEF SoFar
<1>6. (page.kind = "activity" /\ step = "clock" =>
         \E i \in DOMAIN Moments : body = GetMedalActivity(Moments[i]))'
  BY <1>1 DEF SoFar
<1> QED
  BY <1>2, <1>3, <1>4, <1>5, <1>6 DEF SoFar

\* Every step keeps the invariant.
LEMMA NextInv == BoardsIInv /\ [BoardsNext]_boardVars => BoardsIInv'
<1> SUFFICES ASSUME BoardsIInv, [BoardsNext]_boardVars PROVE BoardsIInv'
  OBVIOUS
<1>1. CASE WorldMoves
  <2>1. MomentsOK' /\ MomentsOK
    BY <1>1, MomentsGrow DEF BoardsIInv
  <2>2. WorldOK(world)'
    <3>1. world' \in Successors(world)
      BY <1>1 DEF WorldMoves
    <3> QED
      BY <2>1, <3>1, MomentsAre, SuccessorsOK DEF BoardsIInv
  <2>3. past \in Seq(Worlds) /\ world \in Worlds /\ Len(past) <= MaxPast /\ MaxPast \in Nat
    BY <2>1, BoardsAssumption DEF MomentsOK, BoardsIInv, BoardsTypeOK
  <2>4. Len(past') <= MaxPast
    <3>1. Len(past) < MaxPast /\ past' = Append(past, world)
      BY <1>1 DEF WorldMoves
    <3> QED
      BY <2>3, <3>1, AppendIs
  <2>5. BoardsTypeOK'
    BY <1>1, <2>2, <2>4 DEF WorldMoves, BoardsTypeOK, BoardsIInv, WorldOK
  <2> QED
    BY <1>1, <2>1, <2>5, SoFarMoves DEF BoardsIInv
<1>2. CASE BoardsNext /\ ~ WorldMoves
  <2>1. BoardsTypeOK'
    BY <1>2, HandlerSteps DEF BoardsTypeOK, BoardsIInv
  <2> QED
    BY <1>2, <2>1, HandlerSteps, SoFarKept DEF BoardsIInv
<1>3. CASE UNCHANGED boardVars
  <2>1. Moments' = Moments
    BY <1>3 DEF boardVars, Moments
  <2> QED
    BY <1>3, <2>1 DEF boardVars, BoardsIInv, BoardsTypeOK, MomentsOK, SoFar
<1> QED
  BY <1>1, <1>2, <1>3

\* Rows, clock and bans are as they may be at every moment of a request, time
\* does not run back, and what a handler holds between two of its steps was
\* true at a moment before.
THEOREM InvHolds == BoardsSpec => []BoardsIInv
<1> QED
  BY InitInv, NextInv, PTL DEF BoardsSpec

\* The clock, the tables, the bans, the page asked for and the step of its
\* handler stay what they may be, and no row is stored ahead of the clock.
THEOREM BoardsTypeCorrect == BoardsSpec => []BoardsTypeOK
<1>1. BoardsIInv => BoardsTypeOK
  BY DEF BoardsIInv
<1> QED
  BY <1>1, InvHolds, PTL

-----------------------------------------------------------------------------
(* The answers *)

\* Which step answers a request, and that the world is as it was.
LEMMA AnsweredBy ==
  ASSUME BoardsIInv, BoardsNext, step' \in {"200", "404"}
  PROVE  /\ page' = page
         /\ Moments' = Moments
         /\ Now \in DOMAIN Moments /\ Moments[Now] = world /\ WorldOK(world)
         /\ \/ page.kind = "leaderboard" /\ (CheckMonth \/ QueryLeaderboard)
            \/ page.kind = "halloffame" /\ QueryHallOfFame
            \/ page.kind = "worldrecords" /\ QueryMonthlyRecords
            \/ page.kind = "player" /\ (QueryPlayer \/ ~ page.signed)
            \/ page.kind = "activity" /\ FillActivity
<1>1. ~ WorldMoves
  BY DEF WorldMoves
<1>2. page' = page /\ Moments' = Moments
  BY <1>1, HandlerSteps
<1>3. Now \in DOMAIN Moments /\ Moments[Now] = world /\ WorldOK(world)
  BY MomentsAre DEF BoardsIInv
<1>4. ~ AcceptRead /\ ~ FailRead /\ ~ ReadCurrentMonth
  BY DEF AcceptRead, FailRead, ReadCurrentMonth, ReadGoes
<1>5. ~ QueryAllTimeRecords /\ ~ ReadRecordMonth /\ ~ QueryActivity
  BY DEF QueryAllTimeRecords, ReadRecordMonth, QueryActivity, ReadGoes
<1>6. RefuseRead => page.kind = "player" /\ ~ page.signed
  BY DEF RefuseRead, ReadGoes, Unsigned
<1>7. /\ CheckMonth \/ QueryLeaderboard => page.kind = "leaderboard"
      /\ QueryHallOfFame => page.kind = "halloffame"
      /\ QueryMonthlyRecords => page.kind = "worldrecords"
      /\ QueryPlayer => page.kind = "player"
      /\ FillActivity => page.kind = "activity"
  BY DEF CheckMonth, QueryLeaderboard, QueryHallOfFame, QueryMonthlyRecords, QueryPlayer,
         FillActivity, ReadGoes
<1> QED
  BY <1>1, <1>2, <1>3, <1>4, <1>5, <1>6, <1>7 DEF BoardsNext

\* The step that answers with world records makes RecordsRight true.
LEMMA RecordsAnswered == BoardsIInv /\ BoardsNext => RecordsRight'
<1> SUFFICES ASSUME BoardsIInv, BoardsNext, page'.kind = "worldrecords", step' = "200"
             PROVE  (\E i, j, k \in DOMAIN Moments :
                       /\ i <= j /\ j <= k
                       /\ body.month = Month(Moments[j].now)
                       /\ AreRecords(body.allTime, Moments[i], AllTime)
                       /\ AreRecords(body.monthly, Moments[k], body.month))'
  BY DEF RecordsRight, Answered
<1>1. /\ page' = page
      /\ Moments' = Moments
      /\ Now \in DOMAIN Moments /\ Moments[Now] = world /\ WorldOK(world)
      /\ QueryMonthlyRecords
  BY AnsweredBy
<1>2. page.kind = "worldrecords" /\ step = "monthly"
  BY <1>1 DEF QueryMonthlyRecords, ReadGoes
<1>3. PICK i \in DOMAIN Moments, j \in DOMAIN Moments :
        /\ i <= j
        /\ body.month = Month(Moments[j].now)
        /\ AreRecords(body.allTime, Moments[i], AllTime)
  BY <1>2 DEF BoardsIInv, SoFar
<1>4. j <= Now /\ body.month \in Nat
  BY <1>3, MomentsAre, MonthOfMoment DEF BoardsIInv
<1>5. PICK records \in GetWorldRecords(world, Start(body.month), End(body.month, world)) :
        body' = [allTime |-> body.allTime, month |-> body.month, monthly |-> records]
  BY <1>1 DEF QueryMonthlyRecords
<1>6. AreRecords(records, world, body.month)
  BY <1>1, <1>4, <1>5, RecordsAt
<1>7. body'.allTime = body.allTime /\ body'.month = body.month /\ body'.monthly = records
  BY <1>5
<1> QED
  BY <1>1, <1>3, <1>4, <1>6, <1>7

\* World records are right at a moment each, and the monthly ones at a later
\* one than the all-time ones, for the month it was in between, although the
\* handler sends two statements and reads the clock between them.
THEOREM RecordsTrue == BoardsSpec => []RecordsRight
<1>1. BoardsInit => RecordsRight
  BY DEF BoardsInit, RecordsRight, Answered
<1>2. BoardsIInv /\ RecordsRight /\ [BoardsNext]_boardVars => RecordsRight'
  <2>1. RecordsRight /\ UNCHANGED boardVars => RecordsRight'
    BY DEF boardVars, RecordsRight, Answered, Moments
  <2> QED
    BY <2>1, RecordsAnswered
<1> QED
  BY <1>1, <1>2, InvHolds, PTL DEF BoardsSpec

-----------------------------------------------------------------------------
(* The player page *)

\* The player's author and gold runs, and those the player page keeps back.
OwnRuns(w, p) == {r \in w.rows : r.player = p /\ r.mode \in BoardModes}
Withheld(w, p) == {r \in OwnRuns(w, p) : p \in w.banned \/ r.score = 0}

\* The rows the player page is about.
RunsOf(w, p) == OwnRuns(w, p) \ Withheld(w, p)

\* GetPlayerDetail lists the player's rows that count, newest first.
LEMMA PlayerDetailIs ==
  ASSUME NEW w, WorldOK(w), NEW p, NEW s \in GetPlayerDetail(w, p)
  PROVE  /\ {s[k] : k \in DOMAIN s} = RunsOf(w, p)
         /\ Len(s) = Cardinality(RunsOf(w, p))
         /\ \A j, k \in DOMAIN s : j < k => s[j].at >= s[k].at
         /\ s = <<>> <=> RunsOf(w, p) = {}
<1> DEFINE S == RunsOf(w, p)
<1>1. S = {r \in Ranked(w, BoardModes, 0, w.now + 1) : r.player = p}
  <2>1. Ranked(w, BoardModes, 0, w.now + 1)
          = {r \in w.rows : Counts(w, r, BoardModes) /\ During(r, AllTime)}
    BY RankedIs DEF Start, End
  <2>2. \A r \in w.rows : r.score \in Nat
    BY DEF WorldOK, ScoreRow
  <2> QED
    BY <2>1, <2>2 DEF RunsOf, OwnRuns, Withheld, Counts, During
<1>2. /\ s \in [1..Cardinality(S) -> S]
      /\ \A i, j \in DOMAIN s : i < j => s[i] # s[j] /\ ~ (s[j].at > s[i].at)
  BY <1>1 DEF GetPlayerDetail, OrderBy
<1>3. IsFiniteSet(S) /\ \A r \in S : r.at \in Nat
  BY FS_Subset DEF RunsOf, OwnRuns, WorldOK, ScoreRow
<1> HIDE DEF S
<1>4. \A i, j \in DOMAIN s : i < j => s[i] # s[j]
  BY <1>2
<1>5. Lists(s, S)
  BY <1>2, <1>3, <1>4, Enumeration
<1> DEFINE N == Cardinality(S)
<1>6. /\ N \in Nat
      /\ s \in [1..N -> S]
      /\ \A x \in S : \E i \in 1..N : s[i] = x
  BY <1>5 DEF Lists
<1> HIDE DEF N
<1>7. Len(s) = N
  BY <1>6
<1>8. {s[k] : k \in DOMAIN s} = S
  BY <1>6
<1>9. \A j, k \in DOMAIN s : j < k => s[j].at >= s[k].at
  BY <1>2, <1>3, <1>6
<1>10. s = <<>> <=> S = {}
  <2>1. s = <<>> => S = {}
    BY <1>8
  <2>2. S = {} => N = 0
    BY <1>6
  <2>3. N = 0 => s = <<>>
    BY <1>6
  <2> QED
    BY <2>1, <2>2, <2>3
<1> QED
  BY <1>7, <1>8, <1>9, <1>10 DEF N, S

\* What PlayerRight says of one moment.
RunsRight(b, status, w, p) ==
  /\ {b[k] : k \in DOMAIN b} = RunsOf(w, p)
  /\ Len(b) = Cardinality(RunsOf(w, p))
  /\ \A j, k \in DOMAIN b : j < k => b[j].at >= b[k].at
  /\ status = "404" <=> OwnRuns(w, p) = Withheld(w, p)

\* The step that answers for a player makes PlayerRight true.
LEMMA PlayerAnswered == BoardsIInv /\ BoardsNext => PlayerRight'
<1> SUFFICES ASSUME BoardsIInv, BoardsNext, page'.kind = "player", step' \in {"200", "404"},
                    page'.signed
             PROVE  \E i \in DOMAIN Moments' : RunsRight(body', step', Moments'[i], page'.player)
  BY DEF PlayerRight, OwnRuns, Withheld, RunsOf, RunsRight
<1>1. /\ page' = page
      /\ Moments' = Moments
      /\ Now \in DOMAIN Moments /\ Moments[Now] = world /\ WorldOK(world)
      /\ QueryPlayer
  BY AnsweredBy
<1>2. /\ body' \in GetPlayerDetail(world, page.player)
      /\ step' = IF body' = <<>> THEN "404" ELSE "200"
  BY <1>1 DEF QueryPlayer, ReadGoes
<1>3. /\ {body'[k] : k \in DOMAIN body'} = RunsOf(world, page.player)
      /\ Len(body') = Cardinality(RunsOf(world, page.player))
      /\ \A j, k \in DOMAIN body' : j < k => body'[j].at >= body'[k].at
      /\ body' = <<>> <=> RunsOf(world, page.player) = {}
  BY <1>1, <1>2, PlayerDetailIs
<1>4. RunsOf(world, page.player) = {}
        <=> OwnRuns(world, page.player) = Withheld(world, page.player)
  BY DEF RunsOf, Withheld
<1> QED
  BY <1>1, <1>2, <1>3, <1>4 DEF RunsRight

\* A player page withholds the runs of a banned player and those without a score,
\* shows all others once, newest first, and is a 404 exactly if that leaves
\* nothing, at one moment of the request.
THEOREM PlayerTrue == BoardsSpec => []PlayerRight
<1>1. BoardsInit => PlayerRight
  BY DEF BoardsInit, PlayerRight
<1>2. BoardsIInv /\ PlayerRight /\ [BoardsNext]_boardVars => PlayerRight'
  <2>1. ASSUME PlayerRight, UNCHANGED boardVars PROVE PlayerRight'
    <3>1. page' = page /\ step' = step /\ body' = body /\ Moments' = Moments
      BY <2>1 DEF boardVars, Moments
    <3> SUFFICES ASSUME page'.kind = "player", step' \in {"200", "404"}, page'.signed
                 PROVE  \E i \in DOMAIN Moments' : RunsRight(body', step', Moments'[i], page'.player)
      BY DEF PlayerRight, OwnRuns, Withheld, RunsOf, RunsRight
    <3>2. PICK i \in DOMAIN Moments : RunsRight(body, step, Moments[i], page.player)
      BY <2>1, <3>1 DEF PlayerRight, OwnRuns, Withheld, RunsOf, RunsRight
    <3> QED
      BY <3>1, <3>2
  <2> QED
    BY <2>1, PlayerAnswered
<1> QED
  BY <1>1, <1>2, InvHolds, PTL DEF BoardsSpec

-----------------------------------------------------------------------------
(* The leaderboard *)

\* Later instants are not in earlier months.
LEMMA MonthMonotone ==
  ASSUME NEW s \in Nat, NEW t \in Nat, s <= t
  PROVE  Month(s) <= Month(t)
<1>1. MonthLength \in Nat \ {0}
  BY BoardsAssumption
<1> QED
  BY <1>1 DEF Month

\* What LeaderboardRight says of one moment.
BoardRight(b, w, modes, month) ==
  LET On(r) == Counts(w, r, modes) /\ During(r, month)
  IN  /\ \A k \in DOMAIN b : On(b[k])
      /\ \A j, k \in DOMAIN b : j < k => b[j].score >= b[k].score /\ b[j].player # b[k].player
      /\ \A r \in w.rows : On(r) =>
           \/ \E k \in DOMAIN b : b[k].player = r.player /\ b[k].score >= r.score
           \/ Len(b) = BoardLimit /\ b[BoardLimit].score >= r.score

\* GetLeaderboard returns the right board of a month, or of all time.
LEMMA LeaderboardAt ==
  ASSUME NEW w, WorldOK(w), NEW modes, NEW month \in Nat \cup {AllTime},
         NEW b \in GetLeaderboard(w, modes, Start(month), End(month, w))
  PROVE  BoardRight(b, w, modes, month)
<1> DEFINE R == Ranked(w, modes, Start(month), End(month, w))
           On(r) == Counts(w, r, modes) /\ During(r, month)
           M(n) == AtMost(BoardLimit, n)
<1>1. R = {r \in w.rows : On(r)}
  BY RankedIs
<1>2. R \in SUBSET ScoreRow
  BY RankedFinite
<1>3. PICK N \in Nat : \E s : BestRuns(s, N, R) /\ b = Limit(s, BoardLimit)
  BY LeaderboardIs
<1>4. PICK s : BestRuns(s, N, R) /\ b = Limit(s, BoardLimit)
  BY <1>3
<1> HIDE DEF R
<1>5. M(N) \in 0..N /\ Cuts(b, M(N), s, R)
  BY <1>2, <1>4, BoardIs
<1>6. /\ b \in [1..M(N) -> R]
      /\ Len(b) = M(N)
      /\ \A k \in 1..M(N) : k \in 1..N /\ b[k] = s[k]
  BY <1>5 DEF Cuts
<1>7. BoardLimit \in Nat \ {0} /\ (M(N) = N \/ (M(N) = BoardLimit /\ BoardLimit < N))
  BY BoardsAssumption DEF AtMost
<1>8. \A k \in DOMAIN b : On(b[k])
  BY <1>1, <1>6
<1>9. \A j, k \in DOMAIN b : j < k => b[j].score >= b[k].score /\ b[j].player # b[k].player
  BY <1>4, <1>6 DEF BestRuns
<1>10. ASSUME NEW r \in R
       PROVE  \/ \E k \in DOMAIN b : b[k].player = r.player /\ b[k].score >= r.score
              \/ Len(b) = BoardLimit /\ b[BoardLimit].score >= r.score
  <2>1. PICK i \in 1..N : s[i].player = r.player /\ s[i].score >= r.score
    BY <1>4 DEF BestRuns
  <2>2. CASE i \in 1..M(N)
    BY <1>6, <2>1, <2>2
  <2>3. CASE i \notin 1..M(N)
    <3>1. M(N) = BoardLimit /\ BoardLimit \in 1..N /\ BoardLimit < i
      BY <1>7, <2>1, <2>3
    <3>2. s[BoardLimit].score >= s[i].score
      BY <1>4, <2>1, <3>1 DEF BestRuns
    <3>3. s[BoardLimit].score \in Nat /\ s[i].score \in Nat /\ r.score \in Nat
      BY <1>2, <1>4, <2>1, <3>1 DEF BestRuns, ScoreRow
    <3>4. b[BoardLimit] = s[BoardLimit]
      BY <1>6, <1>7, <3>1
    <3> QED
      BY <1>6, <2>1, <3>1, <3>2, <3>3, <3>4
  <2> QED
    BY <2>2, <2>3
<1> QED
  BY <1>1, <1>8, <1>9, <1>10 DEF BoardRight

\* The step that answers with a leaderboard makes LeaderboardRight true, with
\* or without a query.
LEMMA LeaderboardAnswered == BoardsIInv /\ BoardsNext => LeaderboardRight'
<1> SUFFICES ASSUME BoardsIInv, BoardsNext, page'.kind = "leaderboard", step' = "200",
                    page'.month # AllTime => page'.month >= EarliestMonth
             PROVE  \E i \in DOMAIN Moments' :
                      BoardRight(body', Moments'[i], page'.modes, page'.month)
  BY DEF LeaderboardRight, Answered, BoardRight
<1>1. /\ page' = page
      /\ Moments' = Moments
      /\ Now \in DOMAIN Moments /\ Moments[Now] = world /\ WorldOK(world)
      /\ CheckMonth \/ QueryLeaderboard
  BY AnsweredBy
<1>2. page.month \in Nat \cup {AllTime}
  BY <1>1, BoardsAssumption DEF BoardsIInv, BoardsTypeOK, Pages
<1>3. BoardRight(body', world, page.modes, page.month)
  <2>1. CASE QueryLeaderboard
    <3>1. body' \in GetLeaderboard(world, page.modes, Start(page.month), End(page.month, world))
      BY <2>1 DEF QueryLeaderboard
    <3> QED
      BY <1>1, <1>2, <3>1, LeaderboardAt
  <2>2. CASE CheckMonth
    <3>1. /\ page.month \in Nat
          /\ page.month > Month(world.now)
          /\ step = "clock"
          /\ body' = body
      BY <1>1, <1>2, <2>2, BoardsAssumption DEF CheckMonth, ReadGoes
    <3>2. body' = <<>>
      BY <1>1, <3>1 DEF BoardsIInv, SoFar
    <3>3. \A r \in world.rows : ~ During(r, page.month)
      <4> SUFFICES ASSUME NEW r \in world.rows PROVE ~ During(r, page.month)
        OBVIOUS
      <4>1. r.at \in Nat /\ world.now \in Nat /\ r.at <= world.now
        BY <1>1 DEF WorldOK, ScoreRow
      <4>2. Month(r.at) <= Month(world.now) /\ Month(r.at) \in Int /\ Month(world.now) \in Int
        BY <4>1, MonthMonotone, BoardsAssumption DEF Month
      <4> QED
        BY <3>1, <4>2, BoardsAssumption DEF During
    <3> QED
      BY <3>2, <3>3 DEF BoardRight
  <2> QED
    BY <1>1, <2>1, <2>2
<1> QED
  BY <1>1, <1>3

\* A leaderboard is, at one moment of the request, the best players of the
\* month with their best run each, in order, and leaves out nobody who has a
\* better one, although the month is checked before the query is sent.
THEOREM LeaderboardTrue == BoardsSpec => []LeaderboardRight
<1>1. BoardsInit => LeaderboardRight
  BY DEF BoardsInit, LeaderboardRight, Answered
<1>2. BoardsIInv /\ LeaderboardRight /\ [BoardsNext]_boardVars => LeaderboardRight'
  <2>1. LeaderboardRight /\ UNCHANGED boardVars => LeaderboardRight'
    BY DEF boardVars, LeaderboardRight, Answered, Moments
  <2> QED
    BY <2>1, LeaderboardAnswered
<1> QED
  BY <1>1, <1>2, InvHolds, PTL DEF BoardsSpec

-----------------------------------------------------------------------------
(* The activity chart *)

MapsOf(rows) == MapThenSumSet(LAMBDA r : r.maps, rows)

\* The rows a day of the chart is about, and those the query is about.
DayRows(w, d) == {r \in w.rows : r.player \notin w.banned /\ Day(r.at) = d}
Recent(w) == {r \in w.rows : /\ r.player \notin w.banned
                             /\ r.at + ActivityDays * DayLength >= w.now}

\* A day without rows has no maps.
LEMMA NoMaps == MapsOf({}) = 0
<1> DEFINE F(it) == [s \in SUBSET {} |->
                       IF s = {} THEN 0
                       ELSE (CHOOSE x \in s : TRUE).maps + it[s \ {CHOOSE x \in s : TRUE}]]
<1>1. MapsOf({}) = (CHOOSE it : it = F(it))[{}]
  BY Zenon DEF MapsOf, MapThenSumSet, MapThenFoldSet
<1>2. \E it : it = F(it)
  <2>1. [s \in SUBSET {} |-> 0] = F([s \in SUBSET {} |-> 0])
    OBVIOUS
  <2> QED
    BY <2>1
<1>3. PICK it : it = F(it) /\ MapsOf({}) = it[{}]
  BY <1>1, <1>2
<1> QED
  BY <1>3

\* GetMedalActivity adds up the maps of every day with recent rows.
LEMMA ActivityIs ==
  ASSUME NEW w
  PROVE  GetMedalActivity(w)
           = [d \in {Day(r.at) : r \in Recent(w)} |-> MapsOf({r \in Recent(w) : Day(r.at) = d})]
BY Zenon DEF GetMedalActivity, Recent, MapsOf

\* The query's days go back as far as the chart's, whatever time has passed.
LEMMA RecentEnough ==
  ASSUME NEW w, WorldOK(w), NEW now \in Nat, w.now <= now, NEW n \in 1..ActivityDays
  PROVE  DayRows(w, Day(now) + n - ActivityDays)
           = {r \in Recent(w) : Day(r.at) = Day(now) + n - ActivityDays}
<1> SUFFICES ASSUME NEW r \in w.rows, Day(r.at) = Day(now) + n - ActivityDays
             PROVE  r.at + ActivityDays * DayLength >= w.now
  BY DEF DayRows, Recent
<1> DEFINE q == r.at \div DayLength
           k == now \div DayLength
           D == DayLength
           A == ActivityDays
<1>1. D \in Nat \ {0} /\ A \in Nat \ {0} /\ r.at \in Nat /\ w.now \in Nat
  BY BoardsAssumption DEF WorldOK, ScoreRow
<1>2. q \in Int /\ k \in Int /\ D * q <= r.at /\ now < D * (k + 1)
  BY <1>1
<1>3. q + A = k + n
  BY <1>1, <1>2 DEF Day
<1> HIDE DEF q, k, D, A
<1>4. D * (q + A) >= D * (k + 1)
  <2>1. q + A >= k + 1
    BY <1>1, <1>2, <1>3
  <2> QED
    BY <1>1, <1>2, <2>1
<1>5. D * (q + A) = D * q + A * D
  BY <1>1, <1>2
<1>6. D * (q + A) \in Int /\ D * (k + 1) \in Int /\ D * q \in Int /\ A * D \in Int
  BY <1>1, <1>2
<1>7. r.at + A * D >= w.now
  BY <1>1, <1>2, <1>4, <1>5, <1>6
<1> QED
  BY <1>7 DEF A, D

\* What ActivityRight says of two moments; the provers know of primes in it
\* once the sums have a name.
ChartRight(b, w, now) ==
  \A n \in 1..ActivityDays : b[n] = MapsOf(DayRows(w, Day(now) + n - ActivityDays))

ChartTrue ==
  Answered("activity") =>
    \E i, j \in DOMAIN Moments : i <= j /\ ChartRight(body, Moments[i], Moments[j].now)

\* Said of the sums by name, the chart is right.
LEMMA ChartIs == ChartTrue => ActivityRight
BY Zenon DEF ChartTrue, ChartRight, ActivityRight, MapsOf, DayRows

\* The step that answers with the activity makes the chart right.
LEMMA ActivityAnswered == BoardsIInv /\ BoardsNext => ChartTrue'
<1> SUFFICES ASSUME BoardsIInv, BoardsNext, page'.kind = "activity", step' = "200"
             PROVE  \E i, j \in DOMAIN Moments' :
                      i <= j /\ ChartRight(body', Moments'[i], Moments'[j].now)
  BY DEF ChartTrue, Answered, ChartRight
<1>1. /\ page' = page
      /\ Moments' = Moments
      /\ Now \in DOMAIN Moments /\ Moments[Now] = world /\ WorldOK(world)
      /\ FillActivity
  BY AnsweredBy
<1> DEFINE day(n) == Day(world.now) + n - ActivityDays
<1>2. /\ page.kind = "activity" /\ step = "clock"
      /\ body' = [n \in 1..ActivityDays |-> IF day(n) \in DOMAIN body THEN body[day(n)] ELSE 0]
  BY <1>1 DEF FillActivity, ReadGoes
<1>3. PICK i \in DOMAIN Moments : body = GetMedalActivity(Moments[i])
  BY <1>2 DEF BoardsIInv, SoFar
<1> DEFINE w == Moments[i]
<1>4. i <= Now /\ WorldOK(w) /\ w.now <= world.now /\ world.now \in Nat
  BY <1>1, MomentsAre DEF BoardsIInv, MomentsOK, WorldOK
<1>5. body = [d \in {Day(r.at) : r \in Recent(w)} |-> MapsOf({r \in Recent(w) : Day(r.at) = d})]
  BY <1>3, ActivityIs
<1> HIDE DEF w
<1>6. ASSUME NEW n \in 1..ActivityDays
      PROVE  body'[n] = MapsOf(DayRows(w, day(n)))
  <2>1. DayRows(w, day(n)) = {r \in Recent(w) : Day(r.at) = day(n)}
    BY <1>4, RecentEnough
  <2> HIDE DEF day
  <2>2. CASE day(n) \in DOMAIN body
    BY <1>2, <1>5, <2>1, <2>2
  <2>3. CASE day(n) \notin DOMAIN body
    <3>1. DayRows(w, day(n)) = {}
      BY <1>5, <2>1, <2>3
    <3> QED
      BY <1>2, <2>3, <3>1, NoMaps
  <2> QED
    BY <2>2, <2>3
<1>7. ChartRight(body', w, world.now)
  BY <1>6 DEF ChartRight
<1> QED
  BY <1>1, <1>4, <1>7 DEF w

\* Every day of the activity chart shows all the maps completed on it, the
\* oldest day included, although the query and the chart read the clock apart.
THEOREM ActivityTrue == BoardsSpec => []ActivityRight
<1>1. BoardsInit => ChartTrue
  BY DEF BoardsInit, ChartTrue, Answered
<1>2. BoardsIInv /\ ChartTrue /\ [BoardsNext]_boardVars => ChartTrue'
  <2>1. ChartTrue /\ UNCHANGED boardVars => ChartTrue'
    BY DEF boardVars, ChartTrue, Answered, Moments, ChartRight
  <2> QED
    BY <2>1, ActivityAnswered
<1> QED
  BY <1>1, <1>2, InvHolds, ChartIs, PTL DEF BoardsSpec

-----------------------------------------------------------------------------
(* The boards beside one another *)

\* The first score of an all-time board is its mode's record, whatever the
\* table, the bans and the clock.
THEOREM RecordsLeadTheBoards == BoardsSpec => []RecordsLeadBoards
<1>1. BoardsIInv => RecordsLeadBoards
  BY MomentsAre, RecordsLead DEF BoardsIInv
<1> QED
  BY <1>1, InvHolds, PTL

\* Multiples of a month's length tell months apart.
LEMMA StartIs ==
  ASSUME NEW t \in Nat, NEW m \in Nat
  PROVE  Start(m) <= t <=> m <= Month(t)
<1>1. MonthLength \in Nat \ {0} /\ m # AllTime
  BY BoardsAssumption
<1>2. m * MonthLength <= t <=> m <= t \div MonthLength
  BY <1>1
<1> QED
  BY <1>1, <1>2 DEF Month, Start

\* The rows of X that a player has in a month, and their line in "monthly".
Mine(X, p, m) == {r \in X : r.player = p /\ Month(r.at) = m}

GroupOf(X, p, m) ==
  [player |-> p, month |-> m,
   best |-> Max({r.score : r \in Mine(X, p, m)}), first |-> Min({r.at : r \in Mine(X, p, m)})]

\* A line of "monthly" that says what the rows of its player and month do.
GroupRight(X, g) ==
  /\ g \in [player : Players, month : Nat, best : Nat, first : Nat]
  /\ \E r \in Mine(X, g.player, g.month) : r.score = g.best
  /\ \E r \in Mine(X, g.player, g.month) : r.at = g.first
  /\ \A r \in Mine(X, g.player, g.month) : r.score <= g.best /\ r.at >= g.first

\* The line of a row's player and month says what those rows do.
LEMMA GroupOfRight ==
  ASSUME NEW X \in SUBSET ScoreRow, IsFiniteSet(X), NEW r \in X
  PROVE  LET g == GroupOf(X, r.player, Month(r.at))
         IN  GroupRight(X, g) /\ g.player = r.player /\ g.month = Month(r.at)
<1> DEFINE p == r.player
           m == Month(r.at)
           mine == Mine(X, p, m)
           score == [x \in mine |-> x.score]
           at == [x \in mine |-> x.at]
<1>1. r \in mine /\ IsFiniteSet(mine) /\ mine \subseteq ScoreRow
  BY FS_Subset DEF Mine
<1>2. score \in [mine -> Int] /\ at \in [mine -> Int]
  BY <1>1 DEF ScoreRow
<1> DEFINE g == GroupOf(X, p, m)
<1>3. /\ \E x \in mine : Max({score[y] : y \in mine}) = score[x]
      /\ \A x \in mine : score[x] <= Max({score[y] : y \in mine})
  <2> HIDE DEF mine, score
  <2> QED
    BY <1>1, <1>2, MaxOfImage
<1>4. /\ \E x \in mine : Min({at[y] : y \in mine}) = at[x]
      /\ \A x \in mine : Min({at[y] : y \in mine}) <= at[x]
  <2> HIDE DEF mine, at
  <2> QED
    BY <1>1, <1>2, MinOfImage
<1> DEFINE best == Max({x.score : x \in mine})
           first == Min({x.at : x \in mine})
<1>5. {score[y] : y \in mine} = {x.score : x \in mine} /\ {at[y] : y \in mine} = {x.at : x \in mine}
  <2> HIDE DEF mine
  <2> QED
    OBVIOUS
<1>6. /\ \E x \in mine : best = x.score
      /\ \A x \in mine : x.score <= best
      /\ \E x \in mine : first = x.at
      /\ \A x \in mine : first <= x.at
  <2> HIDE DEF mine
  <2> QED
    BY <1>3, <1>4, <1>5
<1>7. p \in Players /\ m \in Nat
  BY BoardsAssumption DEF ScoreRow, Month
<1>8. GroupOf(X, p, m) = [player |-> p, month |-> m, best |-> best, first |-> first]
  BY DEF GroupOf
<1> HIDE DEF p, m, best, first
<1>9. best \in Nat /\ first \in Nat
  BY <1>1, <1>6 DEF ScoreRow
<1>10. g = [player |-> p, month |-> m, best |-> best, first |-> first]
  BY <1>8
<1> HIDE DEF g, mine
<1>11. /\ g.player = p /\ g.month = m /\ g.best = best /\ g.first = first
       /\ g \in [player : Players, month : Nat, best : Nat, first : Nat]
  BY <1>7, <1>9, <1>10
<1>12. GroupRight(X, g)
  BY <1>6, <1>11 DEF GroupRight, mine
<1> QED
  BY <1>11, <1>12 DEF g, p, m

\* "monthly" has one right line for every player and month that has rows.
LEMMA MonthlyIs ==
  ASSUME NEW X \in SUBSET ScoreRow, IsFiniteSet(X)
  PROVE  /\ IsFiniteSet(Monthly(X))
         /\ \A g \in Monthly(X) : GroupRight(X, g)
         /\ \A r \in X : \E g \in Monthly(X) : g.player = r.player /\ g.month = Month(r.at)
         /\ \A g, h \in Monthly(X) : g.player = h.player /\ g.month = h.month => g = h
<1> DEFINE line == [r \in X |-> GroupOf(X, r.player, Month(r.at))]
<1>1. Monthly(X) = {GroupOf(X, g.player, g.month) :
                      g \in {[player |-> r.player, month |-> Month(r.at)] : r \in X}}
  BY DEF Monthly, GroupOf, Mine
<1>2. Monthly(X) = {line[r] : r \in X}
  <2> DEFINE P == {[player |-> r.player, month |-> Month(r.at)] : r \in X}
  <2>1. ASSUME NEW g \in Monthly(X) PROVE \E r \in X : g = line[r]
    <3>1. PICK h \in P : g = GroupOf(X, h.player, h.month)
      BY <1>1
    <3>2. PICK r \in X : h = [player |-> r.player, month |-> Month(r.at)]
      OBVIOUS
    <3>3. g = line[r]
      BY <3>1, <3>2
    <3> QED
      BY <3>3
  <2>2. ASSUME NEW r \in X PROVE line[r] \in Monthly(X)
    <3> DEFINE h == [player |-> r.player, month |-> Month(r.at)]
    <3>1. h \in P /\ line[r] = GroupOf(X, h.player, h.month)
      OBVIOUS
    <3> QED
      BY <1>1, <3>1
  <2> QED
    BY <2>1, <2>2
<1>3. \A r \in X : /\ GroupRight(X, line[r])
                   /\ line[r].player = r.player
                   /\ line[r].month = Month(r.at)
  BY GroupOfRight
<1>4. \A r, s \in X : r.player = s.player /\ Month(r.at) = Month(s.at) => line[r] = line[s]
  OBVIOUS
<1>5. line \in Surjection(X, Monthly(X))
  BY <1>2 DEF Surjection
<1> HIDE DEF line
<1>6. IsFiniteSet(Monthly(X))
  BY <1>5, FS_Surjection
<1>7. \A g \in Monthly(X) : GroupRight(X, g)
  BY <1>2, <1>3
<1>8. \A r \in X : \E g \in Monthly(X) : g.player = r.player /\ g.month = Month(r.at)
  BY <1>2, <1>3
<1>9. \A g, h \in Monthly(X) : g.player = h.player /\ g.month = h.month => g = h
  BY <1>2, <1>3, <1>4
<1> QED
  BY <1>6, <1>7, <1>8, <1>9

\* The lines of a month.
InMonth(monthly, m) == {g \in monthly : g.month = m}

\* rn numbers the lines of every month, the better ones first.
LEMMA RowNumbersIs ==
  ASSUME NEW monthly, IsFiniteSet(monthly), NEW rn \in RowNumbers(monthly)
  PROVE  /\ DOMAIN rn = {g.month : g \in monthly}
         /\ \A m \in DOMAIN rn :
              /\ IsFiniteSet(InMonth(monthly, m))
              /\ Lists(rn[m], InMonth(monthly, m))
              /\ \A i, j \in 1..Cardinality(InMonth(monthly, m)) :
                   i < j => ~ BestThenFirst(rn[m][j], rn[m][i])
<1> DEFINE months == {g.month : g \in monthly}
<1>1. /\ DOMAIN rn = months
      /\ \A m \in months : rn[m] \in OrderBy(InMonth(monthly, m), BestThenFirst)
  BY DEF RowNumbers, InMonth
<1>2. ASSUME NEW m \in months
      PROVE  /\ IsFiniteSet(InMonth(monthly, m))
             /\ Lists(rn[m], InMonth(monthly, m))
             /\ \A i, j \in 1..Cardinality(InMonth(monthly, m)) :
                  i < j => ~ BestThenFirst(rn[m][j], rn[m][i])
  <2> DEFINE S == InMonth(monthly, m)
             s == rn[m]
  <2>1. /\ s \in [1..Cardinality(S) -> S]
        /\ \A i, j \in DOMAIN s : i < j => s[i] # s[j] /\ ~ BestThenFirst(s[j], s[i])
    BY <1>1 DEF OrderBy
  <2>2. IsFiniteSet(S)
    BY FS_Subset DEF InMonth
  <2>3. DOMAIN s = 1..Cardinality(S)
    BY <2>1
  <2> HIDE DEF S, s
  <2>4. \A i, j \in DOMAIN s : i < j => s[i] # s[j]
    BY <2>1
  <2>5. Lists(s, S)
    BY <2>1, <2>2, <2>4, Enumeration
  <2> QED
    BY <2>1, <2>2, <2>3, <2>5 DEF S, s
<1> QED
  BY <1>1, <1>2

RowsIn(X, m) == {r \in X : Month(r.at) = m}

\* The rows that count in a month, and those of the months from a to before b.
MonthOf(w, mode, m) == {r \in w.rows : Counts(w, r, {mode}) /\ Month(r.at) = m}
Between(w, mode, a, b) == Ranked(w, {mode}, Start(a), Start(b))

\* A month's board ranks all of the month's rows that count.
LEMMA BoardRows ==
  ASSUME NEW w, WorldOK(w), NEW mode, NEW m \in Nat
  PROVE  Ranked(w, {mode}, Start(m), End(m, w)) = MonthOf(w, mode, m)
<1>1. Ranked(w, {mode}, Start(m), End(m, w)) = {r \in w.rows : Counts(w, r, {mode}) /\ During(r, m)}
  BY RankedIs
<1>2. m # AllTime
  BY BoardsAssumption
<1> QED
  BY <1>1, <1>2 DEF MonthOf, During

\* The hall of fame ranks all of a month's rows that count, if any.
LEMMA HallRows ==
  ASSUME NEW w, WorldOK(w), NEW mode, NEW a \in Nat, NEW b \in Nat
  PROVE  /\ \A m \in a..(b - 1) : RowsIn(Between(w, mode, a, b), m) = MonthOf(w, mode, m)
         /\ \A r \in Between(w, mode, a, b) : Month(r.at) \in a..(b - 1)
<1>1. ASSUME NEW r \in w.rows
      PROVE  Start(a) <= r.at /\ r.at < Start(b) <=> Month(r.at) \in a..(b - 1)
  <2>1. r.at \in Nat
    BY DEF WorldOK, ScoreRow
  <2>2. (Start(a) <= r.at <=> a <= Month(r.at)) /\ (Start(b) <= r.at <=> b <= Month(r.at))
    BY <2>1, StartIs
  <2>3. Start(b) \in Int /\ Month(r.at) \in Int
    BY <2>1, BoardsAssumption DEF Start, Month
  <2> QED
    BY <2>1, <2>2, <2>3
<1> QED
  BY <1>1 DEF Between, Ranked, RowsIn, MonthOf, Counts

\* The lines G have the best scores of the rows R, player by player.
BestsOf(G, R) ==
  /\ \A g \in G : g.best \in Nat /\ \E r \in R : r.player = g.player /\ r.score = g.best
  /\ \A r \in R : \E g \in G : g.player = r.player
  /\ \A r \in R : \A g \in G : g.player = r.player => r.score <= g.best
  /\ \A g, h \in G : g.player = h.player => g = h

\* Best runs in order and best scores in order are the same scores.
LEMMA SameBests ==
  ASSUME NEW R \in SUBSET ScoreRow, NEW N \in Nat, NEW s, BestRuns(s, N, R),
         NEW G, BestsOf(G, R), NEW q, Lists(q, G), NEW K, K = Cardinality(G),
         \A i, j \in 1..K : i < j => q[i].best >= q[j].best
  PROVE  N = K /\ \A k \in 1..N : s[k].score = q[k].best
<1>1. /\ K \in Nat
      /\ q \in [1..K -> G]
      /\ \A i, j \in 1..K : q[i] = q[j] => i = j
      /\ \A g \in G : \E j \in 1..K : q[j] = g
  BY DEF Lists
<1>2. /\ s \in [1..N -> R]
      /\ \A i, j \in 1..N : s[i].player = s[j].player => i = j
      /\ \A i, j \in 1..N : i < j => s[i].score >= s[j].score
      /\ \A r \in R : \E i \in 1..N : s[i].player = r.player /\ s[i].score >= r.score
  BY DEF BestRuns
<1>3. \A r \in R : r.score \in Nat
  BY DEF ScoreRow
<1>4. /\ \A g \in G : g.best \in Nat /\ \E r \in R : r.player = g.player /\ r.score = g.best
      /\ \A r \in R : \E g \in G : g.player = r.player
      /\ \A r \in R : \A g \in G : g.player = r.player => r.score <= g.best
      /\ \A g, h \in G : g.player = h.player => g = h
  BY DEF BestsOf
<1>5. ASSUME NEW i \in 1..N, NEW j \in 1..K, s[i].player = q[j].player
      PROVE  s[i].score = q[j].best
  <2>1. s[i] \in R /\ q[j] \in G
    BY <1>1, <1>2
  <2>2. s[i].score <= q[j].best /\ s[i].score \in Nat /\ q[j].best \in Nat
    BY <1>3, <1>4, <1>5, <2>1
  <2>3. PICK r \in R : r.player = q[j].player /\ r.score = q[j].best
    BY <1>4, <2>1
  <2>4. PICK l \in 1..N : s[l].player = r.player /\ s[l].score >= r.score
    BY <1>2
  <2>5. l = i
    BY <1>2, <1>5, <2>3, <2>4
  <2> QED
    BY <2>2, <2>3, <2>4, <2>5
<1> DEFINE there == [i \in 1..N |-> CHOOSE j \in 1..K : q[j].player = s[i].player]
           back == [j \in 1..K |-> CHOOSE i \in 1..N : s[i].player = q[j].player]
           a == [i \in 1..N |-> s[i].score]
           b == [j \in 1..K |-> q[j].best]
<1>6. ASSUME NEW i \in 1..N PROVE there[i] \in 1..K /\ q[there[i]].player = s[i].player
  <2>1. PICK g \in G : g.player = s[i].player
    BY <1>2, <1>4
  <2>2. PICK j \in 1..K : q[j] = g
    BY <1>1
  <2> QED
    BY <2>1, <2>2
<1>7. ASSUME NEW j \in 1..K PROVE back[j] \in 1..N /\ s[back[j]].player = q[j].player
  <2>1. PICK r \in R : r.player = q[j].player
    BY <1>1, <1>4
  <2>2. PICK i \in 1..N : s[i].player = r.player
    BY <1>2
  <2> QED
    BY <2>1, <2>2
<1>8. there \in [1..N -> 1..K] /\ back \in [1..K -> 1..N]
  BY <1>6, <1>7
<1>9. a \in [1..N -> Int] /\ b \in [1..K -> Int]
  BY <1>1, <1>2, <1>3, <1>4
<1>10. \A i \in 1..N : a[i] = s[i].score
  OBVIOUS
<1>11. \A j \in 1..K : b[j] = q[j].best
  OBVIOUS
<1> HIDE DEF there, back, a, b
<1>12. Descends(a, N)
  BY <1>2, <1>9, <1>10 DEF Descends
<1>13. Descends(b, K)
  BY <1>9, <1>11 DEF Descends
<1>14. \A i, j \in 1..N : there[i] = there[j] => i = j
  BY <1>2, <1>6
<1>15. \A i, j \in 1..K : back[i] = back[j] => i = j
  <2> SUFFICES ASSUME NEW i \in 1..K, NEW j \in 1..K, back[i] = back[j] PROVE i = j
    OBVIOUS
  <2>1. q[i].player = q[j].player
    BY <1>7
  <2>2. q[i] = q[j]
    BY <1>1, <1>4, <2>1
  <2> QED
    BY <1>1, <2>2
<1>16. ASSUME NEW i \in 1..N PROVE a[i] = b[there[i]]
  <2>1. s[i].score = q[there[i]].best /\ there[i] \in 1..K
    BY <1>5, <1>6
  <2> QED
    BY <1>10, <1>11, <2>1
<1>17. ASSUME NEW j \in 1..K PROVE b[j] = a[back[j]]
  <2>1. s[back[j]].score = q[j].best /\ back[j] \in 1..N
    BY <1>5, <1>7
  <2> QED
    BY <1>10, <1>11, <2>1
<1>18. Embeds(there, a, N, b, K) /\ Embeds(back, b, K, a, N)
  BY <1>8, <1>14, <1>15, <1>16, <1>17 DEF Embeds
<1>19. /\ \A k \in 1..N : k \in 1..K /\ a[k] <= b[k]
       /\ \A k \in 1..K : k \in 1..N /\ b[k] <= a[k]
  BY <1>1, <1>12, <1>13, <1>18, EmbeddedBelow
<1>20. N = K
  BY <1>1, <1>19
<1>21. \A k \in 1..N : a[k] = b[k]
  BY <1>9, <1>19, <1>20
<1> QED
  BY <1>10, <1>11, <1>20, <1>21

\* Places and boards show the same scores, in every world.
LEMMA TrophiesFollow ==
  ASSUME WorldOK(world)
  PROVE  TrophiesFollowBoards
<1> DEFINE X(mode) == Ranked(world, {mode}, Start(HofEarliestMonth), Start(Month(world.now)))
<1> SUFFICES ASSUME NEW mode \in BoardModes, NEW rn \in RowNumbers(Monthly(X(mode))),
                    NEW m \in DOMAIN rn,
                    NEW board \in GetLeaderboard(world, {mode}, Start(m), End(m, world))
             PROVE  /\ Len(board) = Min({BoardLimit, Len(rn[m])})
                    /\ \A k \in DOMAIN board : board[k].score = rn[m][k].best
  BY DEF TrophiesFollowBoards
<1> DEFINE Y == X(mode)
           G == InMonth(Monthly(Y), m)
           R == Ranked(world, {mode}, Start(m), End(m, world))
           K == Cardinality(G)
           q == rn[m]
<1>1. HofEarliestMonth \in Nat /\ Month(world.now) \in Nat /\ world.now \in Nat
  BY BoardsAssumption DEF HofEarliestMonth, Month, WorldOK
<1>2. Y \in SUBSET ScoreRow /\ IsFiniteSet(Y) /\ Y \subseteq world.rows
  BY RankedFinite
<1>3. /\ IsFiniteSet(Monthly(Y))
      /\ \A g \in Monthly(Y) : GroupRight(Y, g)
      /\ \A r \in Y : \E g \in Monthly(Y) : g.player = r.player /\ g.month = Month(r.at)
      /\ \A g, h \in Monthly(Y) : g.player = h.player /\ g.month = h.month => g = h
  BY <1>2, MonthlyIs
<1>4. /\ m \in {g.month : g \in Monthly(Y)}
      /\ Lists(q, G)
      /\ \A i, j \in 1..K : i < j => ~ BestThenFirst(q[j], q[i])
  BY <1>3, RowNumbersIs
<1>5. m \in HofEarliestMonth..(Month(world.now) - 1)
  <2>1. PICK g \in Monthly(Y) : g.month = m
    BY <1>4
  <2>2. PICK r \in Y : Month(r.at) = m
    BY <1>3, <2>1 DEF GroupRight, Mine
  <2> QED
    BY <1>1, <2>2, HallRows DEF Between
<1>6. R = {r \in Y : Month(r.at) = m}
  <2>1. R = MonthOf(world, mode, m)
    BY <1>1, <1>5, BoardRows
  <2>2. RowsIn(Between(world, mode, HofEarliestMonth, Month(world.now)), m) = MonthOf(world, mode, m)
    BY <1>1, <1>5, HallRows
  <2>3. Y = Between(world, mode, HofEarliestMonth, Month(world.now))
    BY DEF Between
  <2> QED
    BY <2>1, <2>2, <2>3 DEF RowsIn
<1>7. \A g \in G : g \in Monthly(Y) /\ g.month = m
  BY DEF InMonth
<1>8. \A r \in Y : r.score \in Nat /\ r.player \in Players
  BY <1>2 DEF ScoreRow
<1> HIDE DEF Y, R
<1>9. BestsOf(G, R)
  <2>1. ASSUME NEW g \in G
        PROVE  g.best \in Nat /\ \E r \in R : r.player = g.player /\ r.score = g.best
    BY <1>3, <1>6, <1>7 DEF GroupRight, Mine
  <2>2. ASSUME NEW r \in R PROVE \E g \in G : g.player = r.player
    BY <1>3, <1>6 DEF InMonth
  <2>3. ASSUME NEW r \in R, NEW g \in G, g.player = r.player PROVE r.score <= g.best
    BY <1>3, <1>6, <1>7, <2>3 DEF GroupRight, Mine
  <2>4. ASSUME NEW g \in G, NEW h \in G, g.player = h.player PROVE g = h
    BY <1>3, <1>7, <2>4
  <2> QED
    BY <2>1, <2>2, <2>3, <2>4 DEF BestsOf
<1>10. PICK N \in Nat : \E s : BestRuns(s, N, R) /\ board = Limit(s, BoardLimit)
  BY LeaderboardIs DEF R
<1>11. PICK s : BestRuns(s, N, R) /\ board = Limit(s, BoardLimit)
  BY <1>10
<1>12. R \in SUBSET ScoreRow
  BY <1>2, <1>6
<1>13. AtMost(BoardLimit, N) \in 0..N /\ Cuts(board, AtMost(BoardLimit, N), s, R)
  BY <1>11, <1>12, BoardIs
<1> HIDE DEF G, q
<1>14. K \in Nat /\ q \in [1..K -> G] /\ \A g \in G : g.best \in Nat
  BY <1>4, <1>9 DEF Lists, BestsOf
<1>15. \A i, j \in 1..K : i < j => q[i].best >= q[j].best
  BY <1>4, <1>14 DEF BestThenFirst
<1>16. K = Cardinality(G)
  OBVIOUS
<1> HIDE DEF K
<1>17. N = K /\ \A k \in 1..N : s[k].score = q[k].best
  BY <1>4, <1>9, <1>11, <1>12, <1>15, <1>16, SameBests
<1>18. Len(q) = K
  BY <1>14
<1>19. Min({BoardLimit, Len(q)}) = AtMost(BoardLimit, N)
  <2>1. BoardLimit \in Int /\ Len(q) \in Int
    BY <1>14, <1>18, BoardsAssumption
  <2>2. Min({BoardLimit, Len(q)}) = IF BoardLimit <= Len(q) THEN BoardLimit ELSE Len(q)
    BY <2>1, MinOfTwo
  <2> QED
    BY <1>17, <1>18, <2>2 DEF AtMost
<1>20. Len(board) = Min({BoardLimit, Len(q)})
  BY <1>13, <1>19 DEF Cuts
<1>21. \A k \in DOMAIN board : board[k].score = q[k].best
  BY <1>13, <1>17 DEF Cuts
<1> QED
  BY <1>20, <1>21 DEF q

\* In a finished month the k-th trophy goes to a score as high as the k-th
\* entry of that month's board, whatever the table, the bans and the clock.
THEOREM TrophiesFollowTheBoards == BoardsSpec => []TrophiesFollowBoards
<1>1. BoardsIInv => TrophiesFollowBoards
  BY MomentsAre, TrophiesFollow DEF BoardsIInv
<1> QED
  BY <1>1, InvHolds, PTL

-----------------------------------------------------------------------------
(* Places in a month *)

\* A player's rows in a month that count.
MineOf(w, mode, m, p) ==
  {r \in w.rows : Counts(w, r, {mode}) /\ Month(r.at) = m /\ r.player = p}

\* G has a right line for every player with rows in the month.
MonthLines(G, w, mode, m) ==
  /\ \A g \in G : /\ g \in [player : Players, month : Nat, best : Nat, first : Nat]
                  /\ \E r \in MineOf(w, mode, m, g.player) : r.score = g.best
                  /\ \E r \in MineOf(w, mode, m, g.player) : r.at = g.first
                  /\ \A r \in MineOf(w, mode, m, g.player) : r.score <= g.best /\ r.at >= g.first
  /\ \A p \in Players : MineOf(w, mode, m, p) # {} => \E g \in G : g.player = p
  /\ \A g, h \in G : g.player = h.player => g = h

\* The players with a line ahead of g, and those with one not behind it.
AheadOf(G, g) == {p \in Players : \E h \in G : h.player = p /\ h # g /\ BestThenFirst(h, g)}
NotBehind(G, g) == {p \in Players : \E h \in G : h.player = p /\ h # g /\ ~ BestThenFirst(g, h)}

\* A place is decided by the lines as by the rows.
LEMMA PlacedIs ==
  ASSUME NEW w, WorldOK(w), NEW mode, NEW m, NEW G, MonthLines(G, w, mode, m),
         NEW g \in G, NEW k
  PROVE  Placed(w, mode, m, g.player, k)
           <=> Cardinality(AheadOf(G, g)) < k /\ Cardinality(NotBehind(G, g)) >= k - 1
<1> DEFINE mine(q) == {r \in w.rows : /\ Counts(w, r, {mode})
                                      /\ Month(r.at) = m /\ r.player = q}
           p == g.player
           top(x) == CHOOSE r \in mine(x) : \A s \in mine(x) : s.score <= r.score
           first(x) == CHOOSE r \in mine(x) : \A s \in mine(x) : s.at >= r.at
           ahead(q, strictly) ==
             \/ top(q).score > top(p).score
             \/ /\ top(q).score = top(p).score
                /\ IF strictly THEN first(q).at < first(p).at ELSE first(q).at <= first(p).at
           rivals == {q \in Players \ {p} : mine(q) # {}}
<1>1. Placed(w, mode, m, p, k) <=>
        /\ mine(p) # {}
        /\ Cardinality({q \in rivals : ahead(q, TRUE)}) < k
        /\ Cardinality({q \in rivals : ahead(q, FALSE)}) >= k - 1
  BY DEF Placed
<1>2. \A q : mine(q) = MineOf(w, mode, m, q)
  BY DEF MineOf
<1>3. \A q : \A r \in mine(q) : r.score \in Nat /\ r.at \in Nat
  BY DEF WorldOK, ScoreRow
<1> HIDE DEF mine
<1>4. /\ \A h \in G : /\ h \in [player : Players, month : Nat, best : Nat, first : Nat]
                      /\ \E r \in mine(h.player) : r.score = h.best
                      /\ \E r \in mine(h.player) : r.at = h.first
                      /\ \A r \in mine(h.player) : r.score <= h.best /\ r.at >= h.first
      /\ \A q \in Players : mine(q) # {} => \E h \in G : h.player = q
      /\ \A h, i \in G : h.player = i.player => h = i
  BY <1>2 DEF MonthLines
<1>5. ASSUME NEW h \in G
      PROVE  top(h.player).score = h.best /\ first(h.player).at = h.first
  <2> DEFINE x == h.player
  <2>1. /\ \E r \in mine(x) : r.score = h.best
        /\ \E r \in mine(x) : r.at = h.first
        /\ \A r \in mine(x) : r.score <= h.best /\ r.at >= h.first
        /\ h.best \in Nat /\ h.first \in Nat
    BY <1>4
  <2>2. \E r \in mine(x) : \A s \in mine(x) : s.score <= r.score
    BY <2>1
  <2>3. \E r \in mine(x) : \A s \in mine(x) : s.at >= r.at
    BY <2>1
  <2>4. top(x) \in mine(x) /\ \A s \in mine(x) : s.score <= top(x).score
    BY <2>2
  <2>5. first(x) \in mine(x) /\ \A s \in mine(x) : s.at >= first(x).at
    BY <2>3
  <2> HIDE DEF top, first, x
  <2>6. top(x).score = h.best /\ first(x).at = h.first
    BY <1>3, <2>1, <2>4, <2>5
  <2> QED
    BY <2>6 DEF x
<1>6. mine(p) # {} /\ p \in Players
  BY <1>4
<1> HIDE DEF top, first
<1>7. ASSUME NEW q \in Players, NEW h \in G, h.player = q
      PROVE  /\ q \in rivals <=> h # g
             /\ ahead(q, TRUE) <=> BestThenFirst(h, g)
             /\ ahead(q, FALSE) <=> ~ BestThenFirst(g, h)
  <2>1. q \in rivals <=> h # g
    BY <1>4, <1>7
  <2>2. /\ top(q).score = h.best /\ first(q).at = h.first
        /\ top(p).score = g.best /\ first(p).at = g.first
    BY <1>5, <1>7
  <2>3. h.best \in Nat /\ h.first \in Nat /\ g.best \in Nat /\ g.first \in Nat
    BY <1>4
  <2> QED
    BY <2>1, <2>2, <2>3 DEF BestThenFirst
<1>8. \A q \in rivals : \E h \in G : h.player = q
  BY <1>4
<1>9. rivals \subseteq Players
  OBVIOUS
<1> HIDE DEF ahead, rivals
<1>10. {q \in rivals : ahead(q, TRUE)} = AheadOf(G, g)
  BY <1>7, <1>8, <1>9 DEF AheadOf
<1>11. {q \in rivals : ahead(q, FALSE)} = NotBehind(G, g)
  BY <1>7, <1>8, <1>9 DEF NotBehind
<1> QED
  BY <1>1, <1>6, <1>10, <1>11

\* Whoever placed in a month has a line for it.
LEMMA PlacedHasLine ==
  ASSUME NEW w, NEW mode, NEW m, NEW G, MonthLines(G, w, mode, m),
         NEW p \in Players, NEW k, Placed(w, mode, m, p, k)
  PROVE  \E g \in G : g.player = p
<1>1. MineOf(w, mode, m, p) # {}
  BY Zenon DEF Placed, MineOf
<1> QED
  BY <1>1 DEF MonthLines

\* What a numbering of lines is.
Numbers(q, K, G) ==
  /\ K \in Nat
  /\ q \in [1..K -> G]
  /\ \A i, j \in 1..K : q[i] = q[j] => i = j
  /\ \A g \in G : \E i \in 1..K : q[i] = g
  /\ \A i, j \in 1..K : i < j => ~ BestThenFirst(q[j], q[i])

\* Of the line with number k, fewer than k lines are ahead, and at least k - 1
\* are not behind; a line that so many are not behind is among k or more.
LEMMA NumberedPlaces ==
  ASSUME NEW G, \A g \in G : g.player \in Players /\ g.best \in Nat /\ g.first \in Nat,
         \A g, h \in G : g.player = h.player => g = h,
         NEW q, NEW K, Numbers(q, K, G)
  PROVE  /\ \A k \in 1..K : /\ Cardinality(AheadOf(G, q[k])) < k
                            /\ Cardinality(NotBehind(G, q[k])) >= k - 1
         /\ \A g \in G, k \in Nat : Cardinality(NotBehind(G, g)) >= k - 1 => k <= K
<1>1. /\ K \in Nat
      /\ q \in [1..K -> G]
      /\ \A i, j \in 1..K : q[i] = q[j] => i = j
      /\ \A g \in G : \E i \in 1..K : q[i] = g
      /\ \A i, j \in 1..K : i < j => ~ BestThenFirst(q[j], q[i])
  BY DEF Numbers
<1> DEFINE All == {g.player : g \in G}
           at == [p \in All |-> CHOOSE i \in 1..K : q[i].player = p]
<1>2. ASSUME NEW p \in All PROVE at[p] \in 1..K /\ q[at[p]].player = p
  <2>1. \E i \in 1..K : q[i].player = p
    BY <1>1
  <2> QED
    BY <2>1
<1>3. \A p, r \in All : at[p] = at[r] => p = r
  BY <1>2
<1>4. at \in [All -> 1..K]
  BY <1>2
<1>5. ASSUME NEW g \in G PROVE q[at[g.player]] = g
  <2>1. at[g.player] \in 1..K /\ q[at[g.player]].player = g.player
    BY <1>2
  <2>2. q[at[g.player]] \in G
    BY <1>1, <2>1
  <2> QED
    BY <2>1, <2>2
<1> HIDE DEF at
<1>6. IsFiniteSet(1..K) /\ Cardinality(1..K) = K
  BY <1>1, FS_Interval
<1>7. IsFiniteSet(All) /\ Cardinality(All) <= K /\ Cardinality(All) \in Nat
  <2>1. at \in Injection(All, 1..K)
    BY <1>3, <1>4 DEF Injection, IsInjective
  <2> HIDE DEF All
  <2>2. IsFiniteSet(All) /\ Cardinality(All) <= K
    BY <1>6, <2>1, FS_Injection
  <2> QED
    BY <2>2, FS_CardinalityType
<1>8. ASSUME NEW k \in 1..K PROVE Cardinality(AheadOf(G, q[k])) < k
  <2> DEFINE A == AheadOf(G, q[k])
             f == [p \in A |-> at[p]]
  <2>1. A \subseteq All
    BY DEF AheadOf
  <2>2. ASSUME NEW p \in A PROVE at[p] \in 1..(k - 1)
    <3>1. PICK h \in G : h.player = p /\ h # q[k] /\ BestThenFirst(h, q[k])
      BY DEF AheadOf
    <3>2. at[p] \in 1..K /\ q[at[p]] = h
      BY <1>2, <1>5, <3>1
    <3>3. at[p] # k /\ ~ (k < at[p])
      BY <1>1, <3>1, <3>2
    <3> QED
      BY <3>2, <3>3
  <2>3. f \in Injection(A, 1..(k - 1))
    BY <1>3, <2>1, <2>2 DEF Injection, IsInjective
  <2>4. IsFiniteSet(1..(k - 1)) /\ Cardinality(1..(k - 1)) = k - 1
    BY FS_Interval
  <2> HIDE DEF A, f
  <2>5. IsFiniteSet(A) /\ Cardinality(A) <= Cardinality(1..(k - 1))
    BY <2>3, <2>4, FS_Injection
  <2>6. Cardinality(A) \in Nat
    BY <2>5, FS_CardinalityType
  <2>7. Cardinality(A) < k
    BY <2>4, <2>5, <2>6
  <2> QED
    BY <2>7 DEF A
<1>9. \A g \in G : /\ NotBehind(G, g) \subseteq All /\ g.player \in All
                   /\ g.player \notin NotBehind(G, g)
  BY DEF NotBehind
<1>10. ASSUME NEW k \in 1..K PROVE Cardinality(NotBehind(G, q[k])) >= k - 1
  <2> DEFINE B == NotBehind(G, q[k])
             f == [i \in 1..(k - 1) |-> q[i].player]
  <2>1. q[k] \in G /\ B \subseteq All
    BY <1>1, <1>9
  <2>2. ASSUME NEW i \in 1..(k - 1) PROVE q[i].player \in B /\ i \in 1..K /\ q[i] \in G
    <3>1. i \in 1..K /\ i < k /\ q[i] \in G
      BY <1>1
    <3>2. q[i] # q[k] /\ ~ BestThenFirst(q[k], q[i])
      BY <1>1, <3>1
    <3> QED
      BY <3>1, <3>2 DEF NotBehind
  <2>3. \A i, j \in 1..(k - 1) : q[i].player = q[j].player => i = j
    BY <1>1, <2>2
  <2>4. f \in Injection(1..(k - 1), B)
    BY <2>2, <2>3 DEF Injection, IsInjective
  <2>5. IsFiniteSet(1..(k - 1)) /\ Cardinality(1..(k - 1)) = k - 1
    BY FS_Interval
  <2>6. IsFiniteSet(B)
    BY <1>7, <2>1, FS_Subset
  <2> HIDE DEF B, f
  <2>7. Cardinality(1..(k - 1)) <= Cardinality(B)
    BY <2>4, <2>6, FS_Injection
  <2>8. Cardinality(B) \in Nat
    BY <2>6, FS_CardinalityType
  <2>9. Cardinality(B) >= k - 1
    BY <2>5, <2>7, <2>8
  <2> QED
    BY <2>9 DEF B
<1>11. ASSUME NEW g \in G, NEW k \in Nat, Cardinality(NotBehind(G, g)) >= k - 1
       PROVE  k <= K
  <2> DEFINE B == NotBehind(G, g)
             C == B \cup {g.player}
  <2>1. B \subseteq All /\ C \subseteq All /\ g.player \notin B
    BY <1>9
  <2>2. IsFiniteSet(B)
    BY <1>7, <2>1, FS_Subset
  <2>3. Cardinality(C) <= Cardinality(All)
    BY <1>7, <2>1, FS_Subset
  <2>4. Cardinality(C) = Cardinality(B) + 1
    BY <2>1, <2>2, FS_AddElement
  <2>5. Cardinality(B) \in Nat
    BY <2>2, FS_CardinalityType
  <2>6. Cardinality(B) >= k - 1
    BY <1>11
  <2> HIDE DEF B, C
  <2> QED
    BY <1>1, <1>7, <2>3, <2>4, <2>5, <2>6
<1> QED
  BY <1>8, <1>10, <1>11

\* rn gives the places of the months, to those who have them and as far as
\* there are any.
RankingRight(rn, w, mode, months) ==
  /\ DOMAIN rn \subseteq months
  /\ \A m \in DOMAIN rn :
       /\ Len(rn[m]) \in Nat
       /\ \A k \in 1..Len(rn[m]) :
            rn[m][k].player \in Players /\ Placed(w, mode, m, rn[m][k].player, k)
  /\ \A m \in months, p \in Players, k \in Nat :
       Placed(w, mode, m, p, k) => m \in DOMAIN rn /\ k <= Len(rn[m])

\* "monthly" has the right lines for every month in the query's range.
LEMMA LinesOfMonth ==
  ASSUME NEW w, WorldOK(w), NEW mode, NEW a \in Nat, NEW b \in Nat, NEW m \in a..(b - 1)
  PROVE  MonthLines(InMonth(Monthly(Between(w, mode, a, b)), m), w, mode, m)
<1> DEFINE X == Between(w, mode, a, b)
           G == InMonth(Monthly(X), m)
<1>1. X \in SUBSET ScoreRow /\ IsFiniteSet(X)
  BY RankedFinite DEF Between
<1>2. /\ \A g \in Monthly(X) : GroupRight(X, g)
      /\ \A r \in X : \E g \in Monthly(X) : g.player = r.player /\ g.month = Month(r.at)
      /\ \A g, h \in Monthly(X) : g.player = h.player /\ g.month = h.month => g = h
  BY <1>1, MonthlyIs
<1>3. RowsIn(X, m) = MonthOf(w, mode, m)
  BY HallRows
<1>4. \A p : Mine(X, p, m) = MineOf(w, mode, m, p)
  <2> SUFFICES ASSUME NEW p PROVE Mine(X, p, m) = MineOf(w, mode, m, p)
    OBVIOUS
  <2>1. Mine(X, p, m) = {r \in RowsIn(X, m) : r.player = p}
    BY DEF Mine, RowsIn
  <2>2. MineOf(w, mode, m, p) = {r \in MonthOf(w, mode, m) : r.player = p}
    BY DEF MineOf, MonthOf
  <2> QED
    BY <1>3, <2>1, <2>2
<1>5. \A g \in G : g \in Monthly(X) /\ g.month = m
  BY DEF InMonth
<1> HIDE DEF X
<1>6. ASSUME NEW g \in G
      PROVE  /\ g \in [player : Players, month : Nat, best : Nat, first : Nat]
             /\ \E r \in MineOf(w, mode, m, g.player) : r.score = g.best
             /\ \E r \in MineOf(w, mode, m, g.player) : r.at = g.first
             /\ \A r \in MineOf(w, mode, m, g.player) : r.score <= g.best /\ r.at >= g.first
  <2>1. GroupRight(X, g) /\ g.month = m
    BY <1>2, <1>5
  <2> QED
    BY <1>4, <2>1 DEF GroupRight
<1>7. ASSUME NEW p \in Players, MineOf(w, mode, m, p) # {} PROVE \E g \in G : g.player = p
  <2>1. PICK r \in X : r.player = p /\ Month(r.at) = m
    BY <1>4, <1>7 DEF Mine
  <2> QED
    BY <1>2, <2>1 DEF InMonth
<1>8. \A g, h \in G : g.player = h.player => g = h
  BY <1>2, <1>5
<1> QED
  BY <1>6, <1>7, <1>8 DEF MonthLines, X

\* ROW_NUMBER() over "monthly" gives the places of the months in the range.
LEMMA RankingIs ==
  ASSUME NEW w, WorldOK(w), NEW mode, NEW a \in Nat, NEW b \in Nat,
         NEW rn \in RowNumbers(Monthly(Between(w, mode, a, b)))
  PROVE  RankingRight(rn, w, mode, a..(b - 1))
<1> DEFINE X == Between(w, mode, a, b)
           G(m) == InMonth(Monthly(X), m)
           K(m) == Cardinality(G(m))
<1>1. X \in SUBSET ScoreRow /\ IsFiniteSet(X)
  BY RankedFinite DEF Between
<1>2. IsFiniteSet(Monthly(X)) /\ \A g \in Monthly(X) : GroupRight(X, g)
  BY <1>1, MonthlyIs
<1>3. /\ DOMAIN rn = {g.month : g \in Monthly(X)}
      /\ \A m \in DOMAIN rn :
           /\ Lists(rn[m], G(m))
           /\ \A i, j \in 1..K(m) : i < j => ~ BestThenFirst(rn[m][j], rn[m][i])
  BY <1>2, RowNumbersIs
<1>4. ASSUME NEW m \in DOMAIN rn PROVE m \in a..(b - 1)
  <2>1. PICK g \in Monthly(X) : g.month = m
    BY <1>3
  <2>2. PICK r \in X : Month(r.at) = m
    BY <1>2, <2>1 DEF GroupRight, Mine
  <2> QED
    BY <2>2, HallRows
<1>5. ASSUME NEW m \in a..(b - 1) PROVE MonthLines(G(m), w, mode, m)
  BY LinesOfMonth
<1>6. ASSUME NEW m \in a..(b - 1)
      PROVE  /\ \A g \in G(m) : g.player \in Players /\ g.best \in Nat /\ g.first \in Nat
             /\ \A g, h \in G(m) : g.player = h.player => g = h
  <2> HIDE DEF G
  <2> QED
    BY <1>5 DEF MonthLines
<1>7. ASSUME NEW m \in DOMAIN rn
      PROVE  Numbers(rn[m], K(m), G(m)) /\ K(m) \in Nat /\ Len(rn[m]) = K(m)
  <2> DEFINE S == G(m)
             N == K(m)
             s == rn[m]
  <2>1. /\ N \in Nat
        /\ s \in [1..N -> S]
        /\ \A i, j \in 1..N : s[i] = s[j] => i = j
        /\ \A g \in S : \E i \in 1..N : s[i] = g
    BY <1>3 DEF Lists
  <2>2. \A i, j \in 1..N : i < j => ~ BestThenFirst(s[j], s[i])
    BY <1>3
  <2> HIDE DEF S, N, s
  <2>3. Numbers(s, N, S) /\ Len(s) = N
    BY <2>1, <2>2 DEF Numbers
  <2> QED
    BY <2>1, <2>3 DEF S, N, s
<1> HIDE DEF X, G, K
<1>8. ASSUME NEW m \in DOMAIN rn, NEW k \in 1..Len(rn[m])
      PROVE  rn[m][k].player \in Players /\ Placed(w, mode, m, rn[m][k].player, k)
  <2>1. m \in a..(b - 1) /\ k \in 1..K(m)
    BY <1>4, <1>7
  <2>2. Cardinality(AheadOf(G(m), rn[m][k])) < k /\ Cardinality(NotBehind(G(m), rn[m][k])) >= k - 1
    BY <1>6, <1>7, <2>1, NumberedPlaces
  <2>3. rn[m][k] \in G(m)
    BY <1>7, <2>1 DEF Numbers
  <2>4. Placed(w, mode, m, rn[m][k].player, k)
    BY <1>5, <2>1, <2>2, <2>3, PlacedIs
  <2> QED
    BY <1>6, <2>1, <2>3, <2>4
<1>9. ASSUME NEW m \in a..(b - 1), NEW p \in Players, NEW k \in Nat, Placed(w, mode, m, p, k)
      PROVE  m \in DOMAIN rn /\ k <= Len(rn[m])
  <2>1. PICK g \in G(m) : g.player = p
    BY <1>5, <1>9, PlacedHasLine
  <2>2. m \in DOMAIN rn
    BY <1>3, <2>1 DEF G, InMonth
  <2>3. Cardinality(NotBehind(G(m), g)) >= k - 1
    BY <1>5, <1>9, <2>1, PlacedIs
  <2>4. k <= K(m)
    BY <1>6, <1>7, <2>1, <2>2, <2>3, NumberedPlaces
  <2> QED
    BY <1>7, <2>2, <2>4
<1> QED
  BY <1>4, <1>7, <1>8, <1>9 DEF RankingRight

-----------------------------------------------------------------------------
(* The hall of fame *)

\* The months that gave p the k-th trophy.
Held(rn, p, k) == {m \in DOMAIN rn : k <= Len(rn[m]) /\ rn[m][k].player = p}

\* A player's line counts, trophy by trophy, the months that gave it.
LEMMA MedalsAre ==
  ASSUME NEW rn, \A m \in DOMAIN rn : Len(rn[m]) \in Nat, NEW months, IsFiniteSet(months),
         DOMAIN rn \subseteq months, NEW p
  PROVE  /\ TrophiesOf(p, rn).player = p
         /\ \A k \in 1..Podium :
              /\ TrophiesOf(p, rn).medals[k] = Cardinality(Held(rn, p, k))
              /\ IsFiniteSet(Held(rn, p, k))
              /\ Cardinality(Held(rn, p, k)) \in Nat
<1> DEFINE mine == {x \in Places(rn) : rn[x[1]][x[2]].player = p}
<1>1. /\ TrophiesOf(p, rn).player = p
      /\ TrophiesOf(p, rn).medals = [k \in 1..Podium |-> Cardinality({x \in mine : x[2] = k})]
  BY DEF TrophiesOf
<1>2. ASSUME NEW k \in 1..Podium
      PROVE  /\ Cardinality({x \in mine : x[2] = k}) = Cardinality(Held(rn, p, k))
             /\ IsFiniteSet(Held(rn, p, k))
             /\ Cardinality(Held(rn, p, k)) \in Nat
  <2> DEFINE H == Held(rn, p, k)
             Q == {x \in mine : x[2] = k}
             f == [m \in H |-> <<m, k>>]
  <2>1. IsFiniteSet(H)
    BY FS_Subset DEF Held
  <2>2. \A m \in H : <<m, k>> \in Q
    BY DEF Held, Places
  <2>3. \A x \in Q : x[1] \in H /\ x = <<x[1], k>>
    BY DEF Held, Places
  <2> HIDE DEF H, Q
  <2>4. f \in Bijection(H, Q)
    BY <2>2, <2>3 DEF Bijection, Injection, Surjection, IsInjective
  <2>5. ExistsBijection(H, Q)
    BY <2>4 DEF ExistsBijection
  <2>6. Cardinality(Q) = Cardinality(H)
    BY <2>1, <2>5, FS_Bijection
  <2>7. Cardinality(H) \in Nat
    BY <2>1, FS_CardinalityType
  <2> QED
    BY <2>1, <2>6, <2>7 DEF H, Q
<1> HIDE DEF mine
<1> QED
  BY <1>1, <1>2

\* The players who may be said to hold a place.
PlacedIn(w, mode, m, k) == {p \in Players : Placed(w, mode, m, p, k)}

\* What HallRight says of the moments of the query and of the month's end.
HallAt(b, w, mode, months) ==
  LET entry(p) == {n \in DOMAIN b : b[n].player = p}
  IN  /\ \A k \in 1..Podium :
           /\ \A p \in Players : \A n \in entry(p) :
                /\ b[n].medals[k] <= Cardinality({m \in months : p \in PlacedIn(w, mode, m, k)})
                /\ b[n].medals[k] >= Cardinality({m \in months : PlacedIn(w, mode, m, k) = {p}})
           /\ SumFunction([n \in DOMAIN b |-> b[n].medals[k]])
                = Cardinality({m \in months : PlacedIn(w, mode, m, k) # {}})
      /\ \A p \in Players : Cardinality(entry(p)) <= 1
      /\ \A n \in DOMAIN b : \E k \in 1..Podium : b[n].medals[k] > 0
      /\ \A n, o \in DOMAIN b : n < o => ~ MoreMedals(b[o], b[n])

\* The lines of the hall of fame.
Lines(rn) == {TrophiesOf(rn[x[1]][x[2]].player, rn) : x \in Places(rn)}

\* E has one line for everyone with a trophy, that counts them.
LinesRight(E, rn) ==
  /\ IsFiniteSet(E)
  /\ \A e \in E : /\ e.player \in Players
                  /\ \A k \in 1..Podium : e.medals[k] = Cardinality(Held(rn, e.player, k))
                  /\ \E k \in 1..Podium : e.medals[k] > 0
  /\ \A e, f \in E : e.player = f.player => e = f
  /\ \A m \in DOMAIN rn : \A k \in 1..Podium :
       k <= Len(rn[m]) => \E e \in E : e.player = rn[m][k].player

\* The lines of the hall of fame are right when the places are.
LEMMA LinesAre ==
  ASSUME NEW w, NEW mode, NEW months, IsFiniteSet(months),
         NEW rn, RankingRight(rn, w, mode, months)
  PROVE  LinesRight(Lines(rn), rn)
<1>1. /\ DOMAIN rn \subseteq months
      /\ \A m \in DOMAIN rn : /\ Len(rn[m]) \in Nat
                              /\ \A k \in 1..Len(rn[m]) : rn[m][k].player \in Players
  BY DEF RankingRight
<1>2. \A p : /\ TrophiesOf(p, rn).player = p
             /\ \A k \in 1..Podium :
                  /\ TrophiesOf(p, rn).medals[k] = Cardinality(Held(rn, p, k))
                  /\ IsFiniteSet(Held(rn, p, k))
                  /\ Cardinality(Held(rn, p, k)) \in Nat
  BY <1>1, MedalsAre
<1> DEFINE P == Places(rn)
           line == [x \in P |-> TrophiesOf(rn[x[1]][x[2]].player, rn)]
<1>3. Podium \in Nat \ {0}
  BY BoardsAssumption
<1>4. IsFiniteSet(P)
  <2>1. IsFiniteSet(DOMAIN rn)
    BY <1>1, FS_Subset
  <2>2. IsFiniteSet(1..Podium)
    BY <1>3, FS_Interval
  <2>3. IsFiniteSet((DOMAIN rn) \X (1..Podium))
    BY <2>1, <2>2, FS_Product
  <2> QED
    BY <2>3, FS_Subset DEF Places
<1>5. \A x \in P : x[1] \in DOMAIN rn /\ x[2] \in 1..Podium /\ x[2] \in 1..Len(rn[x[1]])
  BY <1>1 DEF Places
<1>6. \A m \in DOMAIN rn : \A k \in 1..Podium : k <= Len(rn[m]) => <<m, k>> \in P
  BY DEF Places
<1> HIDE DEF P
<1>7. Lines(rn) = {line[x] : x \in P}
  BY DEF Lines, P
<1>8. IsFiniteSet(Lines(rn))
  <2>1. line \in Surjection(P, Lines(rn))
    BY <1>7 DEF Surjection
  <2> HIDE DEF line
  <2> QED
    BY <1>4, <2>1, FS_Surjection
<1>9. ASSUME NEW x \in P
      PROVE  /\ line[x] = TrophiesOf(rn[x[1]][x[2]].player, rn)
             /\ line[x].player = rn[x[1]][x[2]].player
             /\ line[x].player \in Players
             /\ line[x].medals[x[2]] > 0
  <2> DEFINE p == rn[x[1]][x[2]].player
             k == x[2]
  <2>1. line[x] = TrophiesOf(p, rn) /\ line[x].player = p
    BY <1>2
  <2>2. p \in Players /\ x[1] \in Held(rn, p, k) /\ k \in 1..Podium
    BY <1>1, <1>5 DEF Held
  <2> HIDE DEF p, k, line
  <2>3. /\ line[x].medals[k] = Cardinality(Held(rn, p, k))
        /\ IsFiniteSet(Held(rn, p, k))
        /\ Cardinality(Held(rn, p, k)) \in Nat
    BY <1>2, <2>1, <2>2
  <2>4. Cardinality(Held(rn, p, k)) # 0
    BY <2>2, <2>3, FS_EmptySet
  <2>5. line[x].medals[k] > 0
    BY <2>3, <2>4
  <2> QED
    BY <2>1, <2>2, <2>5 DEF p, k
<1> HIDE DEF line
<1>10. ASSUME NEW e \in Lines(rn)
       PROVE  /\ e = TrophiesOf(e.player, rn)
              /\ e.player \in Players
              /\ \A k \in 1..Podium : e.medals[k] = Cardinality(Held(rn, e.player, k))
              /\ \E k \in 1..Podium : e.medals[k] > 0
  <2>1. PICK x \in P : e = line[x]
    BY <1>7
  <2>2. e = TrophiesOf(e.player, rn) /\ e.player \in Players /\ e.medals[x[2]] > 0
    BY <1>9, <2>1
  <2>3. \A k \in 1..Podium : e.medals[k] = Cardinality(Held(rn, e.player, k))
    BY <1>2, <2>2
  <2> QED
    BY <1>5, <2>2, <2>3
<1>11. ASSUME NEW m \in DOMAIN rn, NEW k \in 1..Podium, k <= Len(rn[m])
       PROVE  \E e \in Lines(rn) : e.player = rn[m][k].player
  <2>1. <<m, k>> \in P
    BY <1>6, <1>11
  <2>2. line[<<m, k>>] \in Lines(rn) /\ line[<<m, k>>].player = rn[m][k].player
    BY <1>7, <1>9, <2>1
  <2> QED
    BY <2>2
<1> QED
  BY <1>8, <1>10, <1>11 DEF LinesRight

\* Sorted, the lines say of the places what the hall of fame should.
LEMMA HallIs ==
  ASSUME NEW w, NEW mode, NEW months, IsFiniteSet(months),
         NEW rn, RankingRight(rn, w, mode, months),
         NEW b \in OrderBy(Lines(rn), AheadInHall)
  PROVE  HallAt(b, w, mode, months)
<1> DEFINE E == Lines(rn)
           N == Cardinality(E)
           Placing(m, k) == PlacedIn(w, mode, m, k)
<1>1. /\ DOMAIN rn \subseteq months
      /\ \A m \in DOMAIN rn :
           /\ Len(rn[m]) \in Nat
           /\ \A k \in 1..Len(rn[m]) : rn[m][k].player \in Placing(m, k)
      /\ \A m \in months, k \in Nat :
           Placing(m, k) # {} => m \in DOMAIN rn /\ k <= Len(rn[m])
  BY DEF RankingRight, PlacedIn
<1>2. /\ IsFiniteSet(E)
      /\ \A e \in E : /\ e.player \in Players
                      /\ \A k \in 1..Podium : e.medals[k] = Cardinality(Held(rn, e.player, k))
                      /\ \E k \in 1..Podium : e.medals[k] > 0
      /\ \A e, f \in E : e.player = f.player => e = f
      /\ \A m \in DOMAIN rn : \A k \in 1..Podium :
           k <= Len(rn[m]) => \E e \in E : e.player = rn[m][k].player
  <2>1. LinesRight(E, rn)
    BY LinesAre
  <2> HIDE DEF E
  <2> QED
    BY <2>1 DEF LinesRight
<1>3. /\ b \in [1..N -> E]
      /\ \A i, j \in DOMAIN b : i < j => b[i] # b[j] /\ ~ AheadInHall(b[j], b[i])
  BY DEF OrderBy
<1> HIDE DEF E
<1>4. \A i, j \in DOMAIN b : i < j => b[i] # b[j]
  BY <1>3
<1>5. Lists(b, E)
  BY <1>2, <1>3, <1>4, Enumeration
<1>6. /\ N \in Nat
      /\ \A i, j \in 1..N : b[i] = b[j] => i = j
      /\ \A e \in E : \E i \in 1..N : b[i] = e
  BY <1>5 DEF Lists
<1> HIDE DEF N
<1>7. DOMAIN b = 1..N /\ \A n \in 1..N : b[n] \in E
  BY <1>3
<1>8. \A i, j \in 1..N : b[i].player = b[j].player => i = j
  BY <1>2, <1>6, <1>7
<1> DEFINE entry(p) == {n \in DOMAIN b : b[n].player = p}
<1>9. ASSUME NEW k \in 1..Podium, NEW p \in Players, NEW n \in entry(p)
      PROVE  /\ b[n].medals[k] <= Cardinality({m \in months : p \in Placing(m, k)})
             /\ b[n].medals[k] >= Cardinality({m \in months : Placing(m, k) = {p}})
  <2> DEFINE H == Held(rn, p, k)
             May == {m \in months : p \in Placing(m, k)}
             Must == {m \in months : Placing(m, k) = {p}}
  <2>1. b[n].medals[k] = Cardinality(H)
    BY <1>2, <1>7
  <2>2. k \in Nat /\ k >= 1
    BY BoardsAssumption
  <2>3. H \subseteq May
    BY <1>1, <2>2 DEF Held
  <2>4. Must \subseteq H
    <3> SUFFICES ASSUME NEW m \in months, Placing(m, k) = {p} PROVE m \in H
      OBVIOUS
    <3>1. m \in DOMAIN rn /\ k <= Len(rn[m]) /\ Len(rn[m]) \in Nat
      BY <1>1, <2>2
    <3>2. rn[m][k].player \in Placing(m, k)
      BY <1>1, <2>2, <3>1
    <3> QED
      BY <3>1, <3>2 DEF Held
  <2>5. IsFiniteSet(May)
    BY FS_Subset
  <2> HIDE DEF H, May, Must
  <2>6. IsFiniteSet(H) /\ Cardinality(H) <= Cardinality(May) /\ Cardinality(Must) <= Cardinality(H)
    BY <2>3, <2>4, <2>5, FS_Subset
  <2>7. IsFiniteSet(Must)
    BY <2>4, <2>6, FS_Subset
  <2>8. Cardinality(H) \in Nat /\ Cardinality(May) \in Nat /\ Cardinality(Must) \in Nat
    BY <2>5, <2>6, <2>7, FS_CardinalityType
  <2>9. b[n].medals[k] <= Cardinality(May) /\ b[n].medals[k] >= Cardinality(Must)
    BY <2>1, <2>6, <2>8
  <2> QED
    BY <2>9 DEF May, Must
<1>10. ASSUME NEW k \in 1..Podium
       PROVE  SumFunction([n \in DOMAIN b |-> b[n].medals[k]])
                = Cardinality({m \in months : Placing(m, k) # {}})
  <2> DEFINE X == {m \in months : Placing(m, k) # {}}
             h == [n \in 1..N |-> b[n].medals[k]]
             g == [m \in X |-> CHOOSE n \in 1..N : b[n].player = rn[m][k].player]
  <2>1. k \in Nat /\ k >= 1
    BY BoardsAssumption
  <2>2. IsFiniteSet(X) /\ IsFiniteSet(1..N)
    BY <1>6, FS_Subset, FS_Interval
  <2>3. ASSUME NEW m \in X PROVE m \in DOMAIN rn /\ k <= Len(rn[m])
    BY <1>1, <2>1
  <2>4. ASSUME NEW m \in DOMAIN rn, k <= Len(rn[m]) PROVE m \in X
    <3>1. Len(rn[m]) \in Nat /\ k \in 1..Len(rn[m])
      BY <1>1, <2>1, <2>4
    <3> QED
      BY <1>1, <3>1
  <2>5. ASSUME NEW m \in X PROVE g[m] \in 1..N /\ b[g[m]].player = rn[m][k].player
    <3>1. PICK e \in E : e.player = rn[m][k].player
      BY <1>2, <2>3
    <3>2. \E n \in 1..N : b[n].player = rn[m][k].player
      BY <1>6, <3>1
    <3> QED
      BY <3>2
  <2> HIDE DEF g, X
  <2>6. ASSUME NEW n \in 1..N PROVE h[n] = Cardinality({m \in X : g[m] = n})
    <3>1. h[n] = Cardinality(Held(rn, b[n].player, k))
      BY <1>2, <1>7
    <3>2. Held(rn, b[n].player, k) = {m \in X : g[m] = n}
      <4>1. ASSUME NEW m \in Held(rn, b[n].player, k) PROVE m \in X /\ g[m] = n
        <5>1. m \in X /\ rn[m][k].player = b[n].player
          BY <2>4 DEF Held
        <5> QED
          BY <1>8, <2>5, <5>1
      <4>2. ASSUME NEW m \in X, g[m] = n PROVE m \in Held(rn, b[n].player, k)
        BY <2>3, <2>5, <4>2 DEF Held
      <4> QED
        BY <4>1, <4>2
    <3> QED
      BY <3>1, <3>2
  <2>7. g \in [X -> 1..N]
    BY <2>5 DEF g
  <2>8. [n \in DOMAIN b |-> b[n].medals[k]] = h /\ DOMAIN h = 1..N
    BY <1>7
  <2> HIDE DEF h
  <2>9. SumFunctionOnSet(h, 1..N) = Cardinality(X)
    BY <2>2, <2>6, <2>7, SumOfCounts
  <2>10. SumFunction(h) = SumFunctionOnSet(h, 1..N)
    BY <2>8 DEF SumFunction
  <2> QED
    BY <2>8, <2>9, <2>10 DEF X
<1>11. ASSUME NEW p \in Players PROVE Cardinality(entry(p)) <= 1
  <2> DEFINE S == entry(p)
  <2>1. \A n, o \in S : n = o
    BY <1>7, <1>8
  <2> HIDE DEF entry, S
  <2>2. CASE S = {}
    <3>1. Cardinality(S) = 0
      BY <2>2, FS_EmptySet
    <3> QED
      BY <3>1 DEF S
  <2>3. CASE S # {}
    <3>1. PICK n \in S : S = {n}
      BY <2>1, <2>3
    <3>2. Cardinality(S) = 1
      BY <3>1, FS_Singleton
    <3> QED
      BY <3>2 DEF S
  <2> QED
    BY <2>2, <2>3
<1>12. \A n \in DOMAIN b : \E k \in 1..Podium : b[n].medals[k] > 0
  BY <1>2, <1>7
<1>13. \A n, o \in DOMAIN b : n < o => ~ MoreMedals(b[o], b[n])
  BY <1>3 DEF AheadInHall
<1> HIDE DEF entry, Placing
<1>14. \A k \in 1..Podium :
         /\ \A p \in Players : \A n \in entry(p) :
              /\ b[n].medals[k] <= Cardinality({m \in months : p \in Placing(m, k)})
              /\ b[n].medals[k] >= Cardinality({m \in months : Placing(m, k) = {p}})
         /\ SumFunction([n \in DOMAIN b |-> b[n].medals[k]])
              = Cardinality({m \in months : Placing(m, k) # {}})
  BY <1>9, <1>10
<1>15. \A p \in Players : Cardinality(entry(p)) <= 1
  BY <1>11
<1> QED
  BY <1>12, <1>13, <1>14, <1>15 DEF HallAt, entry, Placing

\* GetHallOfFame returns the right hall of fame of the months in its range.
LEMMA HallOfFameIs ==
  ASSUME NEW w, WorldOK(w), NEW mode, NEW a \in Nat, NEW c \in Nat,
         NEW b \in GetHallOfFame(w, mode, Start(a), Start(c))
  PROVE  HallAt(b, w, mode, a..(c - 1))
<1>1. PICK rn \in RowNumbers(Monthly(Between(w, mode, a, c))) :
        b \in OrderBy(Lines(rn), AheadInHall)
  BY DEF GetHallOfFame, Between, Lines
<1>2. RankingRight(rn, w, mode, a..(c - 1))
  BY RankingIs
<1>3. IsFiniteSet(a..(c - 1))
  BY FS_Interval
<1> QED
  BY <1>1, <1>2, <1>3, HallIs

HallTrue ==
  Answered("halloffame") =>
    \E i, j \in DOMAIN Moments :
      i <= j /\ HallAt(body, Moments[j], page.mode,
                       HofEarliestMonth..(Month(Moments[i].now) - 1))

\* Said of the query's months by name, the hall of fame is right.
LEMMA HallTrueIs == HallTrue => HallRight
BY DEF HallTrue, HallRight, HallAt, PlacedIn

\* The step that answers with the hall of fame makes it right.
LEMMA HallAnswered == BoardsIInv /\ BoardsNext => HallTrue'
<1> SUFFICES ASSUME BoardsIInv, BoardsNext, page'.kind = "halloffame", step' = "200"
             PROVE  \E i, j \in DOMAIN Moments' :
                      i <= j /\ HallAt(body', Moments'[j], page'.mode,
                                       HofEarliestMonth..(Month(Moments'[i].now) - 1))
  BY DEF HallTrue, Answered
<1>1. /\ page' = page
      /\ Moments' = Moments
      /\ Now \in DOMAIN Moments /\ Moments[Now] = world /\ WorldOK(world)
      /\ QueryHallOfFame
  BY AnsweredBy
<1>2. /\ page.kind = "halloffame" /\ step = "query"
      /\ body' \in GetHallOfFame(world, page.mode, Start(HofEarliestMonth), Start(body))
  BY <1>1 DEF QueryHallOfFame, ReadGoes
<1>3. PICK i \in DOMAIN Moments : body = Month(Moments[i].now)
  BY <1>2 DEF BoardsIInv, SoFar
<1>4. i <= Now /\ body \in Nat /\ HofEarliestMonth \in Nat
  BY <1>3, MomentsAre, MonthOfMoment, BoardsAssumption DEF BoardsIInv, HofEarliestMonth
<1>5. HallAt(body', world, page.mode, HofEarliestMonth..(body - 1))
  BY <1>1, <1>2, <1>4, HallOfFameIs
<1> QED
  BY <1>1, <1>3, <1>4, <1>5

\* The hall of fame counts, for every finished month since the launch and no
\* other, one trophy of each kind as far as there are players, gives them to
\* those who placed there and sorts by them, at one moment of the request and
\* for the months finished at an earlier one.
THEOREM HallIsTrue == BoardsSpec => []HallRight
<1>1. BoardsInit => HallTrue
  BY DEF BoardsInit, HallTrue, Answered
<1>2. BoardsIInv /\ HallTrue /\ [BoardsNext]_boardVars => HallTrue'
  <2>1. HallTrue /\ UNCHANGED boardVars => HallTrue'
    BY DEF boardVars, HallTrue, Answered, Moments
  <2> QED
    BY <2>1, HallAnswered
<1> QED
  BY <1>1, <1>2, InvHolds, HallTrueIs, PTL DEF BoardsSpec

=============================================================================

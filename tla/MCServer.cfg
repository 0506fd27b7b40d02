\* Two logins of up to two accounts and one submission; the clock runs past
\* the expiry of a session.
CONSTANTS
  l1 = l1
  p1 = p1
  Logins = {l1, l2}
  Submissions = {r1}
  Players = {p1, p2}
  NilPlayer = NilPlayer
  NoToken = NoToken
  SessionTokenExpiry = 1
  ScoreCooldown = 1
  MaxClock = 2
SPECIFICATION MCServerSpec
INVARIANTS
  ServerTypeOK
  ScoresOfTokenOwner
  LateSubmissionsStoreNothing
PROPERTIES
  AcceptedIsAnswered
  ServerIsAuth
  ServerIsScores

\* Three logins of up to two accounts, any of which may overlap.
CONSTANTS
  Logins = {l1, l2, l3}
  Players = {p1, p2}
  SessionTokenExpiry = 1
  MaxClock = 1
SPECIFICATION AuthSpec
SYMMETRY Symmetry
INVARIANTS
  AuthTypeOK
  OneSessionUnlessOverlapping
  IssuedTokenLives
  SessionsReferToPlayers
PROPERTY ImplementsLedger
\* The system stops when every login has been answered.
CHECK_DEADLOCK FALSE

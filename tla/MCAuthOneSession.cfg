CONSTANTS
  Logins = {l1, l2}
  Players = {p1}
  SessionTokenExpiry = 1
  MaxClock = 1
SPECIFICATION AuthSpec
INVARIANT OneSessionPerPlayer
\* The system stops when every login has been answered.
CHECK_DEADLOCK FALSE

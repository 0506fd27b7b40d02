CONSTANTS
  Submissions = {r1, r2}
  Players = {p1}
  NilPlayer = NilPlayer
  ScoreCooldown = 1
  MaxClock = 1
SPECIFICATION ScoresSpec
INVARIANT CooldownBetweenScores

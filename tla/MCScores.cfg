\* Three submissions, two players; the clock runs past one whole cooldown.
CONSTANTS
  Submissions = {r1, r2, r3}
  Players = {p1, p2}
  NilPlayer = NilPlayer
  ScoreCooldown = 2
  MaxClock = 2
SPECIFICATION ScoresSpec
SYMMETRY Symmetry
INVARIANTS
  ScoresTypeOK
  CooldownUnlessOverlapping
  AnswersTruthful
PROPERTY BanStopsNewScores

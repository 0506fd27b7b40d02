\* Three views: one in the cache, one in flight.
CONSTANTS
  Modes = {author, gold}
  Months = {m1}
  PlayerPages = {p1, p2}
  DefaultMode = author
  MaxClicks = 3
SPECIFICATION FrontendSpec
SYMMETRY Symmetry
INVARIANT StaleResponsesIgnored
\* The user stops after MaxClicks.
CHECK_DEADLOCK FALSE

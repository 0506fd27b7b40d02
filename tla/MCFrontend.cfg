\* Every kind of page; three clicks, responses and events in any order.  No
\* symmetry: LoadingEnds needs the full state graph.
CONSTANTS
  Modes = {author, gold}
  Months = {m1}
  PlayerPages = {p1, p2}
  DefaultMode = author
  MaxClicks = 3
SPECIFICATION FrontendFairSpec
INVARIANTS
  FrontendTypeOK
  StaleOnlyOverCached
  CacheTruthful
  HashNamesPage
PROPERTY LoadingEnds
\* The user stops after MaxClicks.
CHECK_DEADLOCK FALSE

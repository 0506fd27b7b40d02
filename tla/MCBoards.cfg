\* Tables of up to three runs; the clock starts at the last instant of month 3
\* or the first of month 4; the world changes twice while a request is served.
CONSTANTS
  Players = {1, 2, 3}
  DayLength = 2
  MonthLength = 4
  EarliestMonth = 1
  BoardLimit = 2
  Podium = 2
  ActivityDays = 2
  AllTime = AllTime
  Asked = {0, 3, 4, AllTime}
  Runs <- RunsMeanwhile
  StartTables <- SmallTables
  StartBans = {{}, {1}}
  StartTimes = {15, 16}
  MaxPast = 2
SPECIFICATION BoardsSpec
INVARIANTS
  BoardsTypeOK
  LeaderboardRight
  RecordsRight
  HallRight
  PlayerRight
  ActivityRight
  TrophiesFollowBoards
  RecordsLeadBoards
\* One request is followed, to its answer.
CHECK_DEADLOCK FALSE

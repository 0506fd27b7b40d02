\* Five players, tables of up to six runs, trophies and limits as in the code;
\* nothing moves.
CONSTANTS
  Players = {1, 2, 3, 4, 5}
  DayLength = 2
  MonthLength = 4
  EarliestMonth = 1
  BoardLimit = 50
  Podium = 3
  ActivityDays = 30
  AllTime = AllTime
  Asked = {AllTime}
  Runs = {}
  StartTables <- RivalTables
  StartBans = {{}}
  StartTimes = {20}
  MaxPast = 0
SPECIFICATION BoardsSpec
INVARIANT TiesBrokenByCareerBest
CHECK_DEADLOCK FALSE

SPECIFICATION FairSpec
CONSTANTS
  Users = {1, 2}
  Difficulties = {1}
  NoTime = NoTime
  SpeedLimit <- Limit
  OnFire = {2}
  GraduateWins = 2
  StarPlaces = 1
  Handlers = {h1}
  Bodies <- AllResults
  WeekLength = 1
  MaxReports = 3
  MaxTime = 0
  MaxFails = 1
  MaxCrashes = 1

INVARIANT RowsMatchHistory
PROPERTY FirstWinComes
CHECK_DEADLOCK FALSE

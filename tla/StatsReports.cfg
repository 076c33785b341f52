SPECIFICATION Spec
CONSTANTS
  Users = {1, 2}
  Difficulties = {1}
  NoTime = NoTime
  SpeedLimit <- Limit
  OnFire = {2}
  GraduateWins = 2
  StarPlaces = 1
  Handlers = {h1, h2}
  Bodies <- Results
  WeekLength = 1
  MaxReports = 3
  MaxTime = 1
  MaxFails = 0
  MaxCrashes = 1
INVARIANTS TypeOK WeeklyBoardComplete StreakIsTail
PROPERTY ImplementsLedger
SYMMETRY Alike
CHECK_DEADLOCK FALSE

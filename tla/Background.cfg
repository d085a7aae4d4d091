SPECIFICATION MCSpec
CONSTANTS
  Requests = {r1, r2, r3}
  MaxConn = 1
  MaxQueue = 2
  DbFails = TRUE
  Configurations <- MCConfigurations
  MaxRuns = 2
  MayCrash = TRUE
INVARIANTS
  AuditedOnce
  PoolRefills
  ExitTells
  NotedIsSent
PROPERTIES
  TrailDrains
  NothingOverwritten
  VisitsEveryClient
CHECK_DEADLOCK FALSE

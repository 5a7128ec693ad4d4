SPECIFICATION Spec
CONSTANTS
  N = 2
  Mode = "stream"
  Disallow <- MCNone
  FollowMaster = TRUE
  HealthCheck = TRUE
  RecoveryTimeout = 1
  c1 = c1
  Children <- MCChildren
  Pcp = Pcp
  Main = Main
  NoOne = NoOne
  Ops <- MCAll
  MaxRequests = 3
CHECK_DEADLOCK FALSE
INVARIANTS TypeOK SemaphoreNeverLost SlotsEmptyWhileSwitching PrimaryAlive

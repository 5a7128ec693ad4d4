SPECIFICATION FairSpec
CONSTANTS
  N = 3
  Mode = "replication"
  Disallow <- MCNode2
  FollowMaster = FALSE
  HealthCheck = TRUE
  RecoveryTimeout = 1
  c1 = c1
  Children <- MCChildren
  Pcp = Pcp
  Main = Main
  NoOne = NoOne
  Ops <- MCDetachConnect
  MaxRequests = 3
INVARIANTS DownOnlyByRequest NoStaleChild MasterAlive
PROPERTIES DisallowRespected DeadIsDetected

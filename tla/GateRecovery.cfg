SPECIFICATION FairSpec
CONSTANTS
  c1 = c1
  c2 = c2
  Children <- MCChildren
  NoOne = NoOne
  Ops <- MCRecovery
  WaitRetryCount = 1
  MaxClients = 2
  MaxEvents = 2
CHECK_DEADLOCK FALSE
INVARIANT TypeOK
PROPERTY GateReopens

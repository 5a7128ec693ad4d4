SPECIFICATION Spec
CONSTANTS
  N = 3
  s1 = s1
  s2 = s2
  Sessions <- MCSessions
  Statements <- MCAutocommit
  Faults <- MCVoteFaults
  LockKind = 3
  OneChild = FALSE
  StopOnMismatch = TRUE
  FailoverOnTuples = TRUE
  MaxStmts <- MCTwoAndOne
  MaxFaults = 1
CHECK_DEADLOCK FALSE
INVARIANTS SurvivorsAgree NoDistributedDeadlock MinorityLoses SerialsAgree

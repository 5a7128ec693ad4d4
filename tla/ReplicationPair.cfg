SPECIFICATION Spec
CONSTANTS
  N = 2
  s1 = s1
  s2 = s2
  Sessions <- MCSessions
  Statements <- MCMixed
  Faults <- MCPairFaults
  LockKind = 1
  OneChild = FALSE
  StopOnMismatch = FALSE
  FailoverOnTuples = FALSE
  MaxStmts <- MCThreeAndOne
  MaxFaults = 1
CHECK_DEADLOCK FALSE
INVARIANTS TypeOK AckedEverywhere SurvivorsAgree StatesAgree NoFalseMismatch

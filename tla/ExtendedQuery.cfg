SPECIFICATION Spec
CONSTANTS
  N = 2
  LoadBalanceNode = 1
  Stmts <- MCStmts
  Queries <- MCQueries
  Portals <- MCPortals
  ResetQueries <- MCReset
  MaxMessages = 5
CHECK_DEADLOCK FALSE
INVARIANTS TypeOK NoDanglingContext InStep

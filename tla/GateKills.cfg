SPECIFICATION Spec
CONSTANTS
  c1 = c1
  c2 = c2
  Children <- MCChildren
  NoOne = NoOne
  Ops <- MCKills
  WaitRetryCount = 1
  MaxClients = 2
  MaxEvents = 2
CHECK_DEADLOCK FALSE
INVARIANTS NeverCountedTooFew OnlyWindowClients

SPECIFICATION Spec
CONSTANTS
  N = 2
  Cleared = 3
  MaxPool = 2
  k1 = k1
  k2 = k2
  k3 = k3
  Keys <- MCKeys3
  NoKey = NoKey
  Packets <- MCPackets
  LifeTime = 2
  AuthTimeout = 1
  InitialDown <- MCNode1Down
  Ops <- MCAll
  MaxTime = 3
  MaxEvents = 6
CHECK_DEADLOCK FALSE
INVARIANTS TypeOK UniqueKey SessionHasEveryNode
  NoLeak AlarmInTime

SPECIFICATION Spec
CONSTANTS
  N = 4
  Cleared = 3
  MaxPool = 1
  k1 = k1
  k2 = k2
  k3 = k3
  Keys <- MCKeys
  NoKey = NoKey
  Packets <- MCPackets
  LifeTime = 2
  AuthTimeout = 1
  InitialDown <- MCAllButLast
  Ops <- MCAll
  MaxTime = 5
  MaxEvents = 4
CHECK_DEADLOCK FALSE
INVARIANTS AuthAlarmHitsNoSession SessionIsMine

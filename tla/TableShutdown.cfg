SPECIFICATION FairSpec
CONSTANTS
  p1 = p1
  p2 = p2
  p3 = p3
  p4 = p4
  p5 = p5
  s1 = s1
  Slots <- MCSlots
  Specials <- MCPcp
  Pids <- MCPids4
  NoPid = NoPid
  LifeTime = FALSE
  StopSigs <- MCBoth
  Ops <- MCNoSpecials
CHECK_DEADLOCK FALSE
PROPERTIES SlotsRefilled 

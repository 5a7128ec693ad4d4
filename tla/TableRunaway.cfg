SPECIFICATION Spec
CONSTANTS
  p1 = p1
  p2 = p2
  p3 = p3
  p4 = p4
  p5 = p5
  s1 = s1
  Slots <- MCSlots
  Specials <- MCSpecials
  Pids <- MCPids5
  NoPid = NoPid
  LifeTime = TRUE
  StopSigs <- MCBoth
  Ops <- MCAll
SYMMETRY MCSymmetry
CHECK_DEADLOCK FALSE
INVARIANTS TypeOK NoRunaway

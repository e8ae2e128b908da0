CONSTANTS
  Conns = {c1, c2}
  Msgs = {m1, m2, m3}
  SendCap = 1
  RegCap = 1
  UnregCap = 1
  BcastCap = 1
SPECIFICATION Spec
SYMMETRY Symmetry
INVARIANTS NeverPanics StreamContiguous StoppedClean
PROPERTY ImplementsFeedStream
CHECK_DEADLOCK FALSE

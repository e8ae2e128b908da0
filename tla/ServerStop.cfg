CONSTANTS
  Conns = {c1}
  Msgs = {m1}
  SendCap = 1
  RegCap = 1
  UnregCap = 1
  BcastCap = 1
  Environments <- Spoilt
SPECIFICATION ServerFairSpec
INVARIANTS ServerTypeOK CleanExit
PROPERTIES ServerStops
CHECK_DEADLOCK FALSE

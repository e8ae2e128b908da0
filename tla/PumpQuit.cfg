CONSTANTS
  Conns = {c1, c2}
  Msgs = {}
  SendCap = 1
  RegCap = 1
  UnregCap = 1
  BcastCap = 1
SPECIFICATION FairSpec
PROPERTY ClientsReleased
CHECK_DEADLOCK FALSE

CONSTANTS
  Conns = {c1}
  Msgs = {m1, m2, m3}
  SendCap = 1
  RegCap = 1
  UnregCap = 1
  BcastCap = 1
SPECIFICATION FairSpec
PROPERTIES EveryPayloadFannedOut ShutdownCompletes ClientsReleased
CHECK_DEADLOCK FALSE

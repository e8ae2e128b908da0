CONSTANTS
  Users = {u1}
  Names = {n1}
  Slots = {s1, s2}
  TTL = 2
  Second = 1
  MaxTries = 2
  MaxTime = 2
  Faults = FALSE
  None = None
SPECIFICATION Spec
SYMMETRY Symmetry
INVARIANT CurrentTokenRefreshable
CHECK_DEADLOCK FALSE

CONSTANTS
  Users = {u1, u2}
  Names = {n1, n2}
  Slots = {s1}
  TTL = 2
  Second = 1
  MaxTries = 2
  MaxTime = 1
  Faults = TRUE
  None = None
SPECIFICATION Spec
SYMMETRY Symmetry
INVARIANTS TokenNamesOwner
CHECK_DEADLOCK FALSE

CONSTANTS
  Checks = {x1, x2, x3}
  Subjects = {t1}
  Requests = 2
  Window = 2
  Grace = 1
  Parts = {p1, p2}
  MaxTime = 3
  Faults = TRUE
  None = None
SPECIFICATION Spec
SYMMETRY Symmetry
INVARIANTS TypeOK WindowBound EveryWindowBound RefusedOnlyWhenBusy
CHECK_DEADLOCK FALSE

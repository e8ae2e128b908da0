CONSTANTS
  Posts = {1, 2, 3}
  Times = {1, 2}
  Slots = {s1}
  Limits = {0, 3}
  DefaultLimit = 2
  MaxLimit = 2
  TTL = 2
  None = None
SPECIFICATION Spec
INVARIANTS NeverTwice MissesOnlyTies WithdrawnWithinTTL
PROPERTIES FadedStaysFaded WithdrawnFades
CHECK_DEADLOCK FALSE

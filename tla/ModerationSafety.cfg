CONSTANTS
  Posts = {p1}
  Reporters = {r1, r2, r3}
  Slots = {s1, s2}
  Admins = {a1, a2}
  Threshold = 2
  Faults = TRUE
  None = None
SPECIFICATION Spec
SYMMETRY Symmetry
INVARIANTS ResolvedIsHidden HiddenForCause RevokedIsBanned BanRevokes AutoHideWithinSlack
PROPERTIES DecisionStands ImplementsCasebook
CHECK_DEADLOCK FALSE

CONSTANTS
  Posts = {p1}
  Users = {u1}
  Slots = {s1}
  MaxReplies = 0
  MaxScore = 1
  Faults = FALSE
  None = None
SPECIFICATION Spec
SYMMETRY Symmetry
INVARIANT ScoreCountsReactions
CHECK_DEADLOCK FALSE

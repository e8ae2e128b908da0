CONSTANTS
  Posts = {p1}
  Users = {u1, u2}
  Slots = {s1, s2}
  MaxReplies = 2
  MaxScore = 2
  Faults = TRUE
  None = None
SPECIFICATION Spec
SYMMETRY Symmetry
INVARIANTS TypeOK ReplyCountExact NoOrphans ScoreFollowsFlips
CHECK_DEADLOCK FALSE

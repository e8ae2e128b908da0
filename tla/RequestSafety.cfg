CONSTANTS
  Users = {u1}
  Names = {n1, n2}
  Slots = {s1, s2}
  TTL = 2
  Second = 2
  MaxTries = 2
  MaxTime = 2
  Faults = TRUE
  None = None
  Reqs = {q1}
  Routes = {"create", "action", "feed"}
  Leaks <- Forwarded
SPECIFICATION PipelineSpec
SYMMETRY Symmetry
VIEW Seen
INVARIANTS GoneNeverActs ActsAsOwner AnswersHardened
INVARIANTS SessionBacked PromotionSticks UndisturbedRefreshable
PROPERTIES GoneStaysGone ImplementsMembership
CHECK_DEADLOCK FALSE

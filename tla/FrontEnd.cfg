CONSTANTS
  p1 = p1  p2 = p2  p3 = p3  o1 = o1
  Process = {p1, p2, p3}
  Old = {o1}
  Limit = 2
  Requests <- AllRequests
SPECIFICATION MCSpec
SYMMETRY Alike
INVARIANTS
  RecentSurvive
  KeptBounded
  OutcomeIsWhole
CHECK_DEADLOCK FALSE

CONSTANTS
  p1 = p1  p2 = p2  p3 = p3  o1 = o1
  Process = {p1}
  Old = {o1}
  Limit = 2
  Requests <- OneRequest
SPECIFICATION FrontEndSpec
INVARIANT
  ProfilePerTask
CHECK_DEADLOCK FALSE

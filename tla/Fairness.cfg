SPECIFICATION FSpec
CONSTANTS
  Session = {s1, s2, s3}
  Task = {1, 2}
  Job <- TwoClasses
  Capacities <- OneLane
  Resubmit = TRUE
  NoSession = NoSession
  NoJob = NoJob
PROPERTIES
  NoDoubleTurn

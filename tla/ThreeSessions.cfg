SPECIFICATION Spec
CONSTANTS
  Session = {s1, s2, s3}
  Task = {1, 2}
  Job <- MCJob
  Capacities <- Enough
  NoSession = NoSession
  NoJob = NoJob
SYMMETRY Alike
INVARIANTS
  Rotation
  WorkConserving
  ExclusiveDevice
PROPERTIES
  PriorityAmongAdmissible

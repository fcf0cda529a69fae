SPECIFICATION Spec
CONSTANTS
  Session = {s1, s2}
  Task = {1, 2}
  Job <- MCJob
  Capacities <- Several
  NoSession = NoSession
  NoJob = NoJob
INVARIANTS
  TypeOK
  Accounting
  Tickets
  Quota
  SessionCounters
  Dependencies
  FailureIsFinal
PROPERTIES
  Lifecycle

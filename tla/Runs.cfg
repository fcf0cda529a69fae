CONSTANTS
  a = a
  b = b
  Session = {a, b}
  Task = {1, 2, 3}
  Job <- AllJobs
  Capacities <- OneOrTwo
  Worker = {1, 2}
  Hardware = 4
  NoSession = NoSession
  NoJob = NoJob
SPECIFICATION RunsSpec
INVARIANTS
  NoLostWakeup
  DeclaredInputsResolve
  EachTaskOneWorker
  NothingHeldAfterwards
PROPERTIES
  KeepsPromise
  EveryRunReturns
ACTION_CONSTRAINT PairsOfJobs
CHECK_DEADLOCK FALSE

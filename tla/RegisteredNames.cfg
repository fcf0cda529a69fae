CONSTANTS
  s1 = s1  s2 = s2  n1 = n1  n2 = n2  sim = sim
  f = f  g = g  d1 = d1  d2 = d2
  Runner = {sim, n1, n2}
  Simulator = {sim}
  Sim = sim
  Task = {s1, s2, n1, n2}
  Request <- ShortNames
  Function = {f, g}
  MaxNames = 2
  NoRunner = NoRunner
  NoRequest = NoRequest
  Scenario <- TwoFunctions
SPECIFICATION BackendsSpec
INVARIANT
  StableName
CHECK_DEADLOCK FALSE

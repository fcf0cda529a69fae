SPECIFICATION SerialSpec
CONSTANTS
  Id = {p, q, r, u}
  NoId = NoId
  NoGraph = NoGraph
  MaxRun = 3
  Deps <- ShortLists
SYMMETRY Renaming
INVARIANTS
  RefusedOnlyIfImpossible
  BreadthFirst
  FollowsPlan
PROPERTIES
  KeepsPromise
CHECK_DEADLOCK FALSE

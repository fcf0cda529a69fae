SPECIFICATION Spec
CONSTANTS
  Holder = {h1, h2}
  Requirements <- MCRequirements
  Capacities <- MCCapacities
  MaxToken = 3
INVARIANTS
  ExclusiveStream
PROPERTIES
  KeepsLedger
  NeverOvercommit

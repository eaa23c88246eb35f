SPECIFICATION Spec
CONSTANTS
  Client = {c1, c2}
  Disk = {d1, d2, d3}
  Write = {w1}
  RepNum = 2
  MaxCall = 1
  MaxRetry = 0
  Faults = {}
  None = None
SYMMETRY Symm
CHECK_DEADLOCK FALSE
INVARIANTS TypeOK RepIntegrity LockExclusion OriginalHoldsAcked 
PROPERTIES NoResurrection ImplementsReplicaSet

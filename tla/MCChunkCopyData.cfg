SPECIFICATION Spec
CONSTANTS
  Src = {s1, s2}
  Dist = {d1, d2}
  Block = 2
  MaxChunk = 7
CHECK_DEADLOCK FALSE
INVARIANTS ReplicaEqualsSource

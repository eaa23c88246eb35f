SPECIFICATION Spec
CONSTANTS
  Caller = {c1, c2, c3}
  Shard = {s1, s2}
  MaxCall = 3
INVARIANTS OneBatch
PROPERTIES ImplementsFifo CallsReturn
CHECK_DEADLOCK FALSE

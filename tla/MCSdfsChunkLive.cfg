SPECIFICATION Spec
CONSTANTS
  Client = {c1, c2}
  Disk = {d1, d2}
  Write = {w1}
  RepNum = 2
  MaxCall = 1
  MaxRetry = 0
  Faults = {}
  None = None
CHECK_DEADLOCK FALSE
PROPERTIES  LockFreed

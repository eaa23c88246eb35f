SPECIFICATION Spec
CONSTANTS
  Task = {t1, t2, t3, t4}
  PrioTask = {t4}
  NoTask = NoTask
  WaitTmo = 1
  RpcTimeout = 1
  MaxTime = 3
INVARIANTS TypeOK Exclusion NoLostWakeup QueuedOnce
PROPERTY NoStarvation

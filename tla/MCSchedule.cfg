SPECIFICATION Spec
CONSTANTS
  TaskMax = 3
  Limit = 1
  j1 = j1
  j2 = j2
  j3 = j3
  Job = {j1, j2, j3}
  Throttled = {j1, j2}
  PrioMax = 2
  MaxWait = 5
  Uses <- MCUses
  NoJob = NoJob
INVARIANTS ListsAgree AnswerIsOwn WakeupPending 
PROPERTIES JobsFinish
CHECK_DEADLOCK FALSE

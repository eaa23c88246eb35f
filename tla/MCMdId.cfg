SPECIFICATION IdSpec
CONSTANTS
  d1 = d1
  d2 = d2
  t1 = t1
  Node <- MCNode
  MdidStep <- MCStep
  MaxId = 7
  MaxCrash = 1
CHECK_DEADLOCK FALSE
INVARIANTS IdInv NoRepeat

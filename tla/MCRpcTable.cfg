SPECIFICATION Spec
CONSTANTS
  Caller = {c1, c2}
  Poster = {p1}
  Scanner = scanner
  Resetter = {r1}
  None = None
  SlotMax = 2
  k1 = k1
  k2 = k2
  Sock = {k1, k2}
  Modulus = 4
  Uses <- MCUses
INVARIANTS AnswerIsOwn EndedOnce ContextsSafe NoLeakedSlot
PROPERTIES CallsReturn
CHECK_DEADLOCK FALSE

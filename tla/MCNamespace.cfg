SPECIFICATION Spec
CONSTANTS
  None = None
  Empty = Empty
  Client = {c1, c2, c3}
  Name = {a, b}
  MaxFid = 3
  Uses <- MCUses
SYMMETRY Symmetry
INVARIANTS EntryHasInode  
PROPERTY LastNameKept
CHECK_DEADLOCK FALSE

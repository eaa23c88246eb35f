SPECIFICATION Spec
CONSTANTS
  n1 = n1
  n2 = n2
  Core = {n1, n2}
  Task <- MCTask
  MaxSize = 2
  Uses <- MCUses
  None = None
PROPERTIES ImplementsFileSize SizeNeverShrinks SizeReachesRedis CallsEnd
CHECK_DEADLOCK FALSE

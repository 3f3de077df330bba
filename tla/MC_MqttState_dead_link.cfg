SPECIFICATION LiveSpec
CONSTANTS
  p1 = p1
  p2 = p2
  Publishers <- None
  OutOfMemory = FALSE
  MaxCalls = 1
  MaxPackets = 1
  MaxEvents = 1
CHECK_DEADLOCK FALSE
PROPERTIES
  DeadLinkNoticed

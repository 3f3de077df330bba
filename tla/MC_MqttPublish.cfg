SPECIFICATION Spec
CONSTANTS
  p1 = p1
  p2 = p2
  Callers <- Two
  QoSs = {1}
  MC_PACKET_ID_MAX = 9
  MC_REPUB_NUM_MAX = 2
  OutOfMemory = TRUE
  MaxPublishes = 2
  MaxInFlight = 1
CHECK_DEADLOCK FALSE
INVARIANTS
  TypeOK
  NoUseAfterFree
  WordKept
PROPERTIES
  AtLeastOnce

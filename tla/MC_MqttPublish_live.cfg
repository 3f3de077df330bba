SPECIFICATION LiveSpec
CONSTANTS
  p1 = p1
  p2 = p2
  Callers <- Two
  QoSs = {1, 2}
  MC_PACKET_ID_MAX = 9
  MC_REPUB_NUM_MAX = 2
  OutOfMemory = FALSE
  MaxPublishes = 1
  MaxInFlight = 2
CHECK_DEADLOCK FALSE
PROPERTIES
  PublishReturns
  Qos1Ends

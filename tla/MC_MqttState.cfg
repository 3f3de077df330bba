SPECIFICATION LiveSpec
CONSTANTS
  p1 = p1
  p2 = p2
  Publishers <- Two
  OutOfMemory = TRUE
  MaxCalls = 1
  MaxPackets = 2
  MaxEvents = 1
CHECK_DEADLOCK FALSE
INVARIANTS
  TypeOK
  ToldExactly
  NothingLeft
PROPERTIES
  SilenceIsPinged
  FailureIsTold

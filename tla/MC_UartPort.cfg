SPECIFICATION LiveSpec
CONSTANTS
  send = send
  recv = recv
  Tasks <- Both
  Prio <- BothPrio
  MsgLen = 2
  MaxSends = 3
  AssertOnBusy = TRUE
CHECK_DEADLOCK FALSE
INVARIANTS
  TypeOK
  NotInterleaved
  HangIsPreemption
  SerialisedIsSafe
PROPERTIES
  SendReturns

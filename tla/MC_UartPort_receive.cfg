SPECIFICATION Spec
CONSTANTS
  send = send
  recv = recv
  Tasks <- Alone
  Prio <- AlonePrio
  MsgLen = 1
  MaxSends = 1
  AssertOnBusy = FALSE
CHECK_DEADLOCK FALSE
INVARIANTS
  ContinuousReceive

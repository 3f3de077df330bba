\* Undefined behaviour stops the firmware for ever.
SPECIFICATION LiveSpec
CONSTANTS
  BUF_LEN = 210
  DEBUG_LEN = 512
  MaxPackets = 3
  Cuts <- MCCuts
INVARIANTS TypeOK RoundRight FaultExplained
PROPERTY KeepsPolling
CHECK_DEADLOCK FALSE

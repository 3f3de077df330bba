SPECIFICATION LiveSpec
CONSTANTS
  Filters = {"f1", "f2"}
  Callbacks = {"h1", "h2"}
  MC_SUB_NUM_MAX = 2
  MC_SUB_REQUEST_NUM_MAX = 2
  OutOfMemory = TRUE
  MaxRequests = 3
CHECK_DEADLOCK FALSE
INVARIANTS
  TypeOK
  OneAnswer
  TableExact
PROPERTIES
  RequestEnds

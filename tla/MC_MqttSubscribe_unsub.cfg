SPECIFICATION Spec
CONSTANTS
  Filters = {"f1"}
  Callbacks = {"h1"}
  MC_SUB_NUM_MAX = 2
  MC_SUB_REQUEST_NUM_MAX = 2
  OutOfMemory = TRUE
  MaxRequests = 2
CHECK_DEADLOCK FALSE
PROPERTIES
  UnsubackRemoves

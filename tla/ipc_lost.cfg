CONSTANTS
  NrUsers = 2
  NrNative = 2
  Calls <- AllCalls
  Workloads = {"boot"}
SPECIFICATION ForeverSpec
INVARIANTS NobodySending
CHECK_DEADLOCK FALSE

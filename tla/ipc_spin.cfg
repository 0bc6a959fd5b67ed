CONSTANTS
  NrUsers = 2
  NrNative = 2
  Calls <- AllCalls
  Workloads = {"disk"}
SPECIFICATION BoundedSpec
INVARIANTS CheckEnds
CHECK_DEADLOCK FALSE

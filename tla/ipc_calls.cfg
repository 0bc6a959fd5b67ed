CONSTANTS
  NrUsers = 2
  NrNative = 2
  Calls <- AllCalls
  Workloads = {"boot", "sys", "full", "file", "lone"}
SPECIFICATION ForeverSpec
INVARIANTS  ReplyOwed 
PROPERTIES BootSettles FifoOnce CallAnswered

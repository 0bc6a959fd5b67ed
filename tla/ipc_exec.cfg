CONSTANTS
  NrUsers = 2
  NrNative = 2
  Calls <- AllCalls
  Workloads = {"exec"}
SPECIFICATION BoundedSpec
INVARIANTS TypeOK RunnerReady SlotKept WaitNamed QueuesEnd QueuedHasMessage ExitFromUser
PROPERTIES DeadMemory ReceiverStays

\* The queue under the leader lock: safety, liveness and refinement.
CONSTANTS
  m1 = m1
  n1 = n1
  n2 = n2
  NoMsg = NoMsg
  NoNode = NoNode
  Msg  <- MCMsg
  Node <- MCNode
  Home <- MCHome
  MaxDepth  = 1
  MaxFaults = 2
  MaxCopies = 3
SPECIFICATION HaFairSpec
INVARIANTS
  PassNeedsLock
  LeaseKept
  DuplicateNeedsFault
PROPERTIES
  QueueDrains
  ImplementsDurable

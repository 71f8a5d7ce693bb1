\* A temporary failure is retried: the code's own comment, refuted.
CONSTANTS
  m1 = m1
  n1 = n1
  n2 = n2
  NoMsg = NoMsg
  NoNode = NoNode
  Msg  <- MCMsg
  Node <- MCNode
  Home <- MCHome
  MaxDepth  = 1
  MaxFaults = 0
  MaxCopies = 3
SPECIFICATION HaFairSpec
PROPERTIES
  FailureRetried

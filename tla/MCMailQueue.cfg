\* The file protocol without the leader lock: what holds for any workers.
CONSTANTS
  m1 = m1
  m2 = m2
  n1 = n1
  n2 = n2
  NoMsg = NoMsg
  Msg  <- MCMsg
  Node <- MCNode
  Home <- MCHome
  MaxDepth  = 1
  MaxFaults = 1
  MaxCopies = 1
SYMMETRY MCSymmetry
SPECIFICATION Spec
INVARIANTS
  NoLoss
  SinglePlace

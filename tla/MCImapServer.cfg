\* Sessions begin, fail and end around the shutdown of the server.
CONSTANTS
  c1 = c1
  c2 = c2
  c3 = c3
  f1 = f1
  f2 = f2
  f3 = f3
  NoFd     = NoFd
  Free     = Free
  Listener = Listener
  Conn <- MCConn
  Fd   <- MCFd
  MaxConn = 2
  TlsPort = TRUE
SPECIFICATION ImapLeavingSpec
INVARIANTS
  ImapInv
  StopLeavesNothing
PROPERTY StopReturns
CHECK_DEADLOCK FALSE

\* Connections that come, fail and end around the limits and the shutdown.
CONSTANTS
  c1 = c1
  c2 = c2
  i1 = i1
  f1 = f1
  f2 = f2
  NoFd = NoFd
  Free = Free
  Other = Other
  Conn <- MCConn
  Ip   <- MCIp
  IpOf <- MCIpOf
  Fd   <- MCFd
  GlobalMax = 2
  PerIpMax  = 2
  ConnLimit = 2
  MaxRate   = 3
  TlsPort   = TRUE
CHECK_DEADLOCK FALSE
SPECIFICATION SrvFairSpec
INVARIANTS
  SrvInv
  GlobalBounded
  NoPhantoms
PROPERTY StopReturns

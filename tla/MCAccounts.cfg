\* Processes load and migrate a users file that is edited; threads change the
\* accounts and sessions of a cluster while entries expire.
CONSTANTS
  n1 = n1
  n2 = n2
  a1 = a1
  a2 = a2
  p1 = p1
  u1 = u1
  s1 = s1
  s2 = s2
  t1 = t1
  t2 = t2
  NoPassword = NoPassword
  NoFile = NoFile
  None   = None
  Node     <- MCNode
  Account  <- MCAccount
  Password <- MCPassword
  User   <- MCUser
  Sess   <- MCSess
  Thread <- MCThread
  Ttl     = 2
  Hours   = 1
  MaxTime = 4
SYMMETRY MCSymmetry
SPECIFICATION MCSpec
CHECK_DEADLOCK FALSE
INVARIANTS
  RevokedUnlessRaced
  AccountsFollow
  SessionLasts
  AccountsSurvive
  InMemoryIsOnDisk
  KeptHashed

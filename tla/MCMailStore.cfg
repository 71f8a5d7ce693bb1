\* Concurrent and interrupted calls of store, and verdicts, on two mailboxes.
CONSTANTS
  m1 = m1
  m2 = m2
  u1 = u1
  u2 = u2
  t1 = t1
  t2 = t2
  NoMsg = NoMsg
  NoUser = NoUser
  Msg  <- MCMsg
  User <- MCUser
  Id   <- MCId
SPECIFICATION StoreFairSpec
INVARIANTS
  KeptUnlessNamesake
PROPERTIES
  StoreReturns
  ImplementsMailbox

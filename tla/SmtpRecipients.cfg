\* Only the first recipient has a copy.
CONSTANTS
  m1 = m1
  m2 = m2
  s1 = s1
  s2 = s2
  u1 = u1
  u2 = u2
  t1 = t1
  t2 = t2
  NoMsg = NoMsg
  NoUser = NoUser
  Msg     <- MC1Msg
  Session <- MC1Session
  User    <- MCUser
  Id      <- MC1Id
  MaxRcpt = 2
SPECIFICATION SmtpSpec
INVARIANT EveryRecipientServed

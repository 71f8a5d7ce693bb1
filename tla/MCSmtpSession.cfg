\* Two dialogues that store into one mailbox, in one millisecond or in two.
CONSTANTS
  m1 = m1
  m2 = m2
  s1 = s1
  s2 = s2
  u1 = u1
  u2 = u2
  t1 = t1
  t2 = t2
  NoMsg = NoMsg
  NoUser = NoUser
  Msg     <- MCMsg
  Session <- MCSession
  User    <- MC1User
  Id      <- MCId
  MaxRcpt = 1
SYMMETRY MCSymmetry
SPECIFICATION SmtpSpec
INVARIANTS
  EnvelopeAsAgreed
  AckedIsDurable
PROPERTY ImplementsRelay

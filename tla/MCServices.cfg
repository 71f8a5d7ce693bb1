\* Threads register, shut down and wait; initialise and shut down; and log.  A
\* process from its start to its end, whatever its configuration.
CONSTANTS
  t1 = t1
  t2 = t2
  t3 = t3
  h1 = h1
  h2 = h2
  h3 = h3
  logging = logging
  storage = storage
  servers = servers
  a1 = a1
  a2 = a2
  b1 = b1
  b2 = b2
  b3 = b3
  Nobody  = Nobody
  NoClient = NoClient
  Client   = {c1}
  Configs <- MCConfigs
  Environments <- MCEnvironments
  CannotOpen = CannotOpen
  Thread  <- MCThread
  Hook    <- MCHook
  Priority <- MCPriority
  Sub     <- MCSub
  PhaseOf <- MCPhase
  ShutdownOrder <- MCOrder
  Line    <- MCLine
  Audited <- MCAudited
  Files    = 1
  MaxSize  = 3
  Size     <- MCSize
  Slack    = 1
  MaxFaults = 2
SYMMETRY MCSymmetry
SPECIFICATION MCSpec
CHECK_DEADLOCK FALSE
INVARIANTS
  PhasesInOrder
  ToldIsDown
  StateIsTrue
  KeptInOrder
  SizeBounded
  AuditedInOrder
  ServesAsConfigured
  EndsInOrder
  AdminEndsAlone

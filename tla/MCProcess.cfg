\* A process that is sent a signal, and no client that has to come (run.md:334).
CONSTANTS
  NoClient = NoClient
  Client   = {c1, c2}
  Configs <- MCSound
  Environments <- MCEnvironments
SPECIFICATION ProcSpec
CHECK_DEADLOCK FALSE
PROPERTY SignalEnds

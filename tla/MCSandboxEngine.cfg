\* The worker's queue and the files of its stores, over deaths and restarts.
CONSTANTS
  i1 = i1
  i2 = i2
  Id      <- MCId
  Verdict <- MCVerdict
  Stores  <- MCStores
  MaxSubmits = 2
  MaxDeaths  = 2
  DiskFails  = TRUE
SPECIFICATION SandboxFairSpec
INVARIANTS
  SandboxInv
  StopDrains
  SavedAsKnown
PROPERTIES
  RecordsKept
  StopReturns
CHECK_DEADLOCK FALSE

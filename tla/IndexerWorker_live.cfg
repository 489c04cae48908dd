SPECIFICATION FairSpec
CONSTANTS
  P = P
  Pool <- Pools
  Event <- SwapBurn
  InitialPools <- Pools
  MaxAttempts = 2
  MaxStalls = 0
  Concurrency = 1
  MaxCopy = 1
  MaxDepth = 0
  MaxFaults = 1
  MaxDlqFaults = 0
  MaxCrashes = 1
  MaxReplays = 1
  MayShutdown = TRUE
CHECK_DEADLOCK FALSE
PROPERTY EveryJobSettles

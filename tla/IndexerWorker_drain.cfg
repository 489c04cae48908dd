SPECIFICATION Spec
CONSTANTS
  P = P
  Pool <- Pools
  Event <- CreatedSwap
  InitialPools <- NoPools
  MaxAttempts = 3
  MaxStalls = 2
  Concurrency = 2
  MaxCopy = 0
  MaxDepth = 0
  MaxFaults = 0
  MaxDlqFaults = 0
  MaxCrashes = 1
  MaxReplays = 0
  MayShutdown = TRUE
CHECK_DEADLOCK FALSE
INVARIANT AtLeastOnce

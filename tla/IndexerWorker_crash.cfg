SPECIFICATION Spec
CONSTANTS
  P = P
  Pool <- Pools
  Event <- CreatedMint
  InitialPools <- NoPools
  MaxAttempts = 2
  MaxStalls = 1
  Concurrency = 1
  MaxCopy = 0
  MaxDepth = 1
  MaxFaults = 1
  MaxDlqFaults = 1
  MaxCrashes = 1
  MaxReplays = 0
  MayShutdown = FALSE
CHECK_DEADLOCK FALSE
INVARIANTS AtLeastOnce DispatchBacked QueuesSound
PROPERTY CursorSpec

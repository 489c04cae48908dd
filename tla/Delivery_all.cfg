SPECIFICATION DeliverySpec
CONSTANTS
  Links = {"cursor", "poller", "hooks", "replicas"}
  p1 = p1
  p2 = p2
  Proc <- Callers
  Ledger <- Ledgers
  Accounts <- MCAccounts
  Roots <- MCRoots
  Chain <- MCChain
  LedgerSpan = 10
  PageLimit = 2
  FirstCheckpoint = 1
  MaxFaults = 2
  MaxCrashes = 1
  Hooks <- MCHooks
  Events <- MCEvents
  Subscribed <- MCSubscribed
  Processes <- MCProcesses
  Attempts = 2
  MaxFails = 2
  MaxStalled = 1
  MaxJobs = 2
  MaxRetries = 1
  MaxLosses = 1
INVARIANTS IInv PollerInv LogAgrees PostsBounded
PROPERTIES DoneIsDelivered CacheNeverRegresses EveryEffectQueued EveryDeliverySettles
CHECK_DEADLOCK FALSE

SPECIFICATION Spec
CONSTANTS
  SwapTokens = {"xlm", "usdc", "btc"}
  PoolOfPair <- MCPoolOfPair
  Amounts = {1, 2}
  AmountOutOf <- MCAmountOutOf
  RouterSet = TRUE
  MaxEdits = 5
  MaxPushes = 1
  Attempts = {s1, s2, s3}
  Modals = {1, 2}
  MevUrlValid = FALSE
  Nets = {"TESTNET", "PUBLIC"}
  DefaultNet = "TESTNET"
  Account = "account"
  MaxClicks = 5
  MaxLoads = 2
  Screens = {"form", "modal", "wallet", "history", "deposit", "panel", "chart", "holdings", "console"}
  HistoryPools = {"p1", "p2"}
  PageSize = 1
  MaxRows = 2
  MaxRowChanges = 3
  SignedIn = TRUE
  DepositPools = {"main", "side"}
  Margin = 1
  FullTick = 2
  MaxInputs = 6
  Shares = {50, 100}
  NewTicks = {1, 2, 3}
  MaxPanelClicks = 5
  ChartPairs = {"xlm/usdc", "xlm/btc"}
  Intervals = {"1h"}
  MaxPicks = 3
  MaxDrops = 2
  MaxPrices = 1
  Wallets = {"alice", "bob"}
  CardPositions = {"first", "second"}
  MaxChanges = 1
  MaxWallets = 2
  MaxCollects = 2
  MaxReads = 2
  HookOwners = {"alice", "bob"}
  MaxSwitches = 2
  MaxHookClicks = 2
INVARIANTS QuotingInv ExecutionInv SessionInv ListsInv DepositInv PanelInv EventsOfWatchedPool
PROPERTY PortfolioCatchesUp
CHECK_DEADLOCK FALSE

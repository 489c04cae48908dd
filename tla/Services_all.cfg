SPECIFICATION Spec
CONSTANTS
  Services = {"rate", "auth", "flight", "fanout", "candle", "stats", "token", "submit", "quote", "feed", "positions", "status", "lag", "analytics"}
  Requests = {r1, r2}
  Routes = {"health", "auth", "transactions.get"}
  Callers = {ip1}
  Internal = {}
  Limit <- MCLimit
  Window = 2
  Production = TRUE
  Verifiers = {v1, v2, v3}
  MaxNonce = 2
  MaxAttempts = 2
  NonceTtl = 2
  Readers = {p1, p2, p3}
  PoolTtl = 1
  LockTtl = 1
  WaitTicks = 1
  MaxVersion = 1
  Clients = {c1, c2}
  Pools = {"xlm", "usd"}
  MaxSubscriptions = 1
  MaxPrices <- MCMaxPrices
  MaxPipe = 2
  HourLen = 2
  Prices <- MCPrices
  MaxCandleTime = 3
  MaxBoots = 2
  Unit = 2
  CandleLimits = {3}
  Explicit <- MCRangesAsked
  Replicas = {w1}
  Owners = {o1}
  Tvls = {1, 3}
  Limits = {2}
  Day = 1
  MaxStatsTime = 2
  Passes = {e1, e2, e3}
  ListHas = {"logo"}
  ChainHas = {"symbol"}
  Liquidities = {1, 4}
  Shares = {5000, 10000}
  TxTimeout = 1
  SwapDeadline = 2
  MaxTxs = 2
  MaxTxTime = 2
  Q = 8
  TicksPerQ = 5
  Ratio <- MCRatio
  QuoteRanges <- MCRanges
  QuotePrices = {5, 7, 8, 9, 11}
  FeePpm = 1
  Million = 10
  Reserve = 20
  AmountsIn = {2, 4, 8}
  Slippages = {100}
  MaxBookMoves = 2
  Feeds = {"swaps", "positions", "activity", "pools", "search", "bulk"}
  FeedRows = {1, 2, 3}
  FeedLimit = 1
  FetchCap = 2
  FeedRanks = {0, 1}
  MaxFeedWrites = 4
  Nfts = {"n1", "n2"}
  RangeOfNft <- MCRangeOfNft
  Leaves = {0, 1, 2}
  SpotPrices = {2, 4}
  MaxHappenings = 3
  WatchedJobs = {1, 2}
  QueueOfJob <- MCQueueOfJob
  QueueOrder <- MCQueueOrder
  Degraded = 1
  Critical = 2
  MaxLedgers = 4
  MaxJobMoves = 5
  Buckets <- MCBuckets
  KeySlices <- MCKeySlices
  ShortDay = 1
  ShortWeek = 2
  EventSizes = {1}
  MaxEvents = 2
  MaxAnalyticsTime = 2
  MaxComputings = 2
INVARIANTS TxInv QuotesAgree ReadsAreHonest RateInv AuthInv OneLoad FanoutInv CandlesServed AlertInv
PROPERTIES RegressOnlyWhenOvertaken EveryoneServed
CHECK_DEADLOCK FALSE

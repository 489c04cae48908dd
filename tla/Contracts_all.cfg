SPECIFICATION ContractsSpec
CONSTANTS
  MinTick <- MCMinTick
  u1 = u1
  u2 = u2
  Users = {u1, u2}
  MaxTick = 2
  Spacing = 2
  WordBits = 2
  Q96 = 16
  TickScale = 4
  FeeTier = 1
  FeeDenominator = 4
  BufferSize = 3
  Liquidities = {4, 8}
  AmountsIn = {4, 16}
  PriceLimits = {0, 22, 40}
  OneLiquidity = 8
  OneAmount = 4
  TwoLimits = {0, 40}
  BookSwaps = 2
  InitPrices = {18}
  MaxSwapIterations = 2
  WithOracle = TRUE
  MaxPositions = 2
  MaxSwaps = 5
  MaxTransfers = 1
  MaxTime = 3
  SqrtPriceOf <- MCSqrtPriceOf
  p1 = p1
  p2 = p2
  PoolIds = {p1, p2}
  PoolAmounts = {2, 4}
  PoolOffers = {4}
  PoolLimits = {0, 21}
  PoolPrices = {16}
  PoolFeePart = 4
  MaxPoolCalls = 4
  MaxPoolTime = 1
  RouteTokens = {1, 2, 3}
  FeeTiers = {500}
  AskedTiers = {500, 501}
  FactoryConfigs <- MCFactoryConfigs
  RouteOffers = {1}
  RouteMinima = {0, 1}
  MaxOut = 1
  MaxPools = 2
  MaxRouteTime = 1
  FeeTokens = {x1, x2}
  x1 = x1
  x2 = x2
  FeePools = {f1}
  f1 = f1
  FeeAmounts = {1, 2}
  MaxFees = 3
SYMMETRY ContractSymmetry
INVARIANTS BooksAgree BitmapMarksTicks PositionsOwnTokens TwapStartsWindow ContractsInv
PROPERTIES SwapChargesOffer
CHECK_DEADLOCK FALSE

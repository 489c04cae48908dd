SPECIFICATION Spec
CONSTANTS
  MinTick <- MCMinTick
  u1 = u1
  u2 = u2
  Users = {u1, u2}
  MaxTick = 2
  Spacing = 2
  WordBits = 2
  Q96 = 16
  TickScale = 4
  FeeTier = 1
  FeeDenominator = 4
  BufferSize = 2
  Liquidities = {8}
  AmountsIn = {4}
  PriceLimits = {0, 40}
  InitPrices = {18}
  MaxSwapIterations = 2
  WithOracle = TRUE
  MaxPositions = 1
  MaxSwaps = 3
  MaxTransfers = 1
  MaxTime = 2
SYMMETRY Symmetry
INVARIANTS TwapIsTimeWeighted
CHECK_DEADLOCK FALSE

SPECIFICATION Spec
CONSTANTS
  MinTick <- MCMinTick
  u1 = u1
  Users = {u1}
  MaxTick = 2
  Spacing = 2
  WordBits = 2
  Q96 = 16
  TickScale = 4
  FeeTier = 1
  FeeDenominator = 4
  BufferSize = 2
  Liquidities = {4, 8}
  AmountsIn = {4, 16}
  PriceLimits = {0, 22, 40}
  InitPrices = {18}
  MaxSwapIterations = 2
  WithOracle = FALSE
  MaxPositions = 2
  MaxSwaps = 2
  MaxTransfers = 0
  MaxTime = 0
INVARIANTS ActiveIsInRange
CHECK_DEADLOCK FALSE

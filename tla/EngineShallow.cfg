SPECIFICATION MCSpec
CONSTANTS
  a = a
  b = b
  btc = btc
  eth = eth
  Listing <- TwoListed
  SymbolList <- TwoSymbols
  Snapshots <- ShallowSnapshots
  Scale = 1000
  Mode = "paper"
  AllowNegative = TRUE
  ExecutionStyle = "maker-taker"
  MakerSidePreference = "either"
  FeesTaker <- UnequalFees
  FeesMaker <- NoFees
  SlippagePct = 1
  UseDynamicSlippage = TRUE
  AutoThreshold = FALSE
  CostBuffer = 25
  MinFloor = 1
  MinNetSpread <- Negative
  RequireDepth = FALSE
  CapitalPerTrade = 1000
  MaxPosition = 8
  MinNotional = 300
  QueueSensitivity = 1
  EdgeRef = 60
  MaxCycles = 1
  MaxRequotes = 2
  MinFillProbability = 45
  RequoteBoost = 12
  MakerOrderTimeout = 30
INVARIANT
  QuantityIsVisible
CHECK_DEADLOCK FALSE

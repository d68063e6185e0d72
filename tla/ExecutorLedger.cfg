SPECIFICATION Spec
CONSTANTS
  a = a
  b = b
  c = c
  btc = btc
  Exchanges = {a, b}
  Symbols = {btc}
  Opportunities <- MakerOpportunities
  Mode = "paper"
  AllowNegative = FALSE
  CapitalPerExchange = 20
  MaxPosition = 2
  MaxLoss = 5
  MaxConsecutiveFailures = 3
  TradeCooldown = 1
  RebalanceThreshold = 35
  RebalanceInterval = 2
  RebalanceFee = 10
  MaxAttempts = 8
  MaxRequotes = 2
  MinFillProbability = 50
  RequoteBoost = 10
  MakerOrderTimeout = 10
INVARIANT PnlIsBalanceChange

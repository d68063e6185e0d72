SPECIFICATION Spec
CONSTANTS
  a = a
  b = b
  c = c
  btc = btc
  Exchanges = {a, b, c}
  Symbols = {btc}
  Opportunities <- AllOpportunities
  Mode = "paper"
  AllowNegative = FALSE
  CapitalPerExchange = 17
  MaxPosition = 2
  MaxLoss = 5
  MaxConsecutiveFailures = 3
  TradeCooldown = 1
  RebalanceThreshold = 35
  RebalanceInterval = 2
  RebalanceFee = 10
  MaxAttempts = 6
  MaxRequotes = 2
  MinFillProbability = 50
  RequoteBoost = 10
  MakerOrderTimeout = 10
INVARIANTS
  OverdraftIsOneFee
  BaseNeverNegative
  BalancesBackPnl
  BlockedExactlyAtLimit
  PnlNeverNegative
PROPERTIES
  ImplementsAccount
  BlockedFreezesMoney
  InventoryNeverCreated
  RebalanceNeverOvershoots

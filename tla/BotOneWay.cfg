SPECIFICATION BotSpec
CONSTANTS
  a = a
  b = b
  btc = btc
  Exchanges = {a, b}
  Symbols = {btc}
  Opportunities <- OneWayMarket
  Mode = "paper"
  AllowNegative = FALSE
  CapitalPerExchange = 25
  MaxPosition = 1
  MaxLoss = 5
  MaxConsecutiveFailures = 3
  TradeCooldown = 1
  RebalanceThreshold = 35
  RebalanceInterval = 1
  RebalanceFee = 2
  MaxAttempts = 11
  MaxRequotes = 1
  MinFillProbability = 50
  RequoteBoost = 10
  MakerOrderTimeout = 10
  MaxPerCycle = 2
  StatusInterval = 1
  NotifierEnabled = TRUE
  SendOutcomes = {TRUE}
  TooOld = {TRUE, FALSE}
  PersistentMarket = TRUE
PROPERTIES
  RunsExecutor
  BlockIsShown
  BlockIsReceived
  PersistentMarketEndsBlocked
CHECK_DEADLOCK FALSE

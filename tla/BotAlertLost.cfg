SPECIFICATION BotSpec
CONSTANTS
  a = a
  b = b
  btc = btc
  Exchanges = {a, b}
  Symbols = {btc}
  Opportunities <- OneWayMarket
  Mode = "paper"
  AllowNegative = FALSE
  CapitalPerExchange = 25
  MaxPosition = 1
  MaxLoss = 5
  MaxConsecutiveFailures = 2
  TradeCooldown = 1
  RebalanceThreshold = 35
  RebalanceInterval = 1
  RebalanceFee = 2
  MaxAttempts = 4
  MaxRequotes = 1
  MinFillProbability = 50
  RequoteBoost = 10
  MakerOrderTimeout = 10
  MaxPerCycle = 2
  StatusInterval = 1
  NotifierEnabled = TRUE
  SendOutcomes = {TRUE, FALSE}
  TooOld = {TRUE, FALSE}
  PersistentMarket = FALSE
PROPERTIES
  BlockIsReceived
CHECK_DEADLOCK FALSE

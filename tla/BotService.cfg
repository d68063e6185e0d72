SPECIFICATION ServiceSpec
CONSTANTS
  a = a
  b = b
  btc = btc
  Exchanges = {a, b}
  Symbols = {btc}
  Opportunities <- MixedMarket
  Mode = "paper"
  AllowNegative = FALSE
  CapitalPerExchange = 25
  MaxPosition = 1
  MaxLoss = 5
  MaxConsecutiveFailures = 2
  TradeCooldown = 2
  RebalanceThreshold = 35
  RebalanceInterval = 0
  RebalanceFee = 2
  MaxAttempts = 3
  MaxRequotes = 1
  MinFillProbability = 50
  RequoteBoost = 10
  MakerOrderTimeout = 10
  MaxPerCycle = 2
  StatusInterval = 0
  NotifierEnabled = TRUE
  SendOutcomes = {TRUE}
  TooOld = {TRUE, FALSE}
  PersistentMarket = FALSE
  RestartSec = 1
  MaxLives = 2
INVARIANTS
  AtMostOneTradeAfterStop
  PublishedOrderWasPlaced
  FailuresPerLife
  AlertPerLife
PROPERTIES
  DashboardShowsLastScan
  RoutePausesAcrossLives
  StopStays
CHECK_DEADLOCK FALSE

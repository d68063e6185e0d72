SPECIFICATION MCSpec
CONSTANTS
  a = a
  b = b
  c = c
  btc = btc
  eth = eth
  Listing <- ThreeListed
  Supported = {a, b}
  Streaming = {a}
  SymbolList <- TwoSymbols
  EnableStreams = TRUE
  Modes = {"paper", "live"}
  Styles = {"maker-taker", "maker-maker"}
  FeeSettings <- Settings
  DefaultFee = 10
  MarketReports <- Reports
  AccountReports <- Reports
  DashboardSettings = {TRUE, FALSE}
  Ports = {"free", "taken", "out_of_range"}
  RestartSec = 2
  TimeoutStopSec = 8
  StartLimitBurst = 5
  StartLimitInterval = 4
  StartTimes = {0, 9}
  ScanTimes = {0, 1}
  SendTimes = {0, 1}
  PollInterval = 1
  SymbolCount = 2
  NotifierEnabled = TRUE
  MaxLives = 7
INVARIANT OverrideIsUsed
CHECK_DEADLOCK FALSE

SPECIFICATION FairSpec
CONSTANTS
  binance = binance
  okx = okx
  btc = btc
  Exchanges = {binance, okx}
  Symbols = {btc}
  Streamed = {binance}
  Opportunities <- BothWays
  WebsocketStale = 2
  MaxDataAge = 1
  MaxOpportunityAge = 1
  RecvTimeout = 2
  ReconnectPause = 1
  EnableOrderbookDepth = TRUE
  DepthLegs = {2, 3}
  Ahead <- BinanceAhead
  ArrivalAges = {0}
  RestAges = {0, 1}
  AgeLimit = 6
INVARIANTS
  QuoteAgesBounded
PROPERTIES
  ExecutesOnRecentQuotes
  FetchEnds
  StreamsEnd

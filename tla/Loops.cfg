SPECIFICATION MCSpec
CONSTANTS
  Orders <- EstimatedOrders
  MaxRequotes = 4
  MinFillProbability = 45
  RequoteBoost = 8
  MakerOrderTimeout = 1200
  Levels <- SmallLevels
  Books <- SmallBooks
  Targets <- SmallTargets
  Unit = 6
  Routes = {r1, r2}
  Cooldown = 3
  MaxStep = 2
  Corrections = 2
INVARIANTS
  LoopComputesQuote
  BestFill
  ClosedIsExplained
PROPERTIES
  PauseIsShortenedByClockOnly
CHECK_DEADLOCK FALSE

--------------------------- MODULE BotServiceProofs ---------------------------
(***************************************************************************)
(* What holds of the bot across restarts, for any number of them and any   *)
(* moment at which the process ends: nothing is kept by the process, and   *)
(* what bounds the failures and the pauses over many lives is what each    *)
(* life does with them and the unit's RestartSec.                          *)
(***************************************************************************)
EXTENDS BotService, BotProofs

----------------------------------------------------------------------------
(* The steps of the service *)

\* What run() builds is an initial state of the loop and of the executor.
LEMMA NewLifeIsInit == NewExecutor /\ NewLoop => BotInit'
BY DEF NewExecutor, NewLoop, BotInit, Init, FreshRisk

\* A step of the service is one of the loop or the beginning of a life.
LEMMA ServiceStep ==
  ASSUME [ServiceNext]_servicevars
  PROVE  [BotNext]_botvars \/ (Restart /\ BotInit')
<1>1. CASE Run
  BY <1>1 DEF Run, BotNext
<1>2. CASE SignalStop
  BY <1>2 DEF SignalStop, BotNext
<1>3. CASE RunTick
  BY <1>3 DEF RunTick, BotNext
<1>4. CASE Exit \/ Crash \/ DownTick \/ UNCHANGED servicevars
  BY <1>4 DEF Exit, Crash, End, DownTick, servicevars
<1>5. CASE Restart
  BY <1>5, NewLifeIsInit DEF Restart
<1>. QED BY <1>1, <1>2, <1>3, <1>4, <1>5 DEF ServiceNext

\* The invariants of the loop, which are those of each life.
LifeInvariant ==
  /\ ExecutorInvariant /\ CycleKnown /\ BlockedCycleIsAnnounced
  /\ StopTradesOnce /\ DashboardInvariant /\ PublishedInvariant

\* They hold when a life begins.
LEMMA LifeInit == BotInit => LifeInvariant
<1>1. BotInit => Init
  BY DEF BotInit
<1>2. BotInit => CycleKnown
  BY DEF BotInit, CycleKnown
<1>3. BotInit => BlockedCycleIsAnnounced
  BY DEF BotInit, Init, BlockedCycleIsAnnounced
<1>4. BotInit => StopTradesOnce
  BY DEF BotInit, StopTradesOnce
<1>. QED BY <1>1, <1>2, <1>3, <1>4, InitInvariant, DashboardInit, PublishedInit DEF LifeInvariant

\* They hold in every life.
LEMMA LifeHolds == ServiceSpec => []LifeInvariant
<1>1. ServiceInit => LifeInvariant
  BY LifeInit DEF ServiceInit
<1>2. BotInit' => LifeInvariant'
  BY LifeInit, PTL
<1>3. LifeInvariant /\ [BotNext]_botvars => LifeInvariant'
  <2>1. ExecutorInvariant => TypeOK
    BY DEF ExecutorInvariant
  <2>. QED BY <2>1, LoopCallsExecutor, StepInvariant, CycleStep, AlertStep, StopStep,
           DashboardStep, PublishedStep DEF LifeInvariant
<1>4. LifeInvariant /\ [ServiceNext]_servicevars => LifeInvariant'
  BY <1>2, <1>3, ServiceStep
<1>. QED BY <1>1, <1>4, PTL DEF ServiceSpec

\* What the executor and the loop promise is promised for every life, whatever the
\* lives before did and wherever in a cycle they were cut off: the balances, the
\* inventory and the ledger (executor.py), one more trade at most after a stop
\* (main.py:86 and 161), and no cancelled order on the dashboard.
THEOREM PromisesInEveryLife ==
  ServiceSpec => [](/\ AtMostOneTradeAfterStop /\ PublishedOrderWasPlaced
                    /\ OverdraftIsOneFee /\ BaseNeverNegative /\ BalancesBackPnl
                    /\ BlockedExactlyAtLimit /\ PnlNeverNegative)
<1>1. ExecutorInvariant => /\ TypeOK /\ OverdraftIsOneFee /\ BaseNeverNegative
                           /\ BalancesBackPnl /\ BlockedExactlyAtLimit /\ PnlNeverNegative
  BY DEF ExecutorInvariant
<1>2. LifeInvariant => /\ AtMostOneTradeAfterStop /\ PublishedOrderWasPlaced
                       /\ OverdraftIsOneFee /\ BaseNeverNegative /\ BalancesBackPnl
                       /\ BlockedExactlyAtLimit /\ PnlNeverNegative
  BY <1>1, StopIsOneTrade DEF LifeInvariant, PublishedInvariant
<1>. QED BY <1>2, LifeHolds, PTL

\* main.py:47-50, 109-131 and 167: the dashboard of a new life shows nothing of the
\* one before, and follows its own scans.
THEOREM DashboardInEveryLife == ServiceSpec => DashboardShowsLastScan
<1>1. BotInit' => DashboardInvariant'
  BY DashboardInit, PTL
<1>2. LifeInvariant /\ [ServiceNext]_servicevars => [DashboardFollows]_botvars
  <2>. SUFFICES ASSUME LifeInvariant, [ServiceNext]_servicevars
                PROVE  DashboardFollows \/ UNCHANGED botvars
    OBVIOUS
  <2>1. CASE [BotNext]_botvars
    BY <2>1, DashboardStep DEF LifeInvariant
  <2>2. CASE Restart /\ BotInit'
    BY <1>1, <2>2 DEF Restart, NewLoop, DashboardInvariant, DashboardFollows
  <2>. QED BY <2>1, <2>2, ServiceStep
<1>3. ServiceSpec => [][DashboardFollows]_botvars
  BY <1>2, LifeHolds, PTL DEF ServiceSpec
<1>. QED BY <1>3 DEF DashboardShowsLastScan, DashboardFollows

----------------------------------------------------------------------------
(* The alert, once per life *)

\* A life that has not sent its alert yet has one to come.
AlertInvariant ==
  /\ alerts \in Nat /\ lives \in Nat
  /\ alerts + (IF blocked_alert_sent THEN 0 ELSE 1) <= lives

\* Every step of the service keeps it: an alert uses up the one of its life.
LEMMA AlertsStep ==
  AlertInvariant /\ [ServiceNext]_servicevars => AlertInvariant'
<1>. SUFFICES ASSUME AlertInvariant, [ServiceNext]_servicevars PROVE AlertInvariant'
  OBVIOUS
<1>1. CASE Run
  <2>1. CASE pc = "alert" /\ AlertDue
    <3>1. Alert
      BY <1>1, <2>1 DEF Run, LoopStep, Top, Scan, Publish, SkipStale, Attempt, EndAttempts,
         RebalanceSymbol, EndRebalance, Status, Sleep, Finally
    <3>2. ~ blocked_alert_sent /\ blocked_alert_sent' = TRUE
      BY <2>1, <3>1 DEF Alert, AlertDue
    <3>. QED BY <1>1, <2>1, <3>2 DEF Run, AlertInvariant
  <2>2. CASE ~ (pc = "alert" /\ AlertDue)
    <3>1. blocked_alert_sent' = blocked_alert_sent
      BY <1>1, <2>2 DEF Run, LoopStep, Top, Scan, Publish, SkipStale, Attempt, EndAttempts,
         RebalanceSymbol, EndRebalance, Alert, Status, Sleep, Finally
    <3>2. alerts' = alerts /\ lives' = lives
      BY <1>1, <2>2 DEF Run
    <3>. QED BY <3>1, <3>2 DEF AlertInvariant
  <2>. QED BY <2>1, <2>2
<1>2. CASE Restart
  BY <1>2 DEF Restart, NewLoop, AlertInvariant
<1>3. CASE UNCHANGED <<blocked_alert_sent, alerts, lives>>
  BY <1>3 DEF AlertInvariant
<1>4. Run \/ Restart \/ UNCHANGED <<blocked_alert_sent, alerts, lives>>
  BY DEF ServiceNext, SignalStop, RequestStop, RunTick, Tick, Exit, Crash, End, DownTick,
     loop, botvars, servicevars
<1>. QED BY <1>1, <1>2, <1>3, <1>4

\* main.py:53 and 177-179: at most one alert per life, and none comes late.
THEOREM OneAlertPerLife == ServiceSpec => []AlertPerLife
<1>1. ServiceInit => AlertInvariant
  BY DEF ServiceInit, BotInit, AlertInvariant
<1>2. AlertInvariant /\ LifeInvariant => AlertPerLife
  BY DEF AlertInvariant, LifeInvariant, AlertPerLife
<1>. QED BY <1>1, <1>2, AlertsStep, LifeHolds, PTL DEF ServiceSpec

----------------------------------------------------------------------------
(* Attempts *)

\* What an attempt does: it fails and is counted in the streak, with nothing
\* paused; or it trades, and the streak and the cooldown of its route begin.
AttemptFails ==
  /\ risk'.trades_executed = risk.trades_executed
  /\ risk'.trades_failed = risk.trades_failed + 1
  /\ risk'.consecutive_failures = risk.consecutive_failures + 1
  /\ trade_cooldown' = trade_cooldown

AttemptTrades(o) ==
  /\ risk'.trades_executed = risk.trades_executed + 1
  /\ trade_cooldown[route_key(o)] = 0
  /\ trade_cooldown' = [trade_cooldown EXCEPT ![route_key(o)] = TradeCooldown]

\* A failure is counted once.
LEMMA FailIsFailure ==
  ASSUME TypeOK, NEW r, CountedOn(r), NEW reason, Fail(r, reason),
         r.trades_executed = risk.trades_executed, r.trades_failed = risk.trades_failed
  PROVE  AttemptFails
<1>1. r \in RiskState
  BY DEF CountedOn
<1>2. /\ risk'.trades_failed = risk.trades_failed + 1
      /\ risk'.trades_executed = risk.trades_executed
  BY <1>1, FailureCounts
<1>3. risk'.consecutive_failures = risk.consecutive_failures + 1
  BY RegisterFailureIs DEF Fail
<1>. QED BY <1>2, <1>3 DEF Fail, AttemptFails

\* A trade goes through on a route that is not paused.
LEMMA FinalizeIsTrade ==
  ASSUME TypeOK, NEW o \in Opportunities, EarlyReturn(o) = "none",
         NEW r \in RiskState, r.trades_executed = risk.trades_executed,
         NEW pnl \in Int, NEW payload, Finalize(o, r, pnl, payload)
  PROVE  AttemptTrades(o)
<1>1. risk'.trades_executed = risk.trades_executed + 1
  BY TradeCounts
<1>2. trade_cooldown[route_key(o)] \in Nat
  BY OpportunityFields DEF TypeOK, Routes, route_key
<1>3. ~ risk.blocked
  BY GoesOn
<1>4. ~ (trade_cooldown[route_key(o)] > 0)
  BY <1>3 DEF EarlyReturn, Halted
<1>5. trade_cooldown[route_key(o)] = 0
  BY <1>2, <1>4
<1>. QED BY <1>1, <1>5 DEF Finalize, AttemptTrades

\* Every call of execute() is one or the other.
LEMMA AttemptIs ==
  ASSUME TypeOK, NEW o \in Opportunities, Execute(o)
  PROVE  AttemptFails \/ AttemptTrades(o)
<1>1. /\ QuoteReceived(o) - QuoteSpent(o) \in Int
      /\ MakerPnl(o) \in Int
      /\ risk \in RiskState
  BY OpportunityFields, PenaltyType DEF MakerPnl, TypeOK
<1>2. CASE Reject(o)
  BY <1>2, RequotedCounts, FailIsFailure DEF Reject
<1>3. CASE TakerTaker(o)
  BY <1>1, <1>3, FinalizeIsTrade DEF TakerTaker
<1>4. CASE MakerTimeout(o)
  BY <1>4, RequotedCounts, RequotedKeepsCounts, FailIsFailure DEF MakerTimeout
<1>5. CASE MakerEroded(o)
  BY <1>5, RequotedCounts, RequotedKeepsCounts, FailIsFailure DEF MakerEroded
<1>6. CASE MakerFilled(o)
  BY <1>1, <1>6, RequotedKeepsCounts, FinalizeIsTrade DEF MakerFilled
<1>. QED BY <1>2, <1>3, <1>4, <1>5, <1>6 DEF Execute

\* The route of an opportunity is a route.
LEMMA RouteOfOpportunity ==
  ASSUME NEW o \in Opportunities
  PROVE  route_key(o) \in Routes
BY OpportunityFields DEF Routes, route_key

\* The kinds of steps of a running loop, by what they do to the executor.
LEMMA RunIs ==
  ASSUME LifeInvariant, Run
  PROVE  \/ /\ Attempt /\ Head(attempts) \in Opportunities
            /\ AttemptFails \/ AttemptTrades(Head(attempts))
         \/ UNCHANGED <<risk, trade_cooldown>>
<1>1. CASE Attempt
  <2>1. Head(attempts) \in Opportunities
    BY <1>1, HeadTailProperties DEF LifeInvariant, CycleKnown, Attempt
  <2>2. TypeOK
    BY DEF LifeInvariant, ExecutorInvariant
  <2>. QED BY <1>1, <2>1, <2>2, AttemptIs DEF Attempt
<1>2. CASE ~ Attempt
  BY <1>2 DEF Run, LoopStep, Top, Scan, Publish, SkipStale, EndAttempts,
     RebalanceSymbol, Rebalance, EndRebalance, Alert, Status, Sleep, Finally, vars
<1>. QED BY <1>1, <1>2

----------------------------------------------------------------------------
(* Failures over many lives *)

\* The part of the streak that counts: a blocked executor's refusals do not.
Streak ==
  IF risk.consecutive_failures >= MaxConsecutiveFailures THEN MaxConsecutiveFailures
  ELSE risk.consecutive_failures

FailureInvariant ==
  /\ open_failures \in Nat /\ lives \in Nat \ {0}
  /\ open_failures <= MaxConsecutiveFailures * (lives - 1) + Streak

\* A failure lengthens the streak, unless the breaker has tripped; a trade
\* ends both; and a new life has a whole limit to go.
LEMMA FailureStep ==
  LifeInvariant /\ FailureInvariant /\ [ServiceNext]_servicevars => FailureInvariant'
<1>. SUFFICES ASSUME LifeInvariant, FailureInvariant, [ServiceNext]_servicevars
              PROVE  FailureInvariant'
  OBVIOUS
<1>. DEFINE earlier == MaxConsecutiveFailures * (lives - 1)
<1>0. /\ TypeOK /\ BlockedExactlyAtLimit
      /\ MaxConsecutiveFailures \in Nat \ {0}
      /\ risk.consecutive_failures \in Nat /\ risk.trades_executed \in Nat
      /\ risk.trades_failed \in Nat
      /\ earlier \in Nat
  BY ExecutorAssumption DEF LifeInvariant, ExecutorInvariant, TypeOK, RiskState,
     FailureInvariant
<1>1. CASE Run /\ risk' = risk
  <2>1. \A r \in Routes : ~ Trading(r)
    BY <1>0, <1>1 DEF Trading
  <2>2. open_failures' = open_failures /\ lives' = lives
    BY <1>0, <1>1, <2>1 DEF Run, FailureInvariant
  <2>. QED BY <1>1, <2>2 DEF FailureInvariant, Streak
<1>2. CASE Run /\ Attempt /\ AttemptFails
  <2>1. \A r \in Routes : ~ Trading(r)
    BY <1>0, <1>2 DEF Trading, AttemptFails
  <2>2. /\ open_failures' = open_failures + (IF risk.blocked THEN 0 ELSE 1)
        /\ lives' = lives
    BY <1>0, <1>2, <2>1 DEF Run, AttemptFails
  <2>3. Streak' = IF risk.blocked THEN Streak ELSE Streak + 1
    BY <1>0, <1>2 DEF AttemptFails, Streak, BlockedExactlyAtLimit
  <2>4. earlier' = earlier
    BY <2>2
  <2>. HIDE DEF earlier
  <2>5. open_failures <= earlier + Streak
    BY DEF FailureInvariant, earlier
  <2>6. open_failures' \in Nat /\ Streak \in Nat /\ open_failures' <= earlier + Streak'
    BY <1>0, <2>2, <2>3, <2>5 DEF FailureInvariant, Streak
  <2>. QED BY <2>2, <2>4, <2>6 DEF FailureInvariant, earlier
<1>3. CASE Run /\ Attempt /\ Head(attempts) \in Opportunities
           /\ AttemptTrades(Head(attempts))
  <2>1. Trading(route_key(Head(attempts))) /\ route_key(Head(attempts)) \in Routes
    BY <1>0, <1>3, RouteOfOpportunity DEF Trading, AttemptTrades, Run
  <2>2. open_failures' = 0 /\ lives' = lives
    BY <1>3, <2>1 DEF Run
  <2>3. ExecutorInvariant'
    BY <1>3, LoopCallsExecutor, StepInvariant DEF Run, BotNext, LifeInvariant
  <2>4. Streak' \in Nat
    BY <1>0, <2>3 DEF ExecutorInvariant, TypeOK, RiskState, Streak
  <2>5. earlier' = earlier
    BY <2>2
  <2>. HIDE DEF earlier
  <2>6. \A a, b \in Nat : 0 <= a + b
    OBVIOUS
  <2>7. open_failures' <= earlier' + Streak'
    BY <1>0, <2>2, <2>4, <2>5, <2>6
  <2>. QED BY <2>2, <2>7 DEF FailureInvariant, earlier
<1>4. CASE Restart
  <2>1. open_failures' = open_failures /\ lives' = lives + 1
    BY <1>4 DEF Restart
  <2>2. Streak' = 0
    BY <1>0, <1>4 DEF Restart, NewExecutor, FreshRisk, Streak
  <2>3. Streak <= MaxConsecutiveFailures /\ Streak \in Nat
    BY <1>0 DEF Streak
  <2>4. MaxConsecutiveFailures * (lives' - 1) = earlier + MaxConsecutiveFailures
    BY <1>0, <2>1 DEF FailureInvariant
  <2>5. open_failures <= earlier + Streak
    BY DEF FailureInvariant
  <2>. HIDE DEF earlier
  <2>6. open_failures' <= MaxConsecutiveFailures * (lives' - 1) + Streak'
    BY <1>0, <2>1, <2>2, <2>3, <2>4, <2>5 DEF FailureInvariant
  <2>. QED BY <2>1, <2>6 DEF FailureInvariant
<1>5. CASE UNCHANGED <<risk, open_failures, lives>>
  BY <1>5 DEF FailureInvariant, Streak
<1>6. Run \/ Restart \/ UNCHANGED <<risk, open_failures, lives>>
  BY DEF ServiceNext, SignalStop, RequestStop, RunTick, Tick, Elapse, Exit, Crash, End,
     DownTick, vars, botvars, servicevars
<1>. QED BY <1>1, <1>2, <1>3, <1>4, <1>5, <1>6, RunIs

\* executor.py:316-319: the breaker's limit holds per life only.
THEOREM FailuresBoundedPerLife == ServiceSpec => []FailuresPerLife
<1>1. ServiceInit => FailureInvariant
  <2>. SUFFICES ASSUME ServiceInit PROVE FailureInvariant
    OBVIOUS
  <2>1. MaxConsecutiveFailures \in Nat \ {0}
    BY ExecutorAssumption
  <2>. QED BY <2>1 DEF ServiceInit, BotInit, Init, FailureInvariant, Streak
<1>2. LifeInvariant /\ FailureInvariant => FailuresPerLife
  <2>. SUFFICES ASSUME LifeInvariant, FailureInvariant PROVE FailuresPerLife
    OBVIOUS
  <2>1. MaxConsecutiveFailures \in Nat \ {0} /\ risk.consecutive_failures \in Nat
    BY ExecutorAssumption DEF LifeInvariant, ExecutorInvariant, TypeOK, RiskState
  <2>2. Streak <= MaxConsecutiveFailures /\ Streak \in Nat
    BY <2>1 DEF Streak
  <2>3. MaxConsecutiveFailures * lives
          = MaxConsecutiveFailures * (lives - 1) + MaxConsecutiveFailures
    BY <2>1 DEF FailureInvariant
  <2>. QED BY <2>1, <2>2, <2>3 DEF FailureInvariant, FailuresPerLife
<1>. QED BY <1>1, <1>2, FailureStep, LifeHolds, PTL DEF ServiceSpec

----------------------------------------------------------------------------
(* Pauses over many lives *)

\* A route that is not paused in this life was last traded long ago, or in an
\* earlier life, with RestartSec in between.
PauseInvariant ==
  /\ since_trade \in [Routes -> Nat]
  /\ restart_wait \in Nat
  /\ unit = "active" =>
       \A r \in Routes : \/ since_trade[r] + trade_cooldown[r] >= TradeCooldown
                         \/ since_trade[r] >= RestartSec
  /\ unit = "auto-restart" =>
       \A r \in Routes : since_trade[r] + restart_wait >= RestartSec

\* A tick adds to the time since a trade, up to the horizon.
LEMMA OlderIs ==
  ASSUME NEW ages \in [Routes -> Nat]
  PROVE  /\ Older(ages) \in [Routes -> Nat]
         /\ \A r \in Routes : \/ Older(ages)[r] = ages[r] + 1
                              \/ Older(ages)[r] = TradeCooldown + RestartSec
<1>0. TradeCooldown \in Nat /\ RestartSec \in Nat
  BY ExecutorAssumption, ServiceAssumption
<1>1. ASSUME NEW r \in Routes
      PROVE  /\ Min({ages[r] + 1, Horizon}) \in Nat
             /\ \/ Min({ages[r] + 1, Horizon}) = ages[r] + 1
                \/ Min({ages[r] + 1, Horizon}) = TradeCooldown + RestartSec
  <2>1. ages[r] + 1 \in Nat /\ Horizon \in Nat
    BY <1>0 DEF Horizon
  <2>. QED BY <2>1, MinPair DEF Horizon
<1>. QED BY <1>1 DEF Older

\* Every step keeps the pauses: a tick moves time from the cooldown to the time
\* since the trade, and the end of a life starts RestartSec.
LEMMA PauseStep ==
  LifeInvariant /\ PauseInvariant /\ [ServiceNext]_servicevars => PauseInvariant'
<1>. SUFFICES ASSUME LifeInvariant, PauseInvariant, [ServiceNext]_servicevars
              PROVE  PauseInvariant'
  OBVIOUS
<1>0. /\ TradeCooldown \in Nat /\ RestartSec \in Nat
      /\ trade_cooldown \in [Routes -> Nat]
      /\ risk.trades_executed \in Nat
  BY ExecutorAssumption, ServiceAssumption
  DEF LifeInvariant, ExecutorInvariant, TypeOK, RiskState
<1>1. CASE Run /\ UNCHANGED <<risk, trade_cooldown>>
  <2>1. since_trade' = since_trade
    BY <1>0, <1>1 DEF Run, Trading, PauseInvariant
  <2>. QED BY <1>1, <2>1 DEF Run, PauseInvariant
<1>2. CASE Run /\ AttemptFails
  <2>1. since_trade' = since_trade
    BY <1>0, <1>2 DEF Run, Trading, AttemptFails, PauseInvariant
  <2>. QED BY <1>2, <2>1 DEF Run, AttemptFails, PauseInvariant
<1>3. CASE Run /\ Head(attempts) \in Opportunities /\ AttemptTrades(Head(attempts))
  <2>. DEFINE k == route_key(Head(attempts))
  <2>1. k \in Routes
    BY <1>3, RouteOfOpportunity
  <2>2. \A r \in Routes : Trading(r) <=> r = k
    BY <1>0, <1>3 DEF Trading, AttemptTrades, Run
  <2>. HIDE DEF k
  <2>3. since_trade' = [r \in Routes |-> IF r = k THEN 0 ELSE since_trade[r]]
    BY <1>3, <2>2 DEF Run
  <2>4. trade_cooldown' = [trade_cooldown EXCEPT ![k] = TradeCooldown]
    BY <1>3 DEF AttemptTrades, k
  <2>. QED BY <1>0, <1>3, <2>1, <2>3, <2>4 DEF Run, PauseInvariant
<1>4. CASE RunTick
  <2>1. /\ since_trade' \in [Routes -> Nat]
        /\ \A r \in Routes : \/ since_trade'[r] = since_trade[r] + 1
                             \/ since_trade'[r] = TradeCooldown + RestartSec
    BY <1>4, OlderIs DEF RunTick, PauseInvariant
  <2>2. \A r \in Routes :
          trade_cooldown'[r] = IF trade_cooldown[r] = 0 THEN 0 ELSE trade_cooldown[r] - 1
    BY <1>4 DEF RunTick, Tick, Elapse, TickDown
  <2>. QED BY <1>0, <1>4, <2>1, <2>2 DEF RunTick, PauseInvariant
<1>5. CASE Exit \/ Crash
  BY <1>0, <1>5 DEF Exit, Crash, End, AfterExit, PauseInvariant
<1>6. CASE DownTick
  <2>1. /\ since_trade' \in [Routes -> Nat]
        /\ \A r \in Routes : \/ since_trade'[r] = since_trade[r] + 1
                             \/ since_trade'[r] = TradeCooldown + RestartSec
    BY <1>6, OlderIs DEF DownTick, PauseInvariant
  <2>. QED BY <1>0, <1>6, <2>1 DEF DownTick, PauseInvariant
<1>7. CASE Restart
  BY <1>0, <1>7 DEF Restart, RestartDue, PauseInvariant
<1>8. CASE SignalStop \/ UNCHANGED servicevars
  BY <1>8 DEF SignalStop, RequestStop, vars, botvars, servicevars, PauseInvariant
<1>. QED
  BY <1>1, <1>2, <1>3, <1>4, <1>5, <1>6, <1>7, <1>8, RunIs DEF ServiceNext

\* arbbot.service:16, executor.py:66-68: two trades of a route are apart by the
\* cooldown or by RestartSec, whichever is less, over any number of lives.
THEOREM RoutesPause == ServiceSpec => RoutePausesAcrossLives
<1>1. ServiceInit => PauseInvariant
  <2>. SUFFICES ASSUME ServiceInit PROVE PauseInvariant
    OBVIOUS
  <2>1. TradeCooldown \in Nat /\ RestartSec \in Nat
    BY ExecutorAssumption, ServiceAssumption
  <2>. QED BY <2>1 DEF ServiceInit, BotInit, Init, Horizon, PauseInvariant
<1>2. LifeInvariant /\ PauseInvariant /\ [ServiceNext]_servicevars =>
        \A r \in Routes :
          Trading(r) => since_trade[r] >= Min({TradeCooldown, RestartSec})
  <2>. SUFFICES ASSUME LifeInvariant, PauseInvariant, [ServiceNext]_servicevars,
                       NEW r \in Routes, Trading(r)
                PROVE  since_trade[r] >= Min({TradeCooldown, RestartSec})
    OBVIOUS
  <2>0. /\ TradeCooldown \in Nat /\ RestartSec \in Nat
        /\ risk.trades_executed \in Nat /\ since_trade[r] \in Nat
    BY ExecutorAssumption, ServiceAssumption
    DEF LifeInvariant, ExecutorInvariant, TypeOK, RiskState, PauseInvariant
  <2>1. Run
    BY <2>0 DEF Trading, ServiceNext, SignalStop, RequestStop, RunTick, Tick, Elapse, Exit,
       Crash, End, DownTick, Restart, vars, botvars, servicevars
  <2>2. trade_cooldown[r] = 0
    BY <2>0, <2>1, RunIs DEF Trading, AttemptFails, AttemptTrades
  <2>3. since_trade[r] >= TradeCooldown \/ since_trade[r] >= RestartSec
    BY <2>0, <2>2 DEF PauseInvariant, Trading
  <2>4. Min({TradeCooldown, RestartSec})
          = IF TradeCooldown <= RestartSec THEN TradeCooldown ELSE RestartSec
    BY <2>0, MinPair
  <2>. QED BY <2>0, <2>3, <2>4
<1>. QED
  BY <1>1, <1>2, PauseStep, LifeHolds, PTL DEF ServiceSpec, RoutePausesAcrossLives
=============================================================================

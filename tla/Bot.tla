-------------------------------- MODULE Bot --------------------------------
(***************************************************************************)
(* The main loop (src/src/main.py) around the executor: each cycle scans   *)
(* the market, attempts the best opportunities until one is executed, lets *)
(* the executor rebalance, sends the risk alert, publishes the status and  *)
(* sleeps.  The stop signal and the clock run beside it; the dashboard     *)
(* thread may read runtime in every state, since each runtime.update() is  *)
(* one step under its lock.                                                *)
(***************************************************************************)
EXTENDS Executor, SequencesExt

CONSTANTS
  MaxPerCycle,        \* max_opportunities_per_cycle
  StatusInterval,     \* status_log_interval_sec, in clock ticks
  NotifierEnabled,    \* notifier.enabled
  SendOutcomes,       \* what notifier.send() may return: a subset of BOOLEAN
  TooOld,             \* whether an opportunity may exceed max_opportunity_age_ms
  PersistentMarket    \* whether every scan finds an opportunity

ASSUME BotAssumption ==
  /\ MaxPerCycle \in Int
  /\ StatusInterval \in Nat
  /\ {NotifierEnabled, PersistentMarket} \subseteq BOOLEAN
  /\ SendOutcomes \subseteq BOOLEAN /\ SendOutcomes # {}
  /\ TooOld \subseteq BOOLEAN /\ FALSE \in TooOld

VARIABLES
  pc,                   \* where the loop is
  STOP,
  opportunities,        \* what the last scan found, best first
  attempts,             \* those of them still to be attempted in this cycle
  executed,
  symbols_left,         \* symbols still to be rebalanced in this cycle
  blocked_alert_sent,
  status_wait,          \* time left of last_status_ts's interval
  runtime,              \* RuntimeState.data
  alert_received,       \* external: the operator has the "blocked" message
  trades_at_stop        \* history: trades_executed when STOP was set

loop == <<pc, opportunities, attempts, executed, symbols_left,
          blocked_alert_sent, status_wait, runtime, alert_received>>
botvars == <<vars, loop, STOP, trades_at_stop>>

\* What runtime holds before the first update of a field: None and {}.
NoRoute == <<>>
NotPublished == [published |-> FALSE]

BotInit ==
  /\ Init
  /\ pc = "top"
  /\ STOP = FALSE
  /\ opportunities = <<>> /\ attempts = <<>>
  /\ executed = FALSE
  /\ symbols_left = {}
  /\ blocked_alert_sent = FALSE
  /\ status_wait = 0
  /\ runtime = [last_event |-> "init", opportunity_count |-> 0,
                best_opportunity |-> NoRoute, last_order_payload |-> NoPayload,
                metrics |-> NotPublished, balances |-> NotPublished]
  /\ alert_received = FALSE
  /\ trades_at_stop = 0

----------------------------------------------------------------------------
(* Signals *)

RequestStop ==
  /\ pc # "stopped"
  /\ ~ STOP
  /\ STOP' = TRUE
  /\ trades_at_stop' = risk.trades_executed
  /\ UNCHANGED <<vars, loop>>

----------------------------------------------------------------------------
(* The loop *)

KeepRunning == ~ STOP

Top ==
  /\ pc = "top"
  /\ pc' = IF KeepRunning THEN "scan" ELSE "finally"
  /\ UNCHANGED <<vars, STOP, opportunities, attempts, executed, symbols_left,
                 blocked_alert_sent, status_wait, runtime, alert_received,
                 trades_at_stop>>

\* A scan yields at most one opportunity per route, best first.  The bound on
\* the attempts is met by finding nothing more.
Scans ==
  LET left == MaxAttempts - risk.trades_executed - risk.trades_failed
      Found == {F \in SUBSET Opportunities :
                  /\ IsFiniteSet(F) /\ Cardinality(F) <= left
                  /\ \A o, p \in F : route_key(o) = route_key(p) => o = p
                  /\ PersistentMarket /\ left > 0 => F # {}}
      Ranked(F) == {q \in [1..Cardinality(F) -> F] :
                      /\ \A i, j \in DOMAIN q : i # j => q[i] # q[j]
                      /\ \A i, j \in DOMAIN q :
                           i < j => ExpectedProfit(q[i]) >= ExpectedProfit(q[j])}
  IN  UNION {Ranked(F) : F \in Found}

Scan ==
  /\ pc = "scan"
  /\ pc' = "publish"
  /\ opportunities' \in Scans
  /\ runtime' = [runtime EXCEPT !.last_event = "scan_completed",
                                !.opportunity_count = Len(opportunities')]
  /\ UNCHANGED <<vars, STOP, attempts, executed, symbols_left, blocked_alert_sent,
                 status_wait, alert_received, trades_at_stop>>

\* Faulty: the best opportunity of an earlier cycle stays on the dashboard.
NothingFound_KeepsBest == [runtime EXCEPT !.last_event = "no_opportunity"]
NothingFound ==
  [runtime EXCEPT !.best_opportunity = NoRoute, !.last_event = "no_opportunity"]

\* The second update of a cycle, which the dashboard may see late.
Publish ==
  /\ pc = "publish"
  /\ \/ /\ opportunities # <<>>
        /\ pc' = "attempt"
        /\ attempts' = SubSeq(opportunities, 1,
                              Min({Len(opportunities), Max({1, MaxPerCycle})}))
        /\ executed' = FALSE
        /\ runtime' = [runtime EXCEPT !.best_opportunity = route_key(opportunities[1])]
        /\ UNCHANGED symbols_left
     \/ /\ opportunities = <<>>
        /\ pc' = "rebalance"
        /\ symbols_left' = Symbols
        /\ runtime' = NothingFound
        /\ UNCHANGED <<attempts, executed>>
  /\ UNCHANGED <<vars, STOP, opportunities, blocked_alert_sent, status_wait,
                 alert_received, trades_at_stop>>

SkipStale ==
  /\ pc = "attempt"
  /\ attempts # <<>>
  /\ TRUE \in TooOld
  /\ attempts' = Tail(attempts)
  /\ runtime' = [runtime EXCEPT !.last_event = "opportunity_stale"]
  /\ UNCHANGED <<vars, STOP, pc, opportunities, executed, symbols_left,
                 blocked_alert_sent, status_wait, alert_received, trades_at_stop>>

\* Faulty: the cycle goes on after a trade.
AfterTrade_GoOn == Tail(attempts)
\* Faulty: the dashboard is given the executor's payload after failures too.
Outcome_AlwaysPublished ==
  [runtime EXCEPT !.last_event = result'.reason,
                  !.last_order_payload = last_order_payload']

\* The attempts left after an execution: it ends the cycle's attempts.
AfterTrade == <<>>

Outcome ==
  IF result'.success
    THEN [runtime EXCEPT !.last_event = result'.reason,
                         !.last_order_payload = last_order_payload']
    ELSE runtime

Attempt ==
  /\ pc = "attempt"
  /\ attempts # <<>>
  /\ Execute(Head(attempts))
  /\ runtime' = Outcome
  /\ executed' = (executed \/ result'.success)
  /\ attempts' = IF result'.success THEN AfterTrade ELSE Tail(attempts)
  /\ UNCHANGED <<STOP, pc, opportunities, symbols_left, blocked_alert_sent,
                 status_wait, alert_received, trades_at_stop>>

EndAttempts ==
  /\ pc = "attempt"
  /\ attempts = <<>>
  /\ pc' = "rebalance"
  /\ symbols_left' = Symbols
  /\ runtime' = IF executed THEN runtime
                ELSE [runtime EXCEPT !.last_event = "no_executable_route"]
  /\ UNCHANGED <<vars, STOP, opportunities, attempts, executed, blocked_alert_sent,
                 status_wait, alert_received, trades_at_stop>>

RebalanceSymbol ==
  /\ pc = "rebalance"
  /\ \E s \in symbols_left :
       /\ symbols_left' = symbols_left \ {s}
       /\ \/ /\ Rebalance(s)
             /\ runtime' = [runtime EXCEPT !.last_event = "rebalanced"]
          \/ /\ Transfers(s) = {}
             /\ UNCHANGED <<vars, runtime>>
  /\ UNCHANGED <<STOP, pc, opportunities, attempts, executed, blocked_alert_sent,
                 status_wait, alert_received, trades_at_stop>>

EndRebalance ==
  /\ pc = "rebalance"
  /\ symbols_left = {}
  /\ pc' = "alert"
  /\ UNCHANGED <<vars, STOP, opportunities, attempts, executed, symbols_left,
                 blocked_alert_sent, status_wait, runtime, alert_received,
                 trades_at_stop>>

\* Faulty: only the drawdown guard is worth an alert.
AlertDue_DrawdownOnly ==
  /\ risk.blocked_reason = "daily_drawdown_limit"
  /\ NotifierEnabled
  /\ ~ blocked_alert_sent
\* Faulty: every cycle of a blocked executor is worth an alert.
AlertDue_Repeats == risk.blocked /\ NotifierEnabled
AlertDue == risk.blocked /\ NotifierEnabled /\ ~ blocked_alert_sent

\* The alert counts as sent whatever send() returns.
Alert ==
  /\ pc = "alert"
  /\ pc' = "status"
  /\ \/ /\ AlertDue
        /\ blocked_alert_sent' = TRUE
        /\ \E ok \in SendOutcomes : alert_received' = (alert_received \/ ok)
     \/ /\ ~ AlertDue
        /\ UNCHANGED <<blocked_alert_sent, alert_received>>
  /\ UNCHANGED <<vars, STOP, opportunities, attempts, executed, symbols_left,
                 status_wait, runtime, trades_at_stop>>

Metrics == [published |-> TRUE, risk |-> risk]
BalanceSummary ==
  [published |-> TRUE,
   quote_free |-> quote_free,
   base_total |-> [e \in Exchanges |-> SumFunctionOnSet(base_free[e], Symbols)]]

StatusReport == [runtime EXCEPT !.metrics = Metrics, !.balances = BalanceSummary]

\* Faulty: a blocked executor has no status worth a report.
StatusDue_UnlessBlocked == status_wait = 0 /\ ~ risk.blocked
StatusDue == status_wait = 0

Status ==
  /\ pc = "status"
  /\ pc' = "sleep"
  /\ \/ /\ StatusDue
        /\ runtime' = StatusReport
        /\ status_wait' = StatusInterval
     \/ /\ ~ StatusDue
        /\ UNCHANGED <<runtime, status_wait>>
  /\ UNCHANGED <<vars, STOP, opportunities, attempts, executed, symbols_left,
                 blocked_alert_sent, alert_received, trades_at_stop>>

\* Faulty: every cycle starts with the breaker closed.
Sleep_ResetsBreaker ==
  /\ pc = "sleep"
  /\ pc' = "top"
  /\ risk' = [risk EXCEPT !.blocked = FALSE, !.consecutive_failures = 0,
                          !.blocked_reason = NoReason]
  /\ UNCHANGED <<quote_free, base_free, trade_cooldown, rebalance_wait,
                 last_order_payload, result, STOP, opportunities, attempts, executed,
                 symbols_left, blocked_alert_sent, status_wait, runtime,
                 alert_received, trades_at_stop>>

Sleep ==
  /\ pc = "sleep"
  /\ pc' = "top"
  /\ UNCHANGED <<vars, STOP, opportunities, attempts, executed, symbols_left,
                 blocked_alert_sent, status_wait, runtime, alert_received,
                 trades_at_stop>>

Finally ==
  /\ pc = "finally"
  /\ pc' = "stopped"
  /\ UNCHANGED <<vars, STOP, opportunities, attempts, executed, symbols_left,
                 blocked_alert_sent, status_wait, runtime, alert_received,
                 trades_at_stop>>

LoopStep ==
  \/ Top \/ Scan \/ Publish \/ SkipStale \/ Attempt \/ EndAttempts
  \/ RebalanceSymbol \/ EndRebalance \/ Alert \/ Status \/ Sleep \/ Finally

----------------------------------------------------------------------------

Tick ==
  /\ pc # "stopped"
  /\ Elapse
  /\ status_wait' = TickDown(status_wait)
  /\ UNCHANGED <<STOP, pc, opportunities, attempts, executed, symbols_left,
                 blocked_alert_sent, runtime, alert_received, trades_at_stop>>

BotNext == LoopStep \/ RequestStop \/ Tick

\* The loop is one thread whose every call returns (REST calls and Telegram
\* requests have timeouts), and the clock goes on; a stop may never be asked for.
BotSpec ==
  BotInit /\ [][BotNext]_botvars /\ WF_botvars(LoopStep) /\ WF_botvars(Tick)

----------------------------------------------------------------------------
(* Properties *)

BotTypeOK ==
  /\ TypeOK
  /\ pc \in {"top", "scan", "publish", "attempt", "rebalance", "alert", "status",
             "sleep", "finally", "stopped"}
  /\ {STOP, executed, blocked_alert_sent, alert_received} \subseteq BOOLEAN
  /\ Range(opportunities) \subseteq Opportunities
  /\ Range(attempts) \subseteq Range(opportunities)
  /\ symbols_left \subseteq Symbols
  /\ status_wait \in Nat

\* The loop reads STOP only at its top (main.py:86): a signal that arrives in
\* the middle of a cycle is followed by at most one more trade, because a
\* cycle ends its attempts with the first that succeeds (main.py:161).
AtMostOneTradeAfterStop == STOP => risk.trades_executed <= trades_at_stop + 1

\* The dashboard never shows a cancelled maker order as the last order, though
\* the executor keeps the payload of cancelled ones too (executor.py:153,
\* main.py:135-142).
PublishedOrderWasPlaced ==
  runtime.last_order_payload.maker_result # "cancel_timeout"

\* The metrics and the balances on the dashboard are of the same moment: the
\* balances shown hold the PnL shown (main.py:183-189).
PublishedLedgerBacked ==
  runtime.balances.published /\ Mode = "paper" =>
    LET shown == runtime.metrics.risk
        held == SumFunctionOnSet(runtime.balances.quote_free, Exchanges)
        capital == CapitalPerExchange * Cardinality(Exchanges)
    IN  /\ held >= capital + shown.realized_pnl_usdt
        /\ shown.maker_requotes = 0 => held = capital + shown.realized_pnl_usdt

\* What the dashboard has to show as the best opportunity of a scan.
Best(found) == IF found = <<>> THEN NoRoute ELSE route_key(found[1])

\* The two updates of a cycle (main.py:110-122 and 126 or 167), for a reader at
\* any moment: the count is always that of the last scan, and the best
\* opportunity that of the same scan, whatever events come later in the cycle;
\* between the two updates, while an event arrives or the clock goes on, it is
\* still that of the scan before, and never one of an earlier cycle.
DashboardShowsLastScan ==
  [][/\ runtime'.opportunity_count = Len(opportunities')
     /\ \/ /\ pc' # "publish"
           /\ runtime'.best_opportunity = Best(opportunities')
        \/ /\ pc # "publish" /\ pc' = "publish"
           /\ runtime'.best_opportunity = Best(opportunities)
        \/ /\ pc = "publish" /\ pc' = "publish"
           /\ UNCHANGED <<opportunities, runtime>>]_botvars

\* The alert is out, if it ever will be, by the end of the cycle that tripped
\* the breaker: no later cycle starts without it (main.py:177-179).
BlockedCycleIsAnnounced ==
  NotifierEnabled /\ risk.blocked /\ pc \in {"status", "sleep", "top", "scan", "publish", "finally"}
    => blocked_alert_sent

\* The loop touches the executor only by calling it, so that what is proved of
\* the executor holds under the loop.
RunsExecutor == Spec

\* A tripped breaker shows on the dashboard in the end, unless the bot stops.
BlockIsShown ==
  risk.blocked ~> \/ runtime.metrics.published /\ runtime.metrics.risk.blocked
                  \/ pc = "stopped"

\* README.md:124-129: with Telegram set up, one receives the message that the
\* risk guard has blocked the bot.
BlockIsReceived == risk.blocked ~> alert_received

\* A market that keeps offering routes in one direction only, as long as it lasts,
\* ends in a blocked executor: no quote currency flows back to where it was spent
\* (executor.py:337-382 moves base only), so that the buying exchange is drained,
\* and the attempts that are then refused count as failures.  Only routes that
\* are too old whenever they are found, again and again, put it off.
PersistentMarketEndsBlocked ==
  <>(risk.blocked \/ STOP) \/ []<>(runtime.last_event = "opportunity_stale")
=============================================================================

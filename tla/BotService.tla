----------------------------- MODULE BotService -----------------------------
(***************************************************************************)
(* The bot across restarts: systemd starts it again whenever it has ended  *)
(* (src/deploy/arbbot.service), and nothing of its state is kept           *)
(* (src/src/main.py, src/src/executor.py: all of it is built anew by       *)
(* run()).  Module Service has the times of a start and a stop; here they  *)
(* take none, and only RestartSec passes between two lives.                *)
(***************************************************************************)
EXTENDS Bot

CONSTANTS
  RestartSec,       \* of the unit, in clock ticks
  MaxLives          \* bound of the model: starts of the process

ASSUME ServiceAssumption == RestartSec \in Nat /\ MaxLives \in Nat

VARIABLES
  unit,             \* external: "active", "auto-restart" or "inactive"
  restart_wait,     \* external: time left of RestartSec
  asked,            \* external: the stop signal came from systemctl stop
  lives,            \* starts so far
  since_trade,      \* history: [route -> time since its last trade], capped
  open_failures,    \* history: failures since the last trade, refusals of a
                    \* blocked executor left out
  alerts            \* history: risk alerts handed to the notifier

servicevars == <<botvars, unit, restart_wait, asked, lives, since_trade,
                 open_failures, alerts>>

Horizon == TradeCooldown + RestartSec

ServiceInit ==
  /\ BotInit
  /\ unit = "active" /\ restart_wait = 0 /\ asked = FALSE
  /\ lives = 1
  /\ since_trade = [r \in Routes |-> Horizon]
  /\ open_failures = 0 /\ alerts = 0

Older(ages) == [r \in Routes |-> Min({ages[r] + 1, Horizon})]

Trading(r) ==
  /\ unit = "active" /\ risk'.trades_executed > risk.trades_executed
  /\ r = route_key(Head(attempts))

\* The loop and its executor.
Run ==
  /\ unit = "active"
  /\ LoopStep
  /\ since_trade' = [r \in Routes |-> IF Trading(r) THEN 0 ELSE since_trade[r]]
  /\ open_failures' =
       IF \E r \in Routes : Trading(r) THEN 0
       ELSE open_failures + (IF risk.blocked THEN 0
                             ELSE risk'.trades_failed - risk.trades_failed)
  /\ alerts' = IF pc = "alert" /\ AlertDue THEN alerts + 1 ELSE alerts
  /\ UNCHANGED <<unit, restart_wait, asked, lives>>

\* The stop signal, from systemctl stop or from elsewhere.
SignalStop ==
  /\ unit = "active"
  /\ RequestStop
  /\ asked' \in BOOLEAN
  /\ UNCHANGED <<unit, restart_wait, lives, since_trade, open_failures, alerts>>

RunTick ==
  /\ unit = "active"
  /\ Tick
  /\ since_trade' = Older(since_trade)
  /\ UNCHANGED <<unit, restart_wait, asked, lives, open_failures, alerts>>

\* Faulty: the unit starts what was stopped.
AfterExit_Always == "auto-restart"
AfterExit == IF asked THEN "inactive" ELSE "auto-restart"

End ==
  /\ unit' = AfterExit
  /\ restart_wait' = RestartSec
  /\ UNCHANGED <<botvars, asked, lives, since_trade, open_failures, alerts>>

Exit == unit = "active" /\ pc = "stopped" /\ End

\* At any moment: killed, or a fault of the interpreter.
Crash == unit = "active" /\ pc # "stopped" /\ lives < MaxLives /\ End

DownTick ==
  /\ unit = "auto-restart" /\ restart_wait > 0
  /\ restart_wait' = restart_wait - 1
  /\ since_trade' = Older(since_trade)
  /\ UNCHANGED <<botvars, unit, asked, lives, open_failures, alerts>>

\* Faulty: the unit does not wait before it starts the process again.
RestartDue_AtOnce == TRUE
RestartDue == restart_wait = 0

FreshRisk ==
  [realized_pnl_usdt |-> 0, blocked |-> FALSE, blocked_reason |-> NoReason,
   trades_executed |-> 0, trades_failed |-> 0, consecutive_failures |-> 0,
   maker_timeouts |-> 0, maker_requotes |-> 0]

\* PaperExecutor(cfg), executor.py:27-50.
NewExecutor ==
  /\ quote_free' = [e \in Exchanges |-> CapitalPerExchange]
  /\ base_free' = [e \in Exchanges |-> [s \in Symbols |-> InitialBase]]
  /\ risk' = FreshRisk
  /\ trade_cooldown' = [r \in Routes |-> 0]
  /\ rebalance_wait' = [s \in Symbols |-> 0]
  /\ last_order_payload' = NoPayload
  /\ result' = [success |-> FALSE, reason |-> "none"]

\* run() up to its loop, and the dashboard's fields.
NewLoop ==
  /\ pc' = "top" /\ STOP' = FALSE
  /\ opportunities' = <<>> /\ attempts' = <<>>
  /\ executed' = FALSE /\ symbols_left' = {}
  /\ blocked_alert_sent' = FALSE /\ status_wait' = 0
  /\ runtime' = [last_event |-> "init", opportunity_count |-> 0,
                 best_opportunity |-> NoRoute, last_order_payload |-> NoPayload,
                 metrics |-> NotPublished, balances |-> NotPublished]
  /\ alert_received' = FALSE /\ trades_at_stop' = 0

\* Nothing was saved by the process before.
Restart ==
  /\ unit = "auto-restart" /\ RestartDue
  /\ lives < MaxLives
  /\ NewExecutor /\ NewLoop
  /\ unit' = "active" /\ restart_wait' = 0 /\ lives' = lives + 1
  /\ UNCHANGED <<asked, since_trade, open_failures, alerts>>

ServiceNext ==
  Run \/ SignalStop \/ RunTick \/ Exit \/ Crash \/ DownTick \/ Restart

ServiceSpec ==
  /\ ServiceInit /\ [][ServiceNext]_servicevars
  /\ WF_servicevars(Run) /\ WF_servicevars(RunTick)
  /\ WF_servicevars(Exit \/ DownTick \/ Restart)

----------------------------------------------------------------------------
(* Properties *)

\* A restart forgets the cooldowns (executor.py:66-68); what still keeps two
\* trades of a route apart is the unit's RestartSec (arbbot.service:16).
RoutePausesAcrossLives ==
  [][\A r \in Routes :
       Trading(r) => since_trade[r] >= Min({TradeCooldown, RestartSec})]_servicevars

\* A restart closes the breaker again and forgets the streak: without a trade
\* in between, every start of the process lets at most as many more failures
\* happen as the limit says (executor.py:316-319).
FailuresPerLife == open_failures <= MaxConsecutiveFailures * lives

\* The operator hears of a tripped breaker once per life, also when an earlier
\* life was blocked too: no later cycle of a life begins without the alert,
\* and none of them repeats it (main.py:53, 177-179).
AlertPerLife ==
  /\ alerts <= lives
  /\ BlockedCycleIsAnnounced

\* Restart=always does not undo a stop: once asked for, it ends the unit for
\* good, and the loop does not cycle on (main.py:86, arbbot.service:15).
StopStays == asked ~> [](unit = "inactive")
=============================================================================

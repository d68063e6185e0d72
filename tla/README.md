# ArbBot: a TLA+ model of the arbitrage bot

ArbBot polls several exchanges for the same symbols, looks for a route
"buy here, sell there" that pays after fees, and trades it with simulated
balances (`MODE=paper`) or only rehearses the order (`MODE=dry-run`). This
directory holds TLA+ modules of its parts, TLC configurations that check them on
small instances, and TLAPS proofs of the properties that matter most.
References such as `executor.py:83` are to files in `src/src/`, and
`arbbot.service` is `src/deploy/arbbot.service`.

## 1. Inventory

| Component | State | Operations | Correct when |
|---|---|---|---|
| `PaperExecutor` (executor.py) | `balances`, `risk`, `last_trade_at`, `last_rebalance_at`, `last_order_payload` | `execute`, `rebalance_symbol_inventory`, `get_metrics`, `balance_summary` | money and inventory are neither created nor overdrawn, the PnL is backed by balances, the breaker closes at its limit and for good, a dry run changes no balance |
| Maker requote loop (executor.py:131-149) | attempt, requotes, fill probability | one iteration per attempt | it stops at the first attempt that fills, or after all of them |
| Main loop (main.py) | `STOP`, the cycle's opportunities, `blocked_alert_sent`, `last_status_ts` | the start-up, one cycle, the end; the signal handler | it gets to its loop whatever answers; a stop is honoured with at most one more trade; status and alert get out |
| `RuntimeState` and dashboard (dashboard.py) | `data`, under a lock; a socket | `update`, `snapshot`, HTTP | what is shown belongs together |
| `TelegramNotifier` (notifier.py) | none | `send`, which waits up to eight seconds and returns False on failure | an important message arrives, and does not hold up a stop for long |
| WebSocket streams (market_ws.py) | rows by symbol, a stop event, a thread | `start`, `stop`, `get`, `_consume` | a thread reconnects, and ends after `stop` |
| `ExchangeGateway` (exchanges.py) | clients, two streams | `fetch_all_tickers`, `_fetch_one`, `_impact_price_for_quote`, `resolve_taker_fees`, `close` | one failing call costs one quote and no more; quotes are as recent as promised; the price of an order is what it would cost; each exchange has a fee |
| `OpportunityEngine` (opportunity.py) | slippage averages, counters and spreads of the last cycle | `find_opportunities` | only fresh, profitable, affordable routes are offered, best first; each pair is accounted for |
| systemd unit (arbbot.service, ops.sh) | state of the unit, its waits and starts | start, restart, stop | a dead bot comes back, a stopped one does not |
| config.py, models.py | none | settings, data classes | parameters and fields of the other parts |
| logging_setup.py, installation scripts, tests | none | | not modelled |

Interaction. The main loop is one thread. It calls the gateway, whose thread
pool runs one job per exchange and symbol and waits for all; a job copies a row
from a stream's thread under that stream's lock, or calls REST. The engine
scans the result, the loop hands the best opportunities to the executor one
after another, lets it rebalance each symbol, and writes to `RuntimeState`,
which dashboard threads read under its lock. A signal handler sets `STOP` at
any moment. The executor is only ever touched by the main loop. systemd starts
the process, stops it with SIGTERM and, when it has ended, starts it again with
nothing of its state.

What is hard: a signal in mid-cycle or in mid-start; failures of any external
call; two staleness limits and one age limit in three modules, measured against
the clocks of several machines; a clock that is set; a fee that is spent but not
checked for; a penalty that is booked but not paid; a breaker whose count is fed
by refusals and forgotten in a restart; blocking waits that delay a stop;
thresholds that may be negative, averages that depend on the order of the
exchanges, and rows without volumes or depth. The hazards, each at its line with
the properties that cover it, are listed in `PROJECT.json`.

## 2. Modules

| Module | What it is |
|---|---|
| `MakerQuote` | what the requote loop computes, in closed form |
| `MakerLoop` | the loop itself, one action per exit of an iteration; shown to compute `MakerQuote` |
| `TradingAccount` | abstract specification: an account that trades make richer and a streak of failures closes |
| `Executor` | `PaperExecutor`; extends `MakerQuote`, implements `TradingAccount` |
| `WallClock` | the executor's cooldowns under a clock that is set forward and back |
| `Bot` | the main loop around the executor, with signal, clock, dashboard data and alert; extends `Executor` |
| `BotService` | the bot across restarts; extends `Bot` |
| `MarketData` | streams, gateway jobs, staleness filter of the scan, age check of the loop |
| `ImpactPrice` | the walk through one side of an order book |
| `OpportunityEngine` | the scan, pair by pair; extends `MakerQuote` |
| `Startup` | `run()` up to its loop, with fees, streams, the dashboard's port and signals |
| `Service` | the process under systemd in time: calls that take long, waits, stops, restarts |
| `MCExecutor`, `MCBot`, `MCBotService`, `MCMarketData` | instances for TLC: model values and the opportunities of each run |
| `MCOpportunityEngine` | rows for the scanner, and three configurations of it through `INSTANCE ... WITH` |
| `MCLoops`, `MCLife` | several small systems in one run: `MakerLoop`, `ImpactPrice` and `WallClock`; `Startup` and `Service` |
| `IntegerLemmas` | lemmas about clamping, quotients, extremes of sets, means, and sums over finite sets |
| `LoopProofs` | theorems about the three small loops: `MakerLoop`, `WallClock`, `ImpactPrice` |
| `ExecutorProofs`, `BotProofs`, `BotServiceProofs`, `MarketProofs`, `EngineProofs` | theorems about the module each is named after |
| `LifeProofs` | theorems about `Startup` and `Service` |

Correspondence, module by module:

* **Executor.** `execute()` is the action `Execute(o)`, split by the branch it
  returns from: `Reject` (the ordered early returns of executor.py:52-88),
  `TakerTaker`, `MakerTimeout`, `MakerEroded`, `MakerFilled`. Each contains
  everything the branch calls: `RegisterFailure` with the circuit breaker,
  `Finalize` with settlement, cooldown and drawdown guard. `Rebalance(s)` is a
  call of `rebalance_symbol_inventory` that moves inventory; calls that return
  early change nothing. When several exchanges hold the same extreme the code
  takes the first in configuration order, the model any of them. Every symbol
  is taken to have a base of its own, as in the default configuration.
  Money is integer: an opportunity carries the amounts the code computes from
  prices, fee rates and quantity. The average of the rebalancer is kept
  multiplied by the number of exchanges, so that comparisons are exact; the transfer
  is rounded down and its fee up. A time stamp is kept as the time left until
  "now - stamp < limit" turns false, counted down by `Elapse`; `WallClock` has
  what that leaves out.
  The opportunities handed over are those the engine emits: two different
  exchanges and a positive expected profit, unless the dry-run switch is on
  (opportunity.py:50-53, 247-255; `EmittedFitsExecutor` shows it of the engine).
* **MakerLoop.** Probabilities are whole percents: the settings they are compared with and
  raised by are whole percents too, so that nothing is lost by rounding them down.
  `Fill`, `GiveUp`, `Requote`
  are the three exits of executor.py:136-149. The executor increments
  `risk.maker_requotes` in the loop; since nothing else runs in between,
  `Executor` adds the whole number at once (`Requoted`).
* **WallClock.** `measured` is "now - stamp" of a route, which a correction of
  the machine's clock (external) moves for all routes at once, below zero too.
  The rebalancing interval is measured in the same way and not repeated.
* **Bot.** `pc` is the place in main.py:86-213. Each `runtime.update()` is one
  step, because the dashboard may read between two of them: `Scan` and
  `Publish` are separate for that reason. `Attempt` is a call of `execute()`
  with what the loop does with its result; `SkipStale` the age check;
  `RebalanceSymbol` one turn of the rebalancing loop (any order of symbols);
  `Alert`, `Status`, `Sleep`, `Finally` the rest of a cycle. `RequestStop` is
  the handler and may happen in every state. A scan returns any set of at most
  one opportunity per route, sorted by expected profit. Trade, rebalance, start
  and stop messages are left out here, since nothing but time depends on them
  (`Service` has them). `alert_received`
  (external) records whether the operator got the alert; `trades_at_stop` is a
  history variable for one property.
* **BotService.** `Run` is a step of `Bot`'s loop, `Crash` the end of the process
  at any moment, `Exit` its end after a stop. The unit waits `RestartSec` and
  starts it again with a new executor and a new loop (`NewExecutor`, `NewLoop`),
  unless the stop came from `systemctl stop` (`asked`). What no process remembers
  is kept in history variables: `since_trade`, `open_failures`, `alerts`.
* **MarketData.** Both streams run the same code with other formats and a
  different `recv` timeout; one action per exit of `_consume`'s loops. A job of
  `_fetch_one` goes through `CopyRow`, `CheckRow`, `RestAnswers` or `RestFails`,
  and `FetchOrderBook`, interleaved with all others and the streams. Prices are left
  out: a quote is its source, age and whether it has an order book. Subtracting
  a stamp from the clock becomes an age that `Tick` increments. `Ahead` is how far
  an exchange's clock is ahead of the local one: the age the code sees of its rows is
  smaller by that, and may be negative. The scan picks
  any of the routes whose legs are fresh (whether they pay is data); the loop
  attempts them in any order until one succeeds, none is left or they are too old.
* **ImpactPrice.** One action per turn of the loop of exchanges.py:254-268. Quote
  amounts are integers, base amounts parts of 1/`Unit`, where every price divides
  `Unit`, so that the division by the price is exact. Levels may be cut short,
  zero, or in any order.
* **OpportunityEngine.** `BeginScan`, `ScanSymbol`, `BuildOpportunity`, `EndScan` are the
  loops of `find_opportunities`; `BuildOpportunity` is one pair with everything
  that is called for it. As in the code the slippage averages of both exchanges move before the pair
  is judged, rejected or not. Rates are integers in units of 1/`Scale`, rounded down
  where the code divides; an amount of money in an opportunity is multiplied by `Scale`.
  The estimates of a maker order are exact: queue risk, scores and probability of a pair
  are counted in parts of a percent (`Percent`) that every division in them leaves
  whole, and the fill time is truncated to milliseconds, as by the `int()` of the code.
  The counts that the dashboard
  also adds up over all cycles, and the diagnostics of maker orders, are only
  reported and left out.
* **Startup.** `run()` in order: `LoadConfig`, `CheckSettings` (with the handlers),
  `InitGateway`, `ResolveFee` once per client, `EndFees`, `StartDashboard`,
  `EnterLoop`. A failed call of an exchange is a report that names no fee (`FeeOf` is
  the value chosen, `Source` where it comes from). A mean of fees
  is rounded down. Before the handlers are installed a signal has Python's or the
  kernel's default action and ends the process. `bind()` may find the port
  taken (an `OSError`, which is handled) or above 65535 (an `OverflowError`, which is not).
* **Service.** Of the process only what takes time is kept; a tick is two and a
  half seconds. A signal does not cut a call short, since Python resumes the wait.
  The unit (external, as arbbot.service:15-17 configures it) restarts after a
  crash, an exception or a foreign signal, kills with SIGKILL after
  `TimeoutStopSec`, and gives up after `StartLimitBurst` starts in
  `StartLimitInterval` (systemd's defaults: 5 in 10 seconds). As in systemd the
  interval is a window: the first start after it is over opens a new one (`window`
  is its age, `counted` the starts in it).

## 3. Runs

| Run | Question | Result |
|---|---|---|
| `ExecutorTrades` | do taker trades, maker orders of every outcome and rebalancing on three exchanges conserve inventory, bound overdrafts, keep the ledger and the breaker, and refine the trading account? | holds |
| `ExecutorDryRun` | does a dry run with losing trades and rebalancing leave balances alone? | holds |
| `BotService` | the loop with signals, crashes and restarts at any moment: trades after a stop, what the dashboard shows, what a restart forgets and what it may not undo | holds |
| `BotOneWay` | a market that pays in one direction ends in a tripped breaker, shown and, if the notifier works, received; the loop implements the executor | holds |
| `Loops` | the requote loop against its closed form, the walk through a book against every other way to spend the amount, cooldowns against a clock that is set | holds |
| `MarketData` | ages of quotes from source to trade, with an exchange whose clock is ahead; every fetch and every stopped stream ends | holds |
| `Engine` | averages, sizes, what is emitted, what fills behind an unknown queue and the statistics of a scan, in three configurations | holds |
| `EngineShallow` | where no depth is required, does every volume and depth a row shows bound the size? | holds |
| `Life` | does the bot always start, with a fee for each exchange; does it come back; how long does a stop take? | holds |
| `ExecutorLedger` | is the PnL the change of the balances? | violated |
| `BotAlertLost` | is the alert received when sending may fail? | violated |
| `StartupOverride` | is a taker fee that is set in the environment used? | violated |

In `Loops` and `Life` each behaviour is of one part, which the variable `part`
names, and leaves the variables of the others as they are; so does a behaviour of
`Engine` keep to one configuration.

The three violated ones are disagreements between the code and its README:

1. **Lost alert.** `main.py:177-179` marks the risk alert as sent whatever
   `send()` returns. If Telegram fails at that moment the operator never hears
   of the block (README.md:124-129).
2. **Requote penalty.** `executor.py:175-176` lowers the PnL by a penalty that
   `:249-252` does not take from any balance. PnL and balances drift apart, on
   the safe side (`BalancesBackPnl` holds) but not as a ledger (README.md:27, 72).
3. **Fee override.** README.md:85 and 91 say that `FEE_TAKER_<exchange>` overrides the
   taker fee of an exchange; `exchanges.py:101-106` uses it only if the exchange itself
   names no fee, neither for the account nor for the markets (as README.md:15 has it).

Some results that hold are worth knowing.

* The drawdown guard never fires: a paper trade is booked only with a profit, and a
  dry run books nothing (`PnlNeverNegative`, `BlockedExactlyAtLimit`).
* A row between `MAX_DATA_AGE_MS` (3500) and `WEBSOCKET_STALE_MS` (6000) old is taken from the
  stream and then dropped by the scan: that it is never traded on rests on the scan alone
  (`ExecutesOnRecentQuotes`).
* A maker order beside a stream's row, which shows no volumes, fills only with nearly three
  fifths of the reference edge over its threshold (`UnknownQueueNeedsEdge`). The exact bound
  depends on the truncation of the fill time: at a timeout of 1200 ms it is 0.5967, not 0.6.
* A persistent one-way market always ends in a tripped breaker, because refusals
  for lack of quote currency, or for a route's cooldown, count as failures in a row
  and nothing moves quote currency back (`PersistentMarketEndsBlocked`); only routes
  that are found too old for ever put it off.
* A restart forgets the breaker: the limit of failures is one per life
  (`FailuresPerLife` is no better than limit times lives), and two trades of a route may
  be as close as `RestartSec` (`RoutePausesAcrossLives`).
* A stop takes a whole cycle with all its messages, then one more (`StopTimeBounded`). With
  messages that take their full eight seconds that is more than the twenty
  seconds of `TimeoutStopSec`, and the process is killed before it says that it stopped;
  a stop during a slow start is cut short in the same way, as `Life` has it.
* A pair may meet its threshold and lose money, as slippage and rounding are; it is the
  separate check of the profit that keeps it out (`EmittedFitsExecutor`), at
  any configured threshold.

### Bounds

* `ExecutorTrades`: three exchanges, one symbol, capital 17 against
  costs of 5 to 10, so that quotes run out after two or three trades, the fee decides
  at the boundary, and an exchange can sell all its inventory; no trade is larger
  than `MaxPosition`, as in opportunity.py:206. Three failures trip the breaker.
  `MaxAttempts` (6 calls of `execute()`) is the
  only bound that is not in the code; it leaves room for a full streak after
  trades and resets. `ExecutorDryRun` and `ExecutorLedger` have two exchanges, capital 20
  and 6 and 8 attempts.
* `BotService`: two exchanges, one symbol, three opportunities, two attempts per cycle,
  three in all, two lives. `RestartSec` (1) is below `TradeCooldown` (2), so that a
  restart can shorten a pause. `BotOneWay` has 11 attempts, enough to drain the exchange
  and trip a limit of 3; `BotAlertLost` has 4. When the
  bound is used up, scans find nothing and the loop goes on.
* `MarketData`: one exchange with a stream and one without, one symbol, ages up
  to `AgeLimit` = 6. It is above the sum of limits of `ExecutesOnRecentQuotes` (3), and
  above the bounds of `QuoteAgesBounded` for a fetch of up to two ticks (5 for a row of the
  stream), so that an older quote would be seen; for longer fetches that bound reaches
  `AgeLimit` and the run says nothing of rows of the stream, which is what the theorem is
  for. The clock of the exchange with a stream is one unit ahead.
* `Engine`: one scan of two symbols on two exchanges (two scans as a taker, over fewer
  rows), each exchange and symbol with any of nine rows: missing, stale,
  thin, without volumes, without depth, deep but dear, or well-paying. The timeout of 30 ms
  is so short that one truncated millisecond decides: an order beside a stream's row whose
  edge is 28 of 60 is kept out, and one of 29 fills at the very bound. Longer runs
  of averages are what the proof is for. `EngineShallow` has one scan over six rows with
  volumes, depth, both or neither, and `REQUIRE_DEPTH_LIQUIDITY` off.
* `Loops`: four requotes and a boost of 8 (more and smaller steps than the defaults of 2 and
  12 in config.py, so that orders fill at any of five attempts or at none), the default
  timeout and least probability, and every estimate on a grid over what
  opportunity.py:332-358 can produce; every book of up to three levels over ten
  kinds of level; a cooldown of 3 and a clock that is set twice by at most 2.
* `Life`: three exchanges, one unsupported and one with a stream; reports with no fee, a
  fee for one symbol and for both. Seven starts, so that the limit of five could
  be met and passed; a start that takes no time or longer than `TimeoutStopSec`, other
  calls no time or one tick.

`CHECK_DEADLOCK FALSE` is set where the system may stop: for the `Bot` runs and `Life`
the bot stops after a signal, in `Loops` the loops end, and in `Engine` the bound on
scans is reached.

### Fairness

* `BotSpec`: weak fairness of the loop's steps and of the clock. The loop is one
  thread in which every call returns: REST requests have ccxt's default
  timeout, Telegram requests eight seconds, and nothing else waits. The signal
  is not fair: it may never come.
* `ServiceSpec`: the same while the process lives, and weak fairness of systemd's
  steps. Crashes are not fair.
* `MarketData`'s `FairSpec`: weak fairness of each thread's own steps (connecting
  returns or raises, `recv` times out, the pause ends), of each job, of the loop
  and of the clock. What the exchange sends is not fair: a silent connection is
  ended by its timeout, which is what `StreamsEnd` is about.
* `StartupSpec` and `Service`'s `Spec` (in `MCLife` the same for the part a behaviour is
  of): weak fairness of the program's steps, since every call of it has a timeout, of
  systemd's, and of time. Signals, stops, crashes and exceptions are not fair.

## 4. Proofs

Every invariant and every action property of the runs that hold is proved, for all values
of the constants allowed by the named assumptions (`MakerAssumption`,
`OrdersAssumption`, `ClockAssumption`, `ImpactAssumption`, `ExecutorAssumption`,
`BotAssumption`, `ServiceAssumption` of `BotService` and of `Service`,
`StartupAssumption`, `MarketAssumption`, `EngineAssumption` and
`SnapshotAssumption`). TLC evaluates each of them in the runs. Those on numbers are
what the settings can be; `ExecutorAssumption` also says what an opportunity is, which
`EmittedFits` proves of the engine; `SnapshotAssumption` says what a row of the gateway
is, with positive prices and a depth price only where there is depth;
`ImpactAssumption` that prices divide `Unit`, which is how base amounts are counted.
One theorem has a hypothesis of its own, since a configuration may break it:
`SystemdNeverGivesUp` needs the waits for `StartLimitBurst` restarts to add up to more than
the interval of the limit (`StartsAreApart`; five times five seconds against ten
as deployed).

The arguments, module by module:

* **MakerLoop.** `LoopInvariant` says that no earlier attempt would have filled
  and that clamping at every requote equals clamping once (`IntegerLemmas`); it
  gives the closed form and the fate of slow orders.
* **WallClock.** The time measured since a route's stamp exceeds the real one by no more
  than the clock was set forward, and falls short of it by no more than it was set back
  (`ClockInvariant`); a measurement cut off at the horizon stays above the cooldown,
  whatever corrections are left.
* **ImpactPrice.** `WalkInvariant` names how much of each level the walk has taken: all
  of those it has passed, except the last if it is done, and none of the others.
  Both totals are sums over that spending. `BestFill` compares it with any other spending of
  as much: wherever the other one takes more, it does so at a price that is no better than the last
  one paid, and wherever it takes less, at one that is no worse. Replacing each price of
  the difference by the last one paid changes the sum in one direction only, and
  leaves zero (`SumExchange`).
* **Executor.** `ExecutorInvariant` is inductive. The properties need one
  another: PnL is never negative because a trade is only booked with a profit;
  hence the drawdown guard never fires; hence only the streak blocks, exactly
  at its limit, since a trade (the only thing that resets the streak) needs an
  open executor. In a dry run balances stay equal, so that rebalancing finds no
  surplus. Sums over the exchanges (`IntegerLemmas`: one or two entries of a function
  change) give the ledger property. `OverdraftIsOneFee` and `BaseNeverNegative`
  are inductive by the guards. The refinement of `TradingAccount` maps the sum
  of quote balances, the PnL and the failures left; each branch of `Execute` is
  `Trade`, `Rehearse` or `Failure`, or a stutter once closed. Of its steps: money is frozen
  once blocked; inventory is only moved, or lost to the transfer fee; a rebalancing stops at
  the average, so that the giver is not left below the receiver.
* **Bot.** Each step of the loop is a step of the executor or leaves it alone
  (`LoopRunsExecutor`), so that `ExecutorInvariant` holds in the loop. At most one
  trade follows a stop (invariant: after a stop, the remaining attempts of the
  cycle exist only while no trade has happened since), and no cycle starts
  blocked and unannounced. What the dashboard shows is of the last scan (the best opportunity,
  between the two updates, of the one before), of an order
  that was placed, and of balances that back the PnL: the invariant ties each field of
  `runtime` to the state it was taken from, at the places in the loop where it can be stale.
* **BotService.** `LifeInvariant` carries the invariants of `Bot` across the end of a
  process, the wait of the unit and the next start, so that its promises hold in every life
  (`PromisesInEveryLife`, `DashboardInEveryLife`). Added to it: failures since the last trade are
  at most the limit for each earlier life and the present streak; alerts are at
  most one per life, counted by `blocked_alert_sent`; the time since a route's last trade and its
  cooldown add up, or a restart lies between.
* **MarketData.** `MarketInvariant` relates the age of every quote in a running
  fetch to the time of the fetch and the lead of its exchange's clock, and during the
  attempts to the opportunity's age; together with the age check this bounds what
  is executed.
* **OpportunityEngine.** `ScanInvariant` and `OffersKnown` keep every opportunity found so
  far as what the judgement of its pair made it, and every average between the extremes of its
  old value and what was observed; a weighted mean, rounded down, stays between its arguments
  (`IntegerLemmas`). The final order comes from ranks that are a permutation
  (`RanksAreAll`, `RankedIsSorted`). An order behind an unknown queue has a poor rating
  (`UnknownQueueRating`): unless its edge is large, its expected fill time alone is above the
  timeout, which no requote changes; the boost of its probability is
  of no use to it. `AccountInvariant` keeps the account of a scan: each ordered pair of
  the fresh exchanges of a scanned symbol is rejected, offered, or still to be judged; n
  exchanges have n(n-1) pairs; the spreads are as many as the pairs that got a price. The
  percentiles of a sorted sample are ordered as their places in it are.
* **Startup.** `StartupInvariant` says of each exchange resolved so far that its fee is what
  its answers back (`Backs`): a mean lies between the extremes of what it is taken of
  (`MeanBetween`), rounded down as well.
* **Service.** `LimitInvariant`: of the starts counted in a window all but the first have
  waited for `RestartSec` in it, so that it is over before the count is full.
  `StopInvariant`: what has passed since a stop, what is left of the call in progress and
  what may come after it (`After`) together stay within the bound of the call that
  the stop met.

Only model-checked: everything temporal under fairness (`StopStays`,
`BlockIsShown`, `BlockIsReceived`, `PersistentMarketEndsBlocked`, `FetchEnds`,
`StreamsEnd`, `StartsAnyway`, `ComesBack`), which is outside the prover's reach.
Conversely some properties are proved and left out of the runs: `LoopInvariant`,
`SlowOrderUsesEveryRequote`, `BotTypeOK`, `PublishedLedgerBacked`, `BestComeFirst`, and
the `TypeOK` of `Executor`, `MarketData` and `OpportunityEngine`.

## 5. Not modelled

* Floating-point rounding: amounts and rates are integers in a small unit. What the
  code compares with zero after a subtraction is therefore exact in the model.
* Computing time: between the scan's look at the clock (opportunity.py:27) and the stamp of an
  opportunity (opportunity.py:284) no tick passes in `MarketData`; whatever it takes would add to
  the bound of `ExecutesOnRecentQuotes`.
* The pages and the JSON of the HTTP server, which keep no state; the texts of messages.
* The diagnostics and totals that only the dashboard reports.
* Parsing of settings other than the taker fees: a value is a constant of the modules, as
  any that can be parsed.
* Logging, the rotation of logs and the scripts of the installation: no state of the bot.
* The unit tests, which exercise the engine on fixed snapshots.
* The composition of all parts in one state space. Each interface is checked from
  both sides instead: the engine's opportunities against what the executor assumes, the
  gateway's quotes against what the scan and the loop do with their age, the loop
  against the executor's specification.

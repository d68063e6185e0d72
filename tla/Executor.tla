----------------------------- MODULE Executor -----------------------------
(***************************************************************************)
(* PaperExecutor (src/src/executor.py): the simulated balances of every    *)
(* exchange, the risk state with its circuit breaker, the cooldown of each *)
(* route, and the rebalancing of base inventory.  One action per call of   *)
(* execute(), by the branch it returns from, and one for a call of         *)
(* rebalance_symbol_inventory() that moves inventory.                      *)
(*                                                                         *)
(* Money and inventory are integers in a unit small enough for the amounts *)
(* of the instance; an opportunity carries the amounts the code computes   *)
(* from its prices, rates and quantity.  A time stamp only ever meets the  *)
(* clock in "now - stamp < limit", so it is kept as the time left until    *)
(* that comparison turns false (0 when there is no stamp).                 *)
(***************************************************************************)
EXTENDS MakerQuote, FiniteSets

CONSTANTS
  Exchanges,               \* config.exchanges
  Symbols,                 \* config.symbols, each with a base of its own
  Opportunities,           \* what OpportunityEngine may hand to execute()
  Mode,                    \* config.mode
  AllowNegative,           \* allow_negative_expected_profit_dryrun
  CapitalPerExchange,      \* capital_per_exchange_usdt
  MaxPosition,             \* max_position_per_symbol
  MaxLoss,                 \* max_daily_drawdown_pct of the total capital
  MaxConsecutiveFailures,
  TradeCooldown,           \* trade_cooldown_sec, in clock ticks
  RebalanceThreshold,      \* rebalance_threshold_pct
  RebalanceInterval,       \* rebalance_interval_sec, in clock ticks
  RebalanceFee,            \* rebalance_fee_pct
  MaxAttempts              \* bound of the model: calls of execute()

VARIABLES
  quote_free,          \* [exchange -> USDT]
  base_free,           \* [exchange -> [symbol -> inventory of its base]]
  risk,                \* RiskState
  trade_cooldown,      \* [route -> time left of last_trade_at's cooldown]
  rebalance_wait,      \* [symbol -> time left of last_rebalance_at's interval]
  last_order_payload,
  result               \* the TradeResult of the last execute()

balances == <<quote_free, base_free>>
vars == <<quote_free, base_free, risk, trade_cooldown, rebalance_wait,
          last_order_payload, result>>

Routes == Symbols \X Exchanges \X Exchanges
route_key(o) == <<o.symbol, o.buy_exchange, o.sell_exchange>>

\* Amounts of a trade.  The fee rates are those the scanner used: the taker
\* fees of the configuration, or the maker fee on the maker's leg.
QuoteSpent(o) == o.buy_cost + o.buy_fee
QuoteReceived(o) == o.sell_value - o.sell_fee
ExpectedProfit(o) == QuoteReceived(o) - QuoteSpent(o) - o.slippage
RequotePenalty(o) == o.requote_step * Requotes(o)

Opportunity ==
  [symbol : Symbols, buy_exchange : Exchanges, sell_exchange : Exchanges,
   execution_style : {"taker-taker", "maker-taker"},
   quantity : Nat \ {0}, buy_cost : Nat \ {0}, sell_value : Nat \ {0},
   buy_fee : Nat, sell_fee : Nat, slippage : Nat, requote_step : Nat,
   fill_probability : Int, expected_fill_time_ms : Int]

\* The switch that lets a dry run go on without an expected profit.
LossesAllowed == Mode = "dry-run" /\ AllowNegative

\* What the scanner emits (opportunity.py:50-53 and 247-255): two different
\* exchanges, and a positive expected profit unless the switch is on.
ASSUME ExecutorAssumption ==
  /\ IsFiniteSet(Exchanges)
  /\ Opportunities \subseteq Opportunity
  /\ \A o \in Opportunities : o.buy_exchange # o.sell_exchange
  /\ LossesAllowed \/ \A o \in Opportunities : ExpectedProfit(o) > 0
  /\ Mode \in {"paper", "dry-run"}
  /\ AllowNegative \in BOOLEAN
  /\ CapitalPerExchange \in Nat /\ MaxPosition \in Nat
  /\ MaxLoss \in Nat
  /\ MaxConsecutiveFailures \in Nat \ {0}
  /\ TradeCooldown \in Nat /\ RebalanceInterval \in Nat
  /\ RebalanceThreshold \in Nat /\ RebalanceFee \in Nat
  /\ MaxAttempts \in Nat

NoReason == "no_reason"   \* the empty string of the code

RiskState ==
  [realized_pnl_usdt : Int, blocked : BOOLEAN,
   blocked_reason : {NoReason, "daily_drawdown_limit", "consecutive_failures_limit"},
   trades_executed : Nat, trades_failed : Nat, consecutive_failures : Nat,
   maker_timeouts : Nat, maker_requotes : Nat]

----------------------------------------------------------------------------
(* Construction *)

NoPayload == [maker_result |-> "none"]   \* the empty dictionary of the code

InitialBase == 3 * MaxPosition

Init ==
  /\ quote_free = [e \in Exchanges |-> CapitalPerExchange]
  /\ base_free = [e \in Exchanges |-> [s \in Symbols |-> InitialBase]]
  /\ risk = [realized_pnl_usdt |-> 0, blocked |-> FALSE, blocked_reason |-> NoReason,
             trades_executed |-> 0, trades_failed |-> 0,
             consecutive_failures |-> 0,
             maker_timeouts |-> 0, maker_requotes |-> 0]
  /\ trade_cooldown = [r \in Routes |-> 0]
  /\ rebalance_wait = [s \in Symbols |-> 0]
  /\ last_order_payload = NoPayload
  /\ result = [success |-> FALSE, reason |-> "none"]

----------------------------------------------------------------------------
(* Failures and the circuit breaker *)

\* Faulty: one failure too many.
Trips_LateByOne(streak) == streak > MaxConsecutiveFailures

Trips(streak) == streak >= MaxConsecutiveFailures

\* Faulty: a failure is counted, but not as one in a row.
RegisterFailure_StreakLost(r) == [r EXCEPT !.trades_failed = @ + 1]

RegisterFailure(r) ==
  LET streak == r.consecutive_failures + 1
      trips == Trips(streak)
  IN  [r EXCEPT !.trades_failed = @ + 1,
                !.consecutive_failures = streak,
                !.blocked = @ \/ trips,
                !.blocked_reason = IF trips THEN "consecutive_failures_limit" ELSE @]

Fail(r, reason) ==
  /\ risk' = RegisterFailure(r)
  /\ result' = [success |-> FALSE, reason |-> reason]
  /\ UNCHANGED <<quote_free, base_free, trade_cooldown, rebalance_wait>>

\* Faulty: only the drawdown guard stops the executor.
Halted_DrawdownOnly == risk.blocked_reason = "daily_drawdown_limit"
Halted == risk.blocked

\* Faulty: the checks look at the other exchange of the route.
CanPay_SellSide(o) == quote_free[o.sell_exchange] >= o.buy_cost
CanDeliver_BuySide(o) == base_free[o.buy_exchange][o.symbol] >= o.quantity

CanPay(o) == quote_free[o.buy_exchange] >= o.buy_cost
CanDeliver(o) == base_free[o.sell_exchange][o.symbol] >= o.quantity

\* The early returns of execute(), in their order; "none" lets it go on.
EarlyReturn(o) ==
  IF Halted
    THEN IF risk.blocked_reason = NoReason THEN "risk_blocked" ELSE risk.blocked_reason
  ELSE IF trade_cooldown[route_key(o)] > 0
    THEN "cooldown_active"
  ELSE IF ~ {o.buy_exchange, o.sell_exchange} \subseteq Exchanges
    THEN "unknown_exchange"
  ELSE IF ~ CanPay(o)
    THEN "insufficient_quote_on_buy_exchange"
  ELSE IF ~ CanDeliver(o)
    THEN "insufficient_base_on_sell_exchange"
  ELSE "none"

Reject(o) ==
  /\ EarlyReturn(o) # "none"
  /\ Fail(risk, EarlyReturn(o))
  /\ UNCHANGED last_order_payload

----------------------------------------------------------------------------
(* Completed trades *)

OrderPayload(o, maker_result, requotes) ==
  [route |-> route_key(o), maker_result |-> maker_result, maker_requotes |-> requotes]

\* Faulty: a completed trade leaves the failure streak as it was.
Executed_KeepsStreak(r) == [r EXCEPT !.trades_executed = @ + 1]

Executed(r) ==
  [r EXCEPT !.trades_executed = @ + 1, !.consecutive_failures = 0]

EvaluateDrawdownGuard(r) ==
  IF r.realized_pnl_usdt <= -MaxLoss
    THEN [r EXCEPT !.blocked = TRUE, !.blocked_reason = "daily_drawdown_limit"]
    ELSE r

\* Faulty: the inventory sold is not taken from the seller.
Settle_SellerKeepsBase(o) ==
  /\ quote_free' = [quote_free EXCEPT ![o.buy_exchange] = @ - QuoteSpent(o),
                                      ![o.sell_exchange] = @ + QuoteReceived(o)]
  /\ base_free' = [base_free EXCEPT ![o.buy_exchange][o.symbol] = @ + o.quantity]

Settle(o) ==
  /\ quote_free' = [quote_free EXCEPT ![o.buy_exchange] = @ - QuoteSpent(o),
                                      ![o.sell_exchange] = @ + QuoteReceived(o)]
  /\ base_free' = [base_free EXCEPT ![o.buy_exchange][o.symbol] = @ + o.quantity,
                                    ![o.sell_exchange][o.symbol] = @ - o.quantity]

\* Faulty: every mode settles.
DryRun_Never == FALSE
DryRun == Mode = "dry-run"

\* _finalize_execution: a dry run only records the order, paper trading also
\* settles it.  The cooldown of the route starts in both.
Finalize(o, r, pnl, payload) ==
  /\ last_order_payload' = payload
  /\ trade_cooldown' = [trade_cooldown EXCEPT ![route_key(o)] = TradeCooldown]
  /\ \/ /\ DryRun
        /\ risk' = Executed(r)
        /\ UNCHANGED balances
     \/ /\ ~ DryRun
        /\ Settle(o)
        /\ risk' = EvaluateDrawdownGuard(
                     Executed([r EXCEPT !.realized_pnl_usdt = @ + pnl]))
  /\ UNCHANGED rebalance_wait

TakerTaker(o) ==
  /\ EarlyReturn(o) = "none"
  /\ o.execution_style = "taker-taker"
  /\ Finalize(o, risk, QuoteReceived(o) - QuoteSpent(o), OrderPayload(o, "n/a", 0))
  /\ result' = [success |-> TRUE,
                reason |-> IF Mode = "dry-run" THEN "dry_run_submitted" ELSE "ok"]

\* Faulty: the penalty of the requotes is added to the profit.
MakerPnl_PenaltyAdded(o) == QuoteReceived(o) - QuoteSpent(o) + RequotePenalty(o)

\* The risk state once the requoting of o is over, and the profit it leaves.
Requoted(o) == [risk EXCEPT !.maker_requotes = @ + Requotes(o)]
MakerPnl(o) == QuoteReceived(o) - QuoteSpent(o) - RequotePenalty(o)

\* Faulty: the profit left after the requotes is not looked at.
EdgeSurvives_Unchecked(o) == TRUE
EdgeSurvives(o) == MakerPnl(o) > 0 \/ LossesAllowed

MakerTimeout(o) ==
  /\ EarlyReturn(o) = "none"
  /\ o.execution_style = "maker-taker"
  /\ ~ Filled(o)
  /\ last_order_payload' = OrderPayload(o, "cancel_timeout", Requotes(o))
  /\ Fail([Requoted(o) EXCEPT !.maker_timeouts = @ + 1], "maker_timeout_cancelled")

MakerEroded(o) ==
  /\ EarlyReturn(o) = "none"
  /\ o.execution_style = "maker-taker"
  /\ Filled(o)
  /\ ~ EdgeSurvives(o)
  /\ Fail(Requoted(o), "requote_eroded_edge")
  /\ UNCHANGED last_order_payload

MakerFilled(o) ==
  /\ EarlyReturn(o) = "none"
  /\ o.execution_style = "maker-taker"
  /\ Filled(o)
  /\ EdgeSurvives(o)
  /\ Finalize(o, Requoted(o), MakerPnl(o), OrderPayload(o, "filled", Requotes(o)))
  /\ result' = [success |-> TRUE,
                reason |-> IF Mode = "dry-run" THEN "dry_run_maker_taker_submitted"
                                               ELSE "maker_taker_ok"]

Execute(o) ==
  /\ risk.trades_executed + risk.trades_failed < MaxAttempts
  /\ \/ Reject(o)
     \/ TakerTaker(o)
     \/ MakerTimeout(o)
     \/ MakerEroded(o)
     \/ MakerFilled(o)

----------------------------------------------------------------------------
(* Rebalancing.  The code divides the total by the number of exchanges; the *)
(* differences from that average are kept multiplied by the number, and the *)
(* transfer is rounded down, its fee up, to whole units.                    *)

base_by_exchange(s) == [e \in Exchanges |-> base_free[e][s]]
TotalBase(s) == SumFunctionOnSet(base_by_exchange(s), Exchanges)

Surplus(s, e) == Cardinality(Exchanges) * base_free[e][s] - TotalBase(s)

\* Faulty: the larger of the two differences is sent.
TransferSize_Larger(s, source, target) ==
  Max({Surplus(s, source), -Surplus(s, target)}) \div Cardinality(Exchanges)

TransferSize(s, source, target) ==
  Min({Surplus(s, source), -Surplus(s, target)}) \div Cardinality(Exchanges)

TransferFee(size) == (size * RebalanceFee + 99) \div 100

\* The transfers rebalance_symbol_inventory(s) may carry out: none when it
\* returns early, more than one when several exchanges hold the same extreme
\* (the code then takes the first of them in its configuration).
Transfers(s) ==
  {t \in Exchanges \X Exchanges :
     LET source == t[1]
         target == t[2]
         threshold == RebalanceThreshold * TotalBase(s)
         size == TransferSize(s, source, target)
     IN  /\ rebalance_wait[s] = 0
         /\ Cardinality(Exchanges) >= 2
         /\ threshold > 0
         /\ \A e \in Exchanges : /\ base_free[target][s] <= base_free[e][s]
                                 /\ base_free[e][s] <= base_free[source][s]
         /\ 100 * Surplus(s, source) >= threshold
         /\ 100 * (-Surplus(s, target)) >= threshold
         /\ size > 0
         /\ size - TransferFee(size) > 0}

Rebalance(s) ==
  \E t \in Transfers(s) :
    LET size == TransferSize(s, t[1], t[2])
    IN  /\ base_free' = [base_free EXCEPT ![t[1]][s] = @ - size,
                                          ![t[2]][s] = @ + size - TransferFee(size)]
        /\ rebalance_wait' = [rebalance_wait EXCEPT ![s] = RebalanceInterval]
        /\ UNCHANGED <<quote_free, risk, trade_cooldown, last_order_payload, result>>

----------------------------------------------------------------------------
(* The clock, and the calls in any order *)

TickDown(timer) == IF timer = 0 THEN 0 ELSE timer - 1

Elapse ==
  /\ trade_cooldown' = [r \in Routes |-> TickDown(trade_cooldown[r])]
  /\ rebalance_wait' = [s \in Symbols |-> TickDown(rebalance_wait[s])]
  /\ UNCHANGED <<quote_free, base_free, risk, last_order_payload, result>>

Next ==
  \/ \E o \in Opportunities : Execute(o)
  \/ \E s \in Symbols : Rebalance(s)
  \/ Elapse

Spec == Init /\ [][Next]_vars

----------------------------------------------------------------------------
(* Properties *)

\* Types of the executor's state, from the fields declared in RiskState and
\* ExchangeBalance; balances are any integers here.
TypeOK ==
  /\ quote_free \in [Exchanges -> Int]
  /\ base_free \in [Exchanges -> [Symbols -> Int]]
  /\ risk \in RiskState
  /\ trade_cooldown \in [Routes -> Nat]
  /\ rebalance_wait \in [Symbols -> Nat]

\* execute() checks the quote balance against the cost without the fee
\* (executor.py:83-84) and then spends both (:249): a balance may go below
\* zero, but never by more than the fee of one trade on that exchange,
\* whatever sequence of trades led there.
OverdraftIsOneFee ==
  \A e \in Exchanges : quote_free[e] < 0 =>
    \E o \in Opportunities : o.buy_exchange = e /\ quote_free[e] >= -o.buy_fee

\* No sequence of trades and rebalancings sells inventory that is not there
\* (executor.py:87 and 365-380).
BaseNeverNegative ==
  \A e \in Exchanges, s \in Symbols : base_free[e][s] >= 0

\* Across all trades, the quote balances hold at least the initial capital
\* and the realized PnL, and exactly that while no order was requoted: the
\* requote penalty is taken from the PnL only (executor.py:175-176, 249-255).
BalancesBackPnl ==
  LET capital == CapitalPerExchange * Cardinality(Exchanges)
      held == SumFunctionOnSet(quote_free, Exchanges)
  IN  Mode = "paper" =>
        /\ held >= capital + risk.realized_pnl_usdt
        /\ risk.maker_requotes = 0 => held = capital + risk.realized_pnl_usdt

\* What README.md:27 promises of the ledger ("pencatatan PnL per trade"): the
\* recorded PnL is the change of the simulated balances.
PnlIsBalanceChange ==
  Mode = "paper" =>
    SumFunctionOnSet(quote_free, Exchanges)
      = CapitalPerExchange * Cardinality(Exchanges) + risk.realized_pnl_usdt

\* The recorded PnL never falls below zero, so that the drawdown guard has
\* nothing to react to: a paper trade is only booked with a profit, and a dry
\* run, which may report losses, books none (executor.py:177-189, 228-259).
PnlNeverNegative ==
  /\ risk.realized_pnl_usdt >= 0
  /\ Mode = "dry-run" => risk.realized_pnl_usdt = 0

\* The executor is blocked exactly when its failure streak has reached the
\* limit: nothing resets the streak once it has, and the drawdown guard
\* (executor.py:283-293) never fires on what the scanner emits.
BlockedExactlyAtLimit ==
  /\ risk.blocked <=> risk.consecutive_failures >= MaxConsecutiveFailures
  /\ risk.blocked_reason = IF risk.blocked THEN "consecutive_failures_limit" ELSE NoReason

\* A dry run never changes a balance ("tidak mengubah balance", README.md:73),
\* although the rebalancer runs in it as well: equal inventories stay equal.
DryRunKeepsBalances ==
  Mode = "dry-run" =>
    /\ quote_free = [e \in Exchanges |-> CapitalPerExchange]
    /\ base_free = [e \in Exchanges |-> [s \in Symbols |-> InitialBase]]

\* The inductive invariant behind the properties above.
ExecutorInvariant ==
  /\ TypeOK
  /\ PnlNeverNegative
  /\ BlockedExactlyAtLimit
  /\ OverdraftIsOneFee
  /\ BaseNeverNegative
  /\ DryRunKeepsBalances
  /\ BalancesBackPnl

\* The executor implements the trading account of module TradingAccount:
\* trades book what they earn and nothing else does, and the account closes
\* for good after as many failures in a row as the limit allows.
Account ==
  INSTANCE TradingAccount WITH
    Capital <- CapitalPerExchange * Cardinality(Exchanges),
    MaxFailures <- MaxConsecutiveFailures,
    Books <- Mode = "paper",
    held <- SumFunctionOnSet(quote_free, Exchanges),
    booked <- risk.realized_pnl_usdt,
    failures_left <- Max({0, MaxConsecutiveFailures - risk.consecutive_failures})

ImplementsAccount == Account!Spec

\* Once blocked, no quote balance moves again and no order goes out; only the
\* rebalancer may still move inventory.
BlockedFreezesMoney ==
  [][risk.blocked => /\ UNCHANGED <<quote_free, last_order_payload>>
                     /\ risk'.trades_executed = risk.trades_executed
                     /\ base_free' = base_free \/ risk' = risk]_vars

\* Trades move inventory between exchanges without creating or losing any;
\* only a rebalancing loses some, to its fee, and none creates any.
InventoryNeverCreated ==
  [][\A s \in Symbols : /\ TotalBase(s)' <= TotalBase(s)
                        /\ TotalBase(s)' # TotalBase(s) => risk' = risk]_vars

\* A rebalancing does not overshoot: the exchange that gave still holds at
\* least what the one that received holds (executor.py:368).
RebalanceNeverOvershoots ==
  [][risk' = risk =>
       \A s \in Symbols, e, f \in Exchanges :
         base_free'[e][s] < base_free[e][s] /\ base_free'[f][s] > base_free[f][s]
           => base_free'[e][s] >= base_free'[f][s]]_vars
=============================================================================

-------------------------- MODULE ExecutorProofs --------------------------
(***************************************************************************)
(* The safety properties of Executor hold for every set of exchanges,      *)
(* symbols and opportunities and every setting the assumptions allow: the  *)
(* invariants first, then the refinement of the account, then what a       *)
(* single step may never do.                                               *)
(***************************************************************************)
EXTENDS Executor, IntegerLemmas

----------------------------------------------------------------------------
(* The amounts of an opportunity *)

\* At least one attempt is made (executor.py:129).
LEMMA TotalAttemptsType == TotalAttempts \in Nat \ {0}
  BY MaxPair, MakerAssumption DEF TotalAttempts

\* The number of requotes of an order is a natural number.
LEMMA RequotesType ==
  ASSUME NEW o
  PROVE  Requotes(o) \in Nat
<1>1. FillingRequotes(o) \subseteq Nat
  BY TotalAttemptsType DEF FillingRequotes
<1>2. CASE Filled(o)
  <2>1. PICK m \in FillingRequotes(o) : \A k \in FillingRequotes(o) : m <= k
    BY <1>1, <1>2, SmallestOf DEF Filled
  <2>2. Min(FillingRequotes(o)) = m
    BY <1>1, <2>1, MinIs
  <2>3. QED
    BY <1>1, <1>2, <2>2 DEF Requotes
<1>3. CASE ~ Filled(o)
  BY <1>3, TotalAttemptsType DEF Requotes
<1>4. QED
  BY <1>2, <1>3

\* Types of what the code reads from an opportunity.
LEMMA OpportunityFields ==
  ASSUME NEW o \in Opportunities
  PROVE  /\ o.symbol \in Symbols
         /\ o.buy_exchange \in Exchanges
         /\ o.sell_exchange \in Exchanges
         /\ o.buy_exchange # o.sell_exchange
         /\ o.quantity \in Nat \ {0}
         /\ o.buy_cost \in Nat \ {0}
         /\ o.buy_fee \in Nat
         /\ o.slippage \in Nat
         /\ o.requote_step \in Nat
         /\ QuoteSpent(o) \in Int /\ QuoteSpent(o) > 0
         /\ QuoteReceived(o) \in Int
         /\ route_key(o) \in Routes
<1>1. o \in Opportunity /\ o.buy_exchange # o.sell_exchange
  BY ExecutorAssumption
<1>2. /\ o.symbol \in Symbols
      /\ o.buy_exchange \in Exchanges
      /\ o.sell_exchange \in Exchanges
      /\ o.quantity \in Nat \ {0}
      /\ o.buy_cost \in Nat \ {0}
      /\ o.sell_value \in Nat \ {0}
      /\ o.buy_fee \in Nat
      /\ o.sell_fee \in Nat
      /\ o.slippage \in Nat
      /\ o.requote_step \in Nat
  BY <1>1 DEF Opportunity
<1>3. QED
  BY <1>1, <1>2 DEF QuoteSpent, QuoteReceived, route_key, Routes

\* A requote costs nothing or something, never pays.
LEMMA PenaltyType ==
  ASSUME NEW o \in Opportunities
  PROVE  /\ RequotePenalty(o) \in Nat
         /\ Requotes(o) = 0 => RequotePenalty(o) = 0
<1>1. o.requote_step \in Nat /\ Requotes(o) \in Nat
  BY OpportunityFields, RequotesType
<1>2. QED
  BY <1>1 DEF RequotePenalty

\* The scanner only hands on trades with a profit, except to such a dry run.
LEMMA TradesPay ==
  ASSUME NEW o \in Opportunities, ~ LossesAllowed
  PROVE  QuoteReceived(o) - QuoteSpent(o) > 0
<1>1. ExpectedProfit(o) > 0
  BY ExecutorAssumption
<1>2. QED
  BY <1>1, OpportunityFields DEF ExpectedProfit

\* A call of execute() that passes the early returns.
LEMMA GoesOn ==
  ASSUME TypeOK, NEW o \in Opportunities, EarlyReturn(o) = "none"
  PROVE  /\ ~ risk.blocked
         /\ quote_free[o.buy_exchange] >= o.buy_cost
         /\ base_free[o.sell_exchange][o.symbol] >= o.quantity
<1>1. risk.blocked_reason # "none"
  BY DEF TypeOK, RiskState, NoReason
<1>2. ~ risk.blocked
  BY <1>1 DEF EarlyReturn, Halted
<1>3. CanPay(o) /\ CanDeliver(o)
  BY <1>2 DEF EarlyReturn, Halted
<1>4. QED
  BY <1>2, <1>3 DEF CanPay, CanDeliver

----------------------------------------------------------------------------
(* Initial states *)

\* There is a number of exchanges to multiply the capital by.
LEMMA CardinalityOfExchanges == Cardinality(Exchanges) \in Nat
  BY ExecutorAssumption, FS_CardinalityType

\* A new executor satisfies the invariant.
LEMMA InitInvariant == Init => ExecutorInvariant
<1> SUFFICES ASSUME Init PROVE ExecutorInvariant
  OBVIOUS
<1>1. InitialBase \in Nat /\ CapitalPerExchange \in Nat
  BY ExecutorAssumption DEF InitialBase
<1>2. TypeOK
  BY <1>1, ExecutorAssumption DEF Init, TypeOK, RiskState, NoReason
<1>3. PnlNeverNegative
  BY DEF Init, PnlNeverNegative
<1>4. BlockedExactlyAtLimit
  BY ExecutorAssumption DEF Init, BlockedExactlyAtLimit
<1>5. OverdraftIsOneFee
  BY <1>1 DEF Init, OverdraftIsOneFee
<1>6. BaseNeverNegative
  BY <1>1 DEF Init, BaseNeverNegative
<1>7. DryRunKeepsBalances
  BY DEF Init, DryRunKeepsBalances
<1>8. BalancesBackPnl
  <2>1. SumFunctionOnSet(quote_free, Exchanges)
          = CapitalPerExchange * Cardinality(Exchanges)
    BY <1>1, ExecutorAssumption, SumConstant DEF Init
  <2>2. CapitalPerExchange * Cardinality(Exchanges) \in Int
    BY <1>1, CardinalityOfExchanges
  <2>3. risk.realized_pnl_usdt = 0
    BY DEF Init
  <2>4. QED
    BY <2>1, <2>2, <2>3 DEF BalancesBackPnl
<1>9. QED
  BY <1>2, <1>3, <1>4, <1>5, <1>6, <1>7, <1>8 DEF ExecutorInvariant

----------------------------------------------------------------------------
(* Failures *)

\* The risk state on which a failure or a trade is registered: requotes and
\* maker timeouts may have been counted, nothing else has changed.
CountedOn(r) ==
  /\ r \in RiskState
  /\ r.realized_pnl_usdt = risk.realized_pnl_usdt
  /\ r.consecutive_failures = risk.consecutive_failures
  /\ r.blocked <=> risk.blocked
  /\ r.blocked_reason = risk.blocked_reason
  /\ r.maker_requotes >= risk.maker_requotes

\* Counting requotes changes nothing else of the risk state, so that both it and
\* the risk state itself can be what a failure or a trade is counted on.
LEMMA RequotedCounts ==
  ASSUME TypeOK, NEW o \in Opportunities
  PROVE  /\ CountedOn(Requoted(o))
         /\ Requoted(o).maker_requotes = risk.maker_requotes + Requotes(o)
         /\ CountedOn([Requoted(o) EXCEPT !.maker_timeouts = @ + 1])
         /\ CountedOn(risk)
<1> DEFINE n == Requotes(o)
           r == [risk EXCEPT !.maker_requotes = @ + n]
           t == [r EXCEPT !.maker_timeouts = @ + 1]
<1>1. risk \in RiskState /\ n \in Nat
  BY RequotesType DEF TypeOK
<1> HIDE DEF n
<1>2. r \in RiskState /\ r.maker_requotes = risk.maker_requotes + n
  BY <1>1 DEF RiskState
<1>3. /\ r.realized_pnl_usdt = risk.realized_pnl_usdt
      /\ r.consecutive_failures = risk.consecutive_failures
      /\ r.blocked = risk.blocked
      /\ r.blocked_reason = risk.blocked_reason
  BY <1>1 DEF RiskState
<1> HIDE DEF r
<1>4. t \in RiskState /\ t.maker_requotes = r.maker_requotes
  BY <1>2 DEF RiskState
<1>5. CountedOn(t)
  <2>1. /\ t.realized_pnl_usdt = r.realized_pnl_usdt
        /\ t.consecutive_failures = r.consecutive_failures
        /\ t.blocked = r.blocked
        /\ t.blocked_reason = r.blocked_reason
    BY <1>2 DEF RiskState
  <2>2. t.maker_requotes >= risk.maker_requotes
    BY <1>1, <1>2, <1>4 DEF RiskState
  <2> HIDE DEF t
  <2>3. QED
    BY <1>3, <1>4, <2>1, <2>2 DEF CountedOn
<1>6. CountedOn(risk)
  BY <1>1 DEF RiskState, CountedOn
<1>7. CountedOn(r)
  BY <1>1, <1>2, <1>3 DEF RiskState, CountedOn
<1>8. QED
  BY <1>2, <1>5, <1>6, <1>7 DEF Requoted, n, r

\* What counting a failure does to the parts the invariant speaks of.
LEMMA RegisterFailureIs ==
  ASSUME TypeOK, NEW r, CountedOn(r)
  PROVE  /\ RegisterFailure(r) \in RiskState
         /\ RegisterFailure(r).realized_pnl_usdt = risk.realized_pnl_usdt
         /\ RegisterFailure(r).consecutive_failures = risk.consecutive_failures + 1
         /\ RegisterFailure(r).maker_requotes >= risk.maker_requotes
         /\ RegisterFailure(r).blocked
              <=> risk.blocked \/ risk.consecutive_failures + 1 >= MaxConsecutiveFailures
         /\ RegisterFailure(r).blocked_reason
              = IF risk.consecutive_failures + 1 >= MaxConsecutiveFailures
                  THEN "consecutive_failures_limit" ELSE risk.blocked_reason
<1> DEFINE f == RegisterFailure(r)
           trips == r.consecutive_failures + 1 >= MaxConsecutiveFailures
<1>1. r \in RiskState /\ trips \in BOOLEAN
  BY DEF CountedOn
<1>2. f = [r EXCEPT !.trades_failed = @ + 1,
                    !.consecutive_failures = r.consecutive_failures + 1,
                    !.blocked = @ \/ trips,
                    !.blocked_reason = IF trips THEN "consecutive_failures_limit" ELSE @]
  BY DEF RegisterFailure, Trips
<1>3. r.consecutive_failures + 1 \in Nat /\ r.trades_failed + 1 \in Nat
  BY <1>1 DEF RiskState
<1>4. f \in RiskState
  BY <1>1, <1>2, <1>3 DEF RiskState
<1>5. /\ f.realized_pnl_usdt = r.realized_pnl_usdt
      /\ f.consecutive_failures = r.consecutive_failures + 1
      /\ f.maker_requotes = r.maker_requotes
      /\ f.blocked = (r.blocked \/ trips)
      /\ f.blocked_reason = IF trips THEN "consecutive_failures_limit" ELSE r.blocked_reason
  BY <1>1, <1>2 DEF RiskState
<1> HIDE DEF f
<1>6. QED
  BY <1>4, <1>5 DEF CountedOn, f

\* A failure keeps the invariant, whatever its reason.
LEMMA FailInvariant ==
  ASSUME ExecutorInvariant, NEW r, CountedOn(r), NEW reason, Fail(r, reason)
  PROVE  ExecutorInvariant'
<1>0. TypeOK
  BY DEF ExecutorInvariant
<1>1. /\ risk' = RegisterFailure(r)
      /\ UNCHANGED <<quote_free, base_free, trade_cooldown, rebalance_wait>>
  BY DEF Fail
<1>2. /\ risk' \in RiskState
      /\ risk'.realized_pnl_usdt = risk.realized_pnl_usdt
      /\ risk'.consecutive_failures = risk.consecutive_failures + 1
      /\ risk'.maker_requotes >= risk.maker_requotes
      /\ risk'.blocked
           <=> risk.blocked \/ risk.consecutive_failures + 1 >= MaxConsecutiveFailures
      /\ risk'.blocked_reason
           = IF risk.consecutive_failures + 1 >= MaxConsecutiveFailures
               THEN "consecutive_failures_limit" ELSE risk.blocked_reason
  BY <1>0, <1>1, RegisterFailureIs
<1>3. TypeOK'
  BY <1>0, <1>1, <1>2 DEF TypeOK
<1>4. PnlNeverNegative'
  BY <1>2 DEF ExecutorInvariant, PnlNeverNegative
<1>5. BlockedExactlyAtLimit'
  <2>1. /\ risk.blocked <=> risk.consecutive_failures >= MaxConsecutiveFailures
        /\ risk.blocked_reason = IF risk.blocked THEN "consecutive_failures_limit" ELSE NoReason
    BY DEF ExecutorInvariant, BlockedExactlyAtLimit
  <2>2. risk.consecutive_failures \in Nat /\ MaxConsecutiveFailures \in Nat
    BY <1>0, ExecutorAssumption DEF TypeOK, RiskState
  <2>3. QED
    BY <1>2, <2>1, <2>2 DEF BlockedExactlyAtLimit
<1>6. OverdraftIsOneFee' /\ BaseNeverNegative' /\ DryRunKeepsBalances'
  BY <1>1 DEF ExecutorInvariant, OverdraftIsOneFee, BaseNeverNegative, DryRunKeepsBalances
<1>7. BalancesBackPnl'
  <2>1. risk.maker_requotes \in Nat /\ risk'.maker_requotes \in Nat
    BY <1>0, <1>2 DEF TypeOK, RiskState
  <2>2. risk'.maker_requotes = 0 => risk.maker_requotes = 0
    BY <1>2, <2>1
  <2>3. QED
    BY <1>1, <1>2, <2>2 DEF ExecutorInvariant, BalancesBackPnl
<1>8. QED
  BY <1>3, <1>4, <1>5, <1>6, <1>7 DEF ExecutorInvariant

----------------------------------------------------------------------------
(* Completed trades *)

\* What a settled trade does to the balances, one by one and in total.
LEMMA SettleIs ==
  ASSUME TypeOK, NEW o \in Opportunities, Settle(o)
  PROVE  /\ quote_free' \in [Exchanges -> Int]
         /\ quote_free'[o.buy_exchange] = quote_free[o.buy_exchange] - QuoteSpent(o)
         /\ quote_free'[o.sell_exchange] = quote_free[o.sell_exchange] + QuoteReceived(o)
         /\ \A e \in Exchanges \ {o.buy_exchange, o.sell_exchange} :
              quote_free'[e] = quote_free[e]
         /\ SumFunctionOnSet(quote_free', Exchanges)
              = SumFunctionOnSet(quote_free, Exchanges) + QuoteReceived(o) - QuoteSpent(o)
<1> DEFINE b == o.buy_exchange
           c == o.sell_exchange
           spent == QuoteSpent(o)
           received == QuoteReceived(o)
           mid == [quote_free EXCEPT ![b] = @ - spent]
<1>1. b \in Exchanges /\ c \in Exchanges /\ b # c /\ spent \in Int /\ received \in Int
  BY OpportunityFields
<1>2. quote_free \in [Exchanges -> Int]
  BY DEF TypeOK
<1>3. quote_free' = [quote_free EXCEPT ![b] = @ - spent, ![c] = @ + received]
  BY DEF Settle
<1> HIDE DEF b, c, spent, received
<1>4. /\ mid \in [Exchanges -> Int]
      /\ mid[b] = quote_free[b] + (-spent)
      /\ \A e \in Exchanges \ {b} : mid[e] = quote_free[e]
  BY <1>1, <1>2
<1>5. /\ quote_free' \in [Exchanges -> Int]
      /\ quote_free'[b] = quote_free[b] - spent
      /\ quote_free'[c] = quote_free[c] + received
      /\ \A e \in Exchanges \ {b, c} : quote_free'[e] = quote_free[e]
  BY <1>1, <1>2, <1>3
<1>6. /\ quote_free'[c] = mid[c] + received
      /\ \A e \in Exchanges \ {c} : quote_free'[e] = mid[e]
  BY <1>1, <1>2, <1>4, <1>5
<1> HIDE DEF mid
<1>7. IsFiniteSet(Exchanges) /\ -spent \in Int
  BY <1>1, ExecutorAssumption
<1>8. SumFunctionOnSet(mid, Exchanges) = SumFunctionOnSet(quote_free, Exchanges) + (-spent)
  BY <1>1, <1>2, <1>4, <1>7, SumShift
<1>9. SumFunctionOnSet(quote_free', Exchanges) = SumFunctionOnSet(mid, Exchanges) + received
  <2> DEFINE after == quote_free'
  <2>1. /\ \A e \in Exchanges : mid[e] \in Int
        /\ after[c] = mid[c] + received
        /\ \A e \in Exchanges \ {c} : after[e] = mid[e]
    BY <1>4, <1>6
  <2> HIDE DEF after
  <2>2. SumFunctionOnSet(after, Exchanges) = SumFunctionOnSet(mid, Exchanges) + received
    BY <1>1, <1>7, <2>1, SumShift
  <2>3. QED
    BY <2>2 DEF after
<1>10. SumFunctionOnSet(quote_free, Exchanges) \in Int
  BY <1>2, <1>7, SumType
<1>11. SumFunctionOnSet(quote_free', Exchanges)
         = SumFunctionOnSet(quote_free, Exchanges) + received - spent
  BY <1>1, <1>8, <1>9, <1>10
<1>12. QED
  BY <1>5, <1>11 DEF b, c, spent, received

\* Settling moves inventory the seller has, and keeps balances typed.
LEMMA SettleBase ==
  ASSUME TypeOK, NEW o \in Opportunities, Settle(o)
  PROVE  /\ base_free' \in [Exchanges -> [Symbols -> Int]]
         /\ base_free'[o.buy_exchange][o.symbol]
              = base_free[o.buy_exchange][o.symbol] + o.quantity
         /\ base_free'[o.sell_exchange][o.symbol]
              = base_free[o.sell_exchange][o.symbol] - o.quantity
         /\ \A e \in Exchanges, s \in Symbols :
              s # o.symbol \/ e \notin {o.buy_exchange, o.sell_exchange}
                => base_free'[e][s] = base_free[e][s]
<1> DEFINE b == o.buy_exchange
           c == o.sell_exchange
           x == o.symbol
           q == o.quantity
<1>1. /\ b \in Exchanges /\ c \in Exchanges /\ b # c /\ x \in Symbols
      /\ q \in Int
  BY OpportunityFields
<1>2. base_free \in [Exchanges -> [Symbols -> Int]]
  BY DEF TypeOK
<1>3. base_free' = [base_free EXCEPT ![b][x] = @ + q, ![c][x] = @ - q]
  BY DEF Settle
<1> HIDE DEF b, c, x, q
<1>4. /\ base_free' \in [Exchanges -> [Symbols -> Int]]
      /\ base_free'[b] = [base_free[b] EXCEPT ![x] = @ + q]
      /\ base_free'[c] = [base_free[c] EXCEPT ![x] = @ - q]
      /\ \A e \in Exchanges \ {b, c} : base_free'[e] = base_free[e]
  <2> DEFINE mid == [base_free EXCEPT ![b][x] = @ + q]
  <2>1. /\ mid \in [Exchanges -> [Symbols -> Int]]
        /\ mid[b] = [base_free[b] EXCEPT ![x] = @ + q]
        /\ \A e \in Exchanges \ {b} : mid[e] = base_free[e]
    <3>1. [base_free[b] EXCEPT ![x] = @ + q] \in [Symbols -> Int]
      BY <1>1, <1>2
    <3>2. mid = [base_free EXCEPT ![b] = [base_free[b] EXCEPT ![x] = @ + q]]
      BY <1>1, <1>2
    <3> HIDE DEF mid
    <3>3. QED
      BY <1>1, <1>2, <3>1, <3>2
  <2>2. base_free' = [mid EXCEPT ![c] = [mid[c] EXCEPT ![x] = @ - q]]
    BY <1>1, <1>2, <1>3
  <2> HIDE DEF mid
  <2>3. mid[c] = base_free[c] /\ [mid[c] EXCEPT ![x] = @ - q] \in [Symbols -> Int]
    BY <1>1, <1>2, <2>1
  <2>4. /\ base_free' \in [Exchanges -> [Symbols -> Int]]
        /\ base_free'[c] = [base_free[c] EXCEPT ![x] = @ - q]
        /\ \A e \in Exchanges \ {c} : base_free'[e] = mid[e]
    BY <1>1, <2>1, <2>2, <2>3
  <2>5. QED
    BY <1>1, <2>1, <2>4
<1>5. base_free[b] \in [Symbols -> Int] /\ base_free[c] \in [Symbols -> Int]
  BY <1>1, <1>2
<1>6. /\ base_free'[b][x] = base_free[b][x] + q
      /\ base_free'[c][x] = base_free[c][x] - q
      /\ \A s \in Symbols \ {x} : /\ base_free'[b][s] = base_free[b][s]
                                  /\ base_free'[c][s] = base_free[c][s]
  BY <1>1, <1>4, <1>5
<1>7. QED
  BY <1>4, <1>6 DEF b, c, x, q

\* What a completed trade does to the risk state: with a profit booked, the
\* drawdown guard leaves it as it is.
LEMMA ExecutedIs ==
  ASSUME TypeOK, PnlNeverNegative, ~ risk.blocked, BlockedExactlyAtLimit,
         NEW r, CountedOn(r), NEW pnl \in Nat
  PROVE  LET new == Executed([r EXCEPT !.realized_pnl_usdt = @ + pnl])
         IN  /\ new \in RiskState
             /\ new.realized_pnl_usdt = risk.realized_pnl_usdt + pnl
             /\ new.consecutive_failures = 0
             /\ new.blocked = FALSE
             /\ new.blocked_reason = NoReason
             /\ new.maker_requotes = r.maker_requotes
             /\ pnl > 0 => EvaluateDrawdownGuard(new) = new
<1> DEFINE n == risk.realized_pnl_usdt + pnl
           k == r.trades_executed + 1
           mid == [r EXCEPT !.realized_pnl_usdt = n]
           new == [mid EXCEPT !.trades_executed = k, !.consecutive_failures = 0]
<1>1. /\ r \in RiskState
      /\ r.realized_pnl_usdt = risk.realized_pnl_usdt
      /\ r.blocked = FALSE
      /\ r.blocked_reason = NoReason
      /\ risk.realized_pnl_usdt \in Int
  BY DEF CountedOn, TypeOK, RiskState, BlockedExactlyAtLimit
<1>2. mid = [r EXCEPT !.realized_pnl_usdt = @ + pnl]
  BY <1>1 DEF RiskState
<1>3. mid.trades_executed = r.trades_executed
  BY <1>1 DEF RiskState
<1>4. Executed(mid) = new
  BY <1>1, <1>3 DEF Executed, RiskState
<1>5. n \in Int /\ k \in Nat /\ n >= pnl
  BY <1>1 DEF RiskState, PnlNeverNegative
<1> HIDE DEF n, k
<1>6. mid \in RiskState
  BY <1>1, <1>5 DEF RiskState
<1>7. /\ mid.realized_pnl_usdt = n
      /\ mid.blocked = r.blocked
      /\ mid.blocked_reason = r.blocked_reason
      /\ mid.maker_requotes = r.maker_requotes
  BY <1>1 DEF RiskState
<1> HIDE DEF mid
<1>8. new \in RiskState
  BY <1>5, <1>6 DEF RiskState
<1>9. /\ new.realized_pnl_usdt = n
      /\ new.consecutive_failures = 0
      /\ new.blocked = r.blocked
      /\ new.blocked_reason = r.blocked_reason
      /\ new.maker_requotes = r.maker_requotes
  BY <1>6, <1>7 DEF RiskState
<1> HIDE DEF new
<1>10. pnl > 0 => EvaluateDrawdownGuard(new) = new
  BY <1>5, <1>9, ExecutorAssumption DEF EvaluateDrawdownGuard
<1>11. QED
  BY <1>1, <1>2, <1>4, <1>8, <1>9, <1>10 DEF n

\* The profit a trade books: positive when it is settled, and what the quote
\* balances gain unless requotes were counted.
Books(o, r, pnl) ==
  /\ CountedOn(r)
  /\ pnl \in Int
  /\ ~ DryRun => pnl > 0
  /\ pnl <= QuoteReceived(o) - QuoteSpent(o)
  /\ r.maker_requotes = 0 => pnl = QuoteReceived(o) - QuoteSpent(o)

\* A completed trade, in either mode.
LEMMA FinalizeInvariant ==
  ASSUME ExecutorInvariant, NEW o \in Opportunities, EarlyReturn(o) = "none",
         NEW r, NEW pnl, NEW payload, Books(o, r, pnl), Finalize(o, r, pnl, payload)
  PROVE  ExecutorInvariant'
<1>1. /\ TypeOK /\ PnlNeverNegative /\ BlockedExactlyAtLimit /\ OverdraftIsOneFee
      /\ BaseNeverNegative /\ DryRunKeepsBalances /\ BalancesBackPnl
  BY DEF ExecutorInvariant
<1>2. /\ ~ risk.blocked
      /\ quote_free[o.buy_exchange] >= o.buy_cost
      /\ base_free[o.sell_exchange][o.symbol] >= o.quantity
  BY <1>1, GoesOn
<1>3. CountedOn(r) /\ pnl \in Int
  BY DEF Books
<1>4. trade_cooldown' \in [Routes -> Nat] /\ rebalance_wait' \in [Symbols -> Nat]
  BY <1>1, OpportunityFields, ExecutorAssumption DEF Finalize, TypeOK
<1>5. CASE DryRun
  <2>1. risk' = Executed(r) /\ UNCHANGED <<quote_free, base_free>>
    BY <1>5 DEF Finalize, balances
  <2>2. [r EXCEPT !.realized_pnl_usdt = @ + 0] = r
    BY <1>3 DEF CountedOn, RiskState
  <2>3. /\ risk' \in RiskState
        /\ risk'.realized_pnl_usdt = risk.realized_pnl_usdt + 0
        /\ risk'.consecutive_failures = 0
        /\ risk'.blocked = FALSE
        /\ risk'.blocked_reason = NoReason
    <3>1. risk' = Executed([r EXCEPT !.realized_pnl_usdt = @ + 0])
      BY <2>1, <2>2
    <3>2. QED
      BY <1>1, <1>2, <1>3, <3>1, ExecutedIs
  <2>4. Mode # "paper"
    BY <1>5 DEF DryRun
  <2>5. TypeOK'
    BY <1>1, <1>4, <2>1, <2>3 DEF TypeOK
  <2>6. PnlNeverNegative'
    <3>1. risk'.realized_pnl_usdt = risk.realized_pnl_usdt
      BY <1>1, <2>3 DEF TypeOK, RiskState
    <3>2. QED
      BY <1>1, <3>1 DEF PnlNeverNegative
  <2>7. BlockedExactlyAtLimit'
    BY <2>3, ExecutorAssumption DEF BlockedExactlyAtLimit
  <2>8. OverdraftIsOneFee' /\ BaseNeverNegative' /\ DryRunKeepsBalances'
    BY <1>1, <2>1 DEF OverdraftIsOneFee, BaseNeverNegative, DryRunKeepsBalances
  <2>9. BalancesBackPnl'
    BY <2>4 DEF BalancesBackPnl
  <2>10. QED
    BY <2>5, <2>6, <2>7, <2>8, <2>9 DEF ExecutorInvariant
<1>6. CASE ~ DryRun
  <2>1. /\ Settle(o)
        /\ risk' = EvaluateDrawdownGuard(Executed([r EXCEPT !.realized_pnl_usdt = @ + pnl]))
    BY <1>6 DEF Finalize
  <2>2. pnl \in Nat /\ pnl > 0
    BY <1>6 DEF Books
  <2>3. /\ risk' \in RiskState
        /\ risk'.realized_pnl_usdt = risk.realized_pnl_usdt + pnl
        /\ risk'.consecutive_failures = 0
        /\ risk'.blocked = FALSE
        /\ risk'.blocked_reason = NoReason
        /\ risk'.maker_requotes = r.maker_requotes
    BY <1>1, <1>2, <1>3, <2>1, <2>2, ExecutedIs
  <2>4. Mode # "dry-run"
    BY <1>6 DEF DryRun
  <2>5. TypeOK'
    BY <1>1, <1>4, <2>1, <2>3, SettleIs, SettleBase DEF TypeOK
  <2>6. PnlNeverNegative'
    <3>1. risk.realized_pnl_usdt \in Int
      BY <1>1 DEF TypeOK, RiskState
    <3>2. QED
      BY <1>1, <2>2, <2>3, <2>4, <3>1 DEF PnlNeverNegative
  <2>7. BlockedExactlyAtLimit'
    BY <2>3, ExecutorAssumption DEF BlockedExactlyAtLimit
  <2>8. OverdraftIsOneFee'
    <3> SUFFICES ASSUME NEW e \in Exchanges, quote_free'[e] < 0
                 PROVE  \E w \in Opportunities :
                          w.buy_exchange = e /\ quote_free'[e] >= -w.buy_fee
      BY DEF OverdraftIsOneFee
    <3>1. quote_free[e] \in Int
      BY <1>1 DEF TypeOK
    <3>2. CASE e = o.buy_exchange
      <4>1. quote_free'[e] = quote_free[e] - QuoteSpent(o) /\ quote_free[e] >= o.buy_cost
        BY <1>1, <1>2, <2>1, <3>2, SettleIs
      <4>2. o.buy_cost \in Nat /\ o.buy_fee \in Nat
        BY OpportunityFields
      <4>3. quote_free'[e] >= -o.buy_fee
        BY <3>1, <4>1, <4>2 DEF QuoteSpent
      <4>4. QED
        BY <3>2, <4>3
    <3>3. CASE e # o.buy_exchange
      <4>1. quote_free'[e] >= quote_free[e]
        <5>1. QuoteReceived(o) \in Int /\ QuoteReceived(o) >= 0
          BY <2>4, OpportunityFields, TradesPay DEF LossesAllowed
        <5>2. QED
          BY <1>1, <2>1, <3>1, <3>3, <5>1, SettleIs
      <4>2. quote_free'[e] \in Int
        BY <2>5 DEF TypeOK
      <4>3. PICK w \in Opportunities : w.buy_exchange = e /\ quote_free[e] >= -w.buy_fee
        BY <1>1, <3>1, <4>1, <4>2 DEF OverdraftIsOneFee
      <4>4. w.buy_fee \in Nat
        BY OpportunityFields
      <4>5. QED
        BY <3>1, <4>1, <4>2, <4>3, <4>4
    <3>4. QED
      BY <3>2, <3>3
  <2>9. BaseNeverNegative'
    <3> SUFFICES ASSUME NEW e \in Exchanges, NEW s \in Symbols
                 PROVE  base_free'[e][s] >= 0
      BY DEF BaseNeverNegative
    <3>1. base_free[e][s] \in Int /\ base_free[e][s] >= 0
      BY <1>1 DEF TypeOK, BaseNeverNegative
    <3>2. o.quantity \in Nat
      BY OpportunityFields
    <3>3. QED
      BY <1>1, <1>2, <2>1, <3>1, <3>2, SettleBase
  <2>10. DryRunKeepsBalances'
    BY <2>4 DEF DryRunKeepsBalances
  <2>11. BalancesBackPnl'
    <3> DEFINE capital == CapitalPerExchange * Cardinality(Exchanges)
               held == SumFunctionOnSet(quote_free, Exchanges)
               heldNow == SumFunctionOnSet(quote_free', Exchanges)
               gain == QuoteReceived(o) - QuoteSpent(o)
               old == risk.realized_pnl_usdt
    <3>1. /\ capital \in Int /\ held \in Int /\ gain \in Int /\ old \in Int
      BY <1>1, CardinalityOfExchanges, ExecutorAssumption, SumType, OpportunityFields
         DEF TypeOK, RiskState
    <3>2. heldNow = held + gain
      <4>1. heldNow = held + QuoteReceived(o) - QuoteSpent(o)
        BY <1>1, <2>1, SettleIs
      <4>2. QED
        BY <3>1, <4>1, OpportunityFields
    <3>3. Mode = "paper"
      BY <2>4, ExecutorAssumption
    <3>4. /\ held >= capital + old
          /\ risk.maker_requotes = 0 => held = capital + old
      BY <1>1, <3>3 DEF BalancesBackPnl
    <3>5. /\ pnl <= gain
          /\ r.maker_requotes = 0 => pnl = gain
          /\ r.maker_requotes = 0 => risk.maker_requotes = 0
      <4>1. r.maker_requotes \in Nat /\ risk.maker_requotes \in Nat
        BY <1>1, <1>3 DEF TypeOK, CountedOn, RiskState
      <4>2. QED
        BY <4>1 DEF Books, CountedOn
    <3> HIDE DEF capital, held, heldNow, gain, old
    <3>6. /\ heldNow >= capital + (old + pnl)
          /\ r.maker_requotes = 0 => heldNow = capital + (old + pnl)
      BY <1>3, <3>1, <3>2, <3>4, <3>5
    <3>7. QED
      BY <2>3, <3>6 DEF BalancesBackPnl, capital, heldNow, old
  <2>12. QED
    BY <2>5, <2>6, <2>7, <2>8, <2>9, <2>10, <2>11 DEF ExecutorInvariant
<1>7. QED
  BY <1>5, <1>6

\* A taker-taker trade books all that it earns, and earns something.
LEMMA TakerBooks ==
  ASSUME TypeOK, NEW o \in Opportunities
  PROVE  Books(o, risk, QuoteReceived(o) - QuoteSpent(o))
<1>1. QuoteReceived(o) - QuoteSpent(o) \in Int
  BY OpportunityFields
<1>2. ~ DryRun => QuoteReceived(o) - QuoteSpent(o) > 0
  BY TradesPay DEF DryRun, LossesAllowed
<1>3. CountedOn(risk)
  BY RequotedCounts
<1>4. QED
  BY <1>1, <1>2, <1>3 DEF Books

\* A filled maker order books what it earns less the penalty, or nothing.
LEMMA MakerBooks ==
  ASSUME TypeOK, NEW o \in Opportunities, EdgeSurvives(o)
  PROVE  Books(o, Requoted(o), MakerPnl(o))
<1>1. QuoteReceived(o) \in Int /\ QuoteSpent(o) \in Int /\ RequotePenalty(o) \in Nat
  BY OpportunityFields, PenaltyType
<1>2. MakerPnl(o) \in Int /\ MakerPnl(o) <= QuoteReceived(o) - QuoteSpent(o)
  BY <1>1 DEF MakerPnl
<1>3. ~ DryRun => MakerPnl(o) > 0
  BY DEF EdgeSurvives, DryRun, LossesAllowed
<1>4. Requoted(o).maker_requotes = 0 => MakerPnl(o) = QuoteReceived(o) - QuoteSpent(o)
  <2>1. Requoted(o).maker_requotes = risk.maker_requotes + Requotes(o)
    BY RequotedCounts
  <2>2. risk.maker_requotes \in Nat /\ Requotes(o) \in Nat
    BY RequotesType DEF TypeOK, RiskState
  <2>3. Requoted(o).maker_requotes = 0 => RequotePenalty(o) = 0
    BY <2>1, <2>2, PenaltyType
  <2>4. QED
    BY <1>1, <2>3 DEF MakerPnl
<1>5. QED
  BY <1>2, <1>3, <1>4, RequotedCounts DEF Books

----------------------------------------------------------------------------
(* Rebalancing *)

\* Division rounds down.
LEMMA Divide ==
  ASSUME NEW n \in Nat \ {0}, NEW a \in Int
  PROVE  a \div n \in Int /\ n * (a \div n) <= a
  OBVIOUS

\* A transfer moves what is above the average of one exchange and below the
\* average of the other, less a fee.
LEMMA TransferIs ==
  ASSUME TypeOK, NEW s \in Symbols, NEW t \in Transfers(s)
  PROVE  LET n == Cardinality(Exchanges)
             size == TransferSize(s, t[1], t[2])
         IN  /\ t[1] \in Exchanges /\ t[2] \in Exchanges /\ t[1] # t[2]
             /\ n \in Nat \ {0}
             /\ TotalBase(s) \in Int
             /\ size \in Nat \ {0}
             /\ TransferFee(size) \in Nat
             /\ size - TransferFee(size) \in Nat \ {0}
             /\ n * size <= n * base_free[t[1]][s] - TotalBase(s)
             /\ n * size <= TotalBase(s) - n * base_free[t[2]][s]
             /\ RebalanceThreshold * TotalBase(s) > 0
             /\ 100 * (n * base_free[t[1]][s] - TotalBase(s)) >= RebalanceThreshold * TotalBase(s)
<1> DEFINE n == Cardinality(Exchanges)
           size == TransferSize(s, t[1], t[2])
           fee == TransferFee(size)
           over == n * base_free[t[1]][s] - TotalBase(s)
           under == TotalBase(s) - n * base_free[t[2]][s]
<1>1. /\ t[1] \in Exchanges /\ t[2] \in Exchanges
      /\ n >= 2
      /\ size > 0
      /\ size - fee > 0
      /\ RebalanceThreshold * TotalBase(s) > 0
      /\ 100 * over >= RebalanceThreshold * TotalBase(s)
  BY DEF Transfers, Surplus
<1>2. n \in Nat \ {0}
  BY <1>1, CardinalityOfExchanges
<1>3. base_free[t[1]][s] \in Int /\ base_free[t[2]][s] \in Int
  BY <1>1 DEF TypeOK
<1>4. TotalBase(s) \in Int
  <2>1. \A e \in Exchanges : base_by_exchange(s)[e] \in Int
    BY DEF base_by_exchange, TypeOK
  <2>2. QED
    BY <2>1, SumType, ExecutorAssumption DEF TotalBase
<1>5. over \in Int /\ under \in Int /\ -Surplus(s, t[2]) = under /\ Surplus(s, t[1]) = over
  BY <1>2, <1>3, <1>4 DEF Surplus
<1>6. size = (IF over <= under THEN over ELSE under) \div n
  <2>1. size = Min({over, under}) \div n
    BY <1>5 DEF TransferSize
  <2>2. QED
    BY <1>5, <2>1, MinPair
<1> HIDE DEF n, over, under, size
<1>7. size \in Int /\ n * size <= over /\ n * size <= under
  <2> DEFINE m == IF over <= under THEN over ELSE under
  <2>1. m \in Int /\ m <= over /\ m <= under
    BY <1>5
  <2> HIDE DEF m
  <2>2. size = m \div n
    BY <1>6 DEF m
  <2>3. size \in Int /\ n * size <= m
    BY <1>2, <2>1, <2>2, Divide
  <2>4. n * size \in Int
    BY <1>2, <2>3
  <2>5. QED
    BY <1>5, <2>1, <2>3, <2>4
<1>8. fee \in Nat
  <2>1. size * RebalanceFee \in Nat
    BY <1>1, <1>7, ExecutorAssumption
  <2>2. QED
    BY <2>1 DEF TransferFee
<1>9. t[1] # t[2]
  <2>1. n * size > 0
    BY <1>1, <1>2, <1>7
  <2>2. over > 0 /\ under > 0
    BY <1>2, <1>5, <1>7, <2>1
  <2>3. QED
    BY <1>2, <1>3, <1>4, <2>2 DEF over, under
<1>10. QED
  BY <1>1, <1>2, <1>4, <1>7, <1>8, <1>9 DEF n, over, under, size

\* What the transfer leaves in base_free.
LEMMA RebalanceBase ==
  ASSUME TypeOK, NEW s \in Symbols, Rebalance(s)
  PROVE  \E t \in Transfers(s) :
           LET size == TransferSize(s, t[1], t[2])
           IN  /\ base_free' \in [Exchanges -> [Symbols -> Int]]
               /\ base_free'[t[1]][s] = base_free[t[1]][s] - size
               /\ base_free'[t[2]][s] = base_free[t[2]][s] + size - TransferFee(size)
               /\ \A e \in Exchanges, w \in Symbols :
                    w # s \/ e \notin {t[1], t[2]} => base_free'[e][w] = base_free[e][w]
<1>1. PICK t \in Transfers(s) :
        base_free' = [base_free EXCEPT
                        ![t[1]][s] = @ - TransferSize(s, t[1], t[2]),
                        ![t[2]][s] = @ + TransferSize(s, t[1], t[2])
                                       - TransferFee(TransferSize(s, t[1], t[2]))]
  BY DEF Rebalance
<1> DEFINE b == t[1]
           c == t[2]
           size == TransferSize(s, t[1], t[2])
           fee == TransferFee(size)
           mid == [base_free EXCEPT ![b] = [base_free[b] EXCEPT ![s] = @ - size]]
<1>2. b \in Exchanges /\ c \in Exchanges /\ b # c /\ size \in Int /\ fee \in Int
  BY TransferIs
<1>3. base_free \in [Exchanges -> [Symbols -> Int]]
  BY DEF TypeOK
<1>4. base_free' = [base_free EXCEPT ![b][s] = @ - size, ![c][s] = @ + size - fee]
  BY <1>1
<1> HIDE DEF b, c, size, fee
<1>5. [base_free[b] EXCEPT ![s] = @ - size] \in [Symbols -> Int]
  BY <1>2, <1>3
<1>6. /\ mid \in [Exchanges -> [Symbols -> Int]]
      /\ mid[b] = [base_free[b] EXCEPT ![s] = @ - size]
      /\ \A e \in Exchanges \ {b} : mid[e] = base_free[e]
  BY <1>2, <1>3, <1>5
<1>7. base_free' = [mid EXCEPT ![c] = [mid[c] EXCEPT ![s] = @ + size - fee]]
  BY <1>2, <1>3, <1>4
<1> HIDE DEF mid
<1>8. mid[c] = base_free[c] /\ [mid[c] EXCEPT ![s] = @ + size - fee] \in [Symbols -> Int]
  BY <1>2, <1>3, <1>6
<1>9. /\ base_free' \in [Exchanges -> [Symbols -> Int]]
      /\ base_free'[c] = [base_free[c] EXCEPT ![s] = @ + size - fee]
      /\ \A e \in Exchanges \ {c} : base_free'[e] = mid[e]
  BY <1>2, <1>6, <1>7, <1>8
<1>10. /\ base_free'[b][s] = base_free[b][s] - size
       /\ base_free'[c][s] = base_free[c][s] + size - fee
       /\ \A e \in Exchanges, w \in Symbols :
            w # s \/ e \notin {b, c} => base_free'[e][w] = base_free[e][w]
  BY <1>2, <1>3, <1>6, <1>9
<1>11. QED
  BY <1>1, <1>9, <1>10 DEF b, c, size, fee

\* A rebalancing preserves the invariant; none happens in a dry run.
LEMMA RebalanceInvariant ==
  ASSUME ExecutorInvariant, NEW s \in Symbols, Rebalance(s)
  PROVE  ExecutorInvariant'
<1>1. /\ TypeOK /\ PnlNeverNegative /\ BlockedExactlyAtLimit /\ OverdraftIsOneFee
      /\ BaseNeverNegative /\ DryRunKeepsBalances /\ BalancesBackPnl
  BY DEF ExecutorInvariant
<1>2. UNCHANGED <<quote_free, risk, trade_cooldown>>
  BY DEF Rebalance
<1>3. PICK t \in Transfers(s) :
        LET size == TransferSize(s, t[1], t[2])
        IN  /\ base_free' \in [Exchanges -> [Symbols -> Int]]
            /\ base_free'[t[1]][s] = base_free[t[1]][s] - size
            /\ base_free'[t[2]][s] = base_free[t[2]][s] + size - TransferFee(size)
            /\ \A e \in Exchanges, w \in Symbols :
                 w # s \/ e \notin {t[1], t[2]} => base_free'[e][w] = base_free[e][w]
  BY <1>1, RebalanceBase
<1> DEFINE n == Cardinality(Exchanges)
           size == TransferSize(s, t[1], t[2])
           net == size - TransferFee(size)
<1>4. /\ t[1] \in Exchanges /\ t[2] \in Exchanges
      /\ n \in Nat \ {0}
      /\ TotalBase(s) \in Int
      /\ size \in Nat \ {0}
      /\ TransferFee(size) \in Nat
      /\ net \in Nat \ {0}
      /\ n * size <= n * base_free[t[1]][s] - TotalBase(s)
      /\ RebalanceThreshold * TotalBase(s) > 0
      /\ 100 * (n * base_free[t[1]][s] - TotalBase(s)) >= RebalanceThreshold * TotalBase(s)
  BY <1>1, TransferIs
<1>5. rebalance_wait' \in [Symbols -> Nat]
  BY <1>1, ExecutorAssumption DEF Rebalance, TypeOK
<1>6. TypeOK'
  BY <1>1, <1>2, <1>3, <1>5 DEF TypeOK
<1>7. PnlNeverNegative' /\ BlockedExactlyAtLimit' /\ OverdraftIsOneFee' /\ BalancesBackPnl'
  BY <1>1, <1>2 DEF PnlNeverNegative, BlockedExactlyAtLimit, OverdraftIsOneFee, BalancesBackPnl
<1>8. BaseNeverNegative'
  <2>1. base_free[t[1]][s] \in Int /\ base_free[t[2]][s] \in Int
    BY <1>1, <1>4 DEF TypeOK
  <2>2. size <= base_free[t[1]][s]
    <3>1. TotalBase(s) >= 0
      <4>1. \A e \in Exchanges : base_by_exchange(s)[e] \in Nat
        BY <1>1 DEF base_by_exchange, TypeOK, BaseNeverNegative
      <4>2. TotalBase(s) \in Nat
        BY <4>1, SumNat, ExecutorAssumption DEF TotalBase
      <4>3. QED
        BY <4>2
    <3> DEFINE held == base_free[t[1]][s]
    <3>2. held \in Int
      BY <2>1
    <3> HIDE DEF held, n, size
    <3>3. n * size <= n * held
      BY <1>4, <3>1, <3>2 DEF held
    <3>4. CASE size > held
      <4>1. size - held \in Nat \ {0}
        BY <1>4, <3>2, <3>4
      <4>2. n * (size - held) > 0
        BY <1>4, <4>1
      <4>3. n * (size - held) = n * size - n * held
        BY <1>4, <3>2
      <4>4. QED
        BY <1>4, <3>2, <3>3, <4>2, <4>3
    <3>5. QED
      BY <1>4, <3>2, <3>4 DEF held
  <2>3. base_free'[t[1]][s] >= 0 /\ base_free'[t[2]][s] >= 0
    BY <1>1, <1>3, <1>4, <2>1, <2>2 DEF BaseNeverNegative
  <2>4. QED
    BY <1>1, <1>3, <2>3 DEF BaseNeverNegative
<1>9. DryRunKeepsBalances'
  <2> SUFFICES ASSUME Mode = "dry-run" PROVE FALSE
    BY DEF DryRunKeepsBalances
  <2>1. InitialBase \in Int
    BY ExecutorAssumption DEF InitialBase
  <2>2. \A e \in Exchanges : base_free[e][s] = InitialBase
    BY <1>1 DEF DryRunKeepsBalances
  <2>3. \A e \in Exchanges : base_by_exchange(s)[e] = InitialBase
    BY <2>2 DEF base_by_exchange
  <2>4. TotalBase(s) = InitialBase * n
    BY <2>1, <2>3, SumConstant, ExecutorAssumption DEF TotalBase
  <2>5. n * base_free[t[1]][s] - TotalBase(s) = 0
    <3> HIDE DEF n
    <3>1. QED
      BY <1>4, <2>1, <2>2, <2>4
  <2>6. QED
    BY <1>4, <2>5
<1>10. QED
  BY <1>6, <1>7, <1>8, <1>9 DEF ExecutorInvariant

----------------------------------------------------------------------------
(* Every step *)

\* The clock preserves the invariant.
LEMMA ElapseInvariant ==
  ASSUME ExecutorInvariant, Elapse
  PROVE  ExecutorInvariant'
<1>1. UNCHANGED <<quote_free, base_free, risk>>
  BY DEF Elapse
<1>2. trade_cooldown' \in [Routes -> Nat] /\ rebalance_wait' \in [Symbols -> Nat]
  <2>1. \A k \in Nat : TickDown(k) \in Nat
    BY DEF TickDown
  <2>2. QED
    BY <2>1 DEF Elapse, ExecutorInvariant, TypeOK
<1>3. TypeOK'
  BY <1>1, <1>2 DEF ExecutorInvariant, TypeOK
<1>4. QED
  BY <1>1, <1>3 DEF ExecutorInvariant, PnlNeverNegative, BlockedExactlyAtLimit,
     OverdraftIsOneFee, BaseNeverNegative, DryRunKeepsBalances, BalancesBackPnl

\* Every call of execute() preserves the invariant.
LEMMA ExecuteInvariant ==
  ASSUME ExecutorInvariant, NEW o \in Opportunities, Execute(o)
  PROVE  ExecutorInvariant'
<1>1. TypeOK
  BY DEF ExecutorInvariant
<1>2. CASE Reject(o)
  BY <1>1, <1>2, RequotedCounts, FailInvariant DEF Reject
<1>3. CASE TakerTaker(o)
  <2>1. Books(o, risk, QuoteReceived(o) - QuoteSpent(o))
    BY <1>1, TakerBooks
  <2>2. QED
    BY <1>3, <2>1, FinalizeInvariant DEF TakerTaker
<1>4. CASE MakerTimeout(o)
  BY <1>1, <1>4, RequotedCounts, FailInvariant DEF MakerTimeout
<1>5. CASE MakerEroded(o)
  BY <1>1, <1>5, RequotedCounts, FailInvariant DEF MakerEroded
<1>6. CASE MakerFilled(o)
  <2>1. Books(o, Requoted(o), MakerPnl(o))
    BY <1>1, <1>6, MakerBooks DEF MakerFilled
  <2>2. QED
    BY <1>6, <2>1, FinalizeInvariant DEF MakerFilled
<1>7. QED
  BY <1>2, <1>3, <1>4, <1>5, <1>6 DEF Execute

\* The invariant is inductive.
LEMMA StepInvariant == ExecutorInvariant /\ [Next]_vars => ExecutorInvariant'
<1> SUFFICES ASSUME ExecutorInvariant, [Next]_vars PROVE ExecutorInvariant'
  OBVIOUS
<1>1. CASE \E o \in Opportunities : Execute(o)
  BY <1>1, ExecuteInvariant
<1>2. CASE \E s \in Symbols : Rebalance(s)
  BY <1>2, RebalanceInvariant
<1>3. CASE Elapse
  BY <1>3, ElapseInvariant
<1>4. CASE UNCHANGED vars
  BY <1>4 DEF vars, ExecutorInvariant, TypeOK, PnlNeverNegative, BlockedExactlyAtLimit,
     OverdraftIsOneFee, BaseNeverNegative, DryRunKeepsBalances, BalancesBackPnl
<1>5. QED
  BY <1>1, <1>2, <1>3, <1>4 DEF Next

\* The conjunction of the executor's invariants is one: they hold in every
\* reachable state (executor.py:51-389).
THEOREM InvariantHolds == Spec => []ExecutorInvariant
  BY InitInvariant, StepInvariant, PTL DEF Spec

\* Types of the executor's state.
THEOREM TypeCorrect == Spec => []TypeOK
<1>1. ExecutorInvariant => TypeOK
  BY DEF ExecutorInvariant
<1>2. QED
  BY <1>1, InvariantHolds, PTL

\* executor.py:83-84 and 249: no balance is ever overdrawn by more than the
\* fee of one trade, for any number of exchanges, trades and rebalancings.
THEOREM OverdraftBounded == Spec => []OverdraftIsOneFee
<1>1. ExecutorInvariant => OverdraftIsOneFee
  BY DEF ExecutorInvariant
<1>2. QED
  BY <1>1, InvariantHolds, PTL

\* executor.py:87 and 365-381: inventory that is not there is never sold and
\* never transferred.
THEOREM InventoryCovered == Spec => []BaseNeverNegative
<1>1. ExecutorInvariant => BaseNeverNegative
  BY DEF ExecutorInvariant
<1>2. QED
  BY <1>1, InvariantHolds, PTL

\* executor.py:175-176 and 249-255: the balances hold what the PnL claims.
THEOREM LedgerBacked == Spec => []BalancesBackPnl
<1>1. ExecutorInvariant => BalancesBackPnl
  BY DEF ExecutorInvariant
<1>2. QED
  BY <1>1, InvariantHolds, PTL

\* executor.py:319-321 and 283-293: only the failure streak ever blocks.
THEOREM OnlyStreakBlocks == Spec => []BlockedExactlyAtLimit
<1>1. ExecutorInvariant => BlockedExactlyAtLimit
  BY DEF ExecutorInvariant
<1>2. QED
  BY <1>1, InvariantHolds, PTL

\* executor.py:177-189 and 228-259: no sequence of trades books a loss.
THEOREM NeverBooksLoss == Spec => []PnlNeverNegative
<1>1. ExecutorInvariant => PnlNeverNegative
  BY DEF ExecutorInvariant
<1>2. QED
  BY <1>1, InvariantHolds, PTL

\* executor.py:228-247 and 337-382: a dry run keeps every balance as it was.
THEOREM DryRunIsDry == Spec => []DryRunKeepsBalances
<1>1. ExecutorInvariant => DryRunKeepsBalances
  BY DEF ExecutorInvariant
<1>2. QED
  BY <1>1, InvariantHolds, PTL

----------------------------------------------------------------------------
(* The executor implements the trading account *)

FailuresLeft == Max({0, MaxConsecutiveFailures - risk.consecutive_failures})

\* The failures left, by cases.
LEMMA FailuresLeftIs ==
  ASSUME TypeOK
  PROVE  FailuresLeft = IF risk.consecutive_failures >= MaxConsecutiveFailures THEN 0
                        ELSE MaxConsecutiveFailures - risk.consecutive_failures
<1>1. risk.consecutive_failures \in Nat /\ MaxConsecutiveFailures \in Nat
  BY ExecutorAssumption DEF TypeOK, RiskState
<1>2. QED
  BY <1>1, MaxPair DEF FailuresLeft

\* A new executor is a new account.
LEMMA AccountInit == Init => Account!Init
<1> SUFFICES ASSUME Init PROVE Account!Init
  OBVIOUS
<1>1. SumFunctionOnSet(quote_free, Exchanges) = CapitalPerExchange * Cardinality(Exchanges)
  BY SumConstant, ExecutorAssumption DEF Init
<1>2. TypeOK
  BY InitInvariant DEF ExecutorInvariant
<1>3. risk.realized_pnl_usdt = 0 /\ risk.consecutive_failures = 0
  BY DEF Init
<1>4. FailuresLeft = MaxConsecutiveFailures
  BY <1>2, <1>3, FailuresLeftIs, ExecutorAssumption
<1>5. QED
  BY <1>1, <1>3, <1>4 DEF Account!Init, FailuresLeft

\* A failed attempt is a failure of the account, or no step of a closed one.
LEMMA FailIsAccountFailure ==
  ASSUME ExecutorInvariant, NEW r, CountedOn(r), NEW reason, Fail(r, reason)
  PROVE  [Account!Next]_(Account!account)
<1>1. TypeOK /\ TypeOK'
  BY FailInvariant DEF ExecutorInvariant
<1>2. risk' = RegisterFailure(r) /\ quote_free' = quote_free
  BY DEF Fail
<1>3. /\ risk'.realized_pnl_usdt = risk.realized_pnl_usdt
      /\ risk'.consecutive_failures = risk.consecutive_failures + 1
  BY <1>1, <1>2, RegisterFailureIs
<1>4. FailuresLeft' = IF risk'.consecutive_failures >= MaxConsecutiveFailures THEN 0
                      ELSE MaxConsecutiveFailures - risk'.consecutive_failures
  <2>1. risk'.consecutive_failures \in Nat /\ MaxConsecutiveFailures \in Nat
    BY <1>1, ExecutorAssumption DEF TypeOK, RiskState
  <2>2. QED
    BY <2>1, MaxPair DEF FailuresLeft
<1>5. \/ FailuresLeft' = FailuresLeft
      \/ FailuresLeft > 0 /\ FailuresLeft' = FailuresLeft - 1
  <2>1. risk.consecutive_failures \in Nat /\ MaxConsecutiveFailures \in Nat
    BY <1>1, ExecutorAssumption DEF TypeOK, RiskState
  <2>2. QED
    BY <1>1, <1>3, <1>4, <2>1, FailuresLeftIs
<1>6. QED
  BY <1>2, <1>3, <1>5
     DEF Account!Next, Account!Failure, Account!Open, Account!account, FailuresLeft

\* A completed trade is a trade of the account, rehearsed in a dry run.
LEMMA FinalizeIsAccountTrade ==
  ASSUME ExecutorInvariant, NEW o \in Opportunities, EarlyReturn(o) = "none",
         NEW r, NEW pnl, NEW payload, Books(o, r, pnl), Finalize(o, r, pnl, payload)
  PROVE  Account!Next
<1>1. /\ TypeOK /\ PnlNeverNegative /\ BlockedExactlyAtLimit
      /\ CountedOn(r) /\ pnl \in Int
  BY DEF ExecutorInvariant, Books
<1>2. ~ risk.blocked
  BY <1>1, GoesOn
<1>3. FailuresLeft > 0
  <2>1. ~ (risk.consecutive_failures >= MaxConsecutiveFailures)
    BY <1>1, <1>2 DEF BlockedExactlyAtLimit
  <2>2. risk.consecutive_failures \in Nat /\ MaxConsecutiveFailures \in Nat
    BY <1>1, ExecutorAssumption DEF TypeOK, RiskState
  <2>3. QED
    BY <1>1, <2>1, <2>2, FailuresLeftIs
<1>4. ASSUME risk'.consecutive_failures = 0
      PROVE  FailuresLeft' = MaxConsecutiveFailures
  BY <1>4, MaxPair, ExecutorAssumption DEF FailuresLeft
<1>5. CASE DryRun
  <2>1. risk' = Executed(r) /\ quote_free' = quote_free
    BY <1>5 DEF Finalize, balances
  <2>2. risk' = Executed([r EXCEPT !.realized_pnl_usdt = @ + 0])
    BY <1>1, <2>1 DEF CountedOn, RiskState
  <2>3. /\ risk'.realized_pnl_usdt = risk.realized_pnl_usdt + 0
        /\ risk'.consecutive_failures = 0
    BY <1>1, <1>2, <2>2, ExecutedIs
  <2>4. risk'.realized_pnl_usdt = risk.realized_pnl_usdt
    BY <1>1, <2>3 DEF TypeOK, RiskState
  <2>5. FailuresLeft' = MaxConsecutiveFailures
    BY <1>4, <2>3
  <2>6. Mode # "paper"
    BY <1>5 DEF DryRun
  <2>7. QED
    BY <1>3, <2>1, <2>4, <2>5, <2>6
       DEF Account!Next, Account!Rehearse, Account!Open, FailuresLeft
<1>6. CASE ~ DryRun
  <2>1. /\ Settle(o)
        /\ risk' = EvaluateDrawdownGuard(Executed([r EXCEPT !.realized_pnl_usdt = @ + pnl]))
    BY <1>6 DEF Finalize
  <2>2. pnl \in Nat /\ pnl > 0 /\ pnl <= QuoteReceived(o) - QuoteSpent(o)
    BY <1>6 DEF Books
  <2>3. /\ risk'.realized_pnl_usdt = risk.realized_pnl_usdt + pnl
        /\ risk'.consecutive_failures = 0
    BY <1>1, <1>2, <2>1, <2>2, ExecutedIs
  <2>4. FailuresLeft' = MaxConsecutiveFailures
    BY <1>4, <2>3
  <2>5. Mode = "paper"
    BY <1>6, ExecutorAssumption DEF DryRun
  <2>6. /\ risk'.realized_pnl_usdt > risk.realized_pnl_usdt
        /\ risk'.realized_pnl_usdt - risk.realized_pnl_usdt = pnl
    BY <1>1, <2>2, <2>3 DEF TypeOK, RiskState
  <2>7. SumFunctionOnSet(quote_free', Exchanges) - SumFunctionOnSet(quote_free, Exchanges)
          >= pnl
    <3>1. SumFunctionOnSet(quote_free', Exchanges)
            = SumFunctionOnSet(quote_free, Exchanges) + QuoteReceived(o) - QuoteSpent(o)
      BY <1>1, <2>1, SettleIs
    <3>2. SumFunctionOnSet(quote_free, Exchanges) \in Int
      BY <1>1, SumType, ExecutorAssumption DEF TypeOK
    <3>3. QED
      BY <2>2, <3>1, <3>2, OpportunityFields
  <2>8. QED
    BY <1>3, <2>4, <2>5, <2>6, <2>7
       DEF Account!Next, Account!Trade, Account!Open, FailuresLeft
<1>7. QED
  BY <1>5, <1>6

\* Every step of the executor is a step of the account or a stutter.
LEMMA AccountStep == ExecutorInvariant /\ [Next]_vars => [Account!Next]_(Account!account)
<1> SUFFICES ASSUME ExecutorInvariant, [Next]_vars
             PROVE  [Account!Next]_(Account!account)
  OBVIOUS
<1>1. TypeOK
  BY DEF ExecutorInvariant
<1>2. ASSUME NEW o \in Opportunities, Execute(o)
      PROVE  [Account!Next]_(Account!account)
  <2>1. CASE Reject(o)
    BY <1>1, <2>1, RequotedCounts, FailIsAccountFailure DEF Reject
  <2>2. CASE TakerTaker(o)
    BY <1>1, <2>2, TakerBooks, FinalizeIsAccountTrade DEF TakerTaker
  <2>3. CASE MakerTimeout(o)
    BY <1>1, <2>3, RequotedCounts, FailIsAccountFailure DEF MakerTimeout
  <2>4. CASE MakerEroded(o)
    BY <1>1, <2>4, RequotedCounts, FailIsAccountFailure DEF MakerEroded
  <2>5. CASE MakerFilled(o)
    BY <1>1, <2>5, MakerBooks, FinalizeIsAccountTrade DEF MakerFilled
  <2>6. QED
    BY <1>2, <2>1, <2>2, <2>3, <2>4, <2>5 DEF Execute
<1>3. ASSUME UNCHANGED <<quote_free, risk>>
      PROVE  UNCHANGED Account!account
  BY <1>3 DEF Account!account
<1>4. CASE \E s \in Symbols : Rebalance(s)
  BY <1>3, <1>4 DEF Rebalance
<1>5. CASE Elapse
  BY <1>3, <1>5 DEF Elapse
<1>6. CASE UNCHANGED vars
  BY <1>3, <1>6 DEF vars
<1>7. QED
  BY <1>2, <1>4, <1>5, <1>6 DEF Next

\* executor.py as a whole: every trade leaves the account richer by at least
\* what it books, and the account closes after as many failures in a row as
\* the configuration allows, for good.
THEOREM ExecutorImplementsAccount == Spec => ImplementsAccount
<1>1. Init => Account!Init
  BY AccountInit
<1>2. ExecutorInvariant /\ [Next]_vars => [Account!Next]_(Account!account)
  BY AccountStep
<1>3. QED
  BY <1>1, <1>2, InvariantHolds, PTL DEF Spec, ImplementsAccount, Account!Spec
----------------------------------------------------------------------------
(* Every call of execute() counts as a trade or as a failure *)

\* A failure on a risk state that may have been requoted is counted.
LEMMA FailureCounts ==
  ASSUME TypeOK, NEW r \in RiskState, NEW reason, Fail(r, reason)
  PROVE  /\ risk'.trades_failed = r.trades_failed + 1
         /\ risk'.trades_executed = r.trades_executed
BY DEF Fail, RegisterFailure, RiskState

\* A completed trade is counted, in either mode.
LEMMA TradeCounts ==
  ASSUME NEW o, NEW r \in RiskState, NEW pnl \in Int, NEW payload,
         Finalize(o, r, pnl, payload)
  PROVE  risk'.trades_executed = r.trades_executed + 1
<1>. DEFINE booked == [r EXCEPT !.realized_pnl_usdt = @ + pnl]
<1>1. booked \in RiskState /\ booked.trades_executed = r.trades_executed
  BY DEF RiskState
<1>2. \A q \in RiskState :
        /\ Executed(q).trades_executed = q.trades_executed + 1
        /\ EvaluateDrawdownGuard(Executed(q)).trades_executed = q.trades_executed + 1
  BY DEF Executed, EvaluateDrawdownGuard, RiskState
<1>3. risk' = Executed(r) \/ risk' = EvaluateDrawdownGuard(Executed(booked))
  BY DEF Finalize
<1>. HIDE DEF booked
<1>. QED BY <1>1, <1>2, <1>3

\* The requotes counted leave the counts of trades and failures alone.
LEMMA RequotedKeepsCounts ==
  ASSUME TypeOK, NEW o \in Opportunities
  PROVE  /\ Requoted(o) \in RiskState
         /\ Requoted(o).trades_executed = risk.trades_executed
         /\ Requoted(o).trades_failed = risk.trades_failed
         /\ [Requoted(o) EXCEPT !.maker_timeouts = @ + 1] \in RiskState
         /\ [Requoted(o) EXCEPT !.maker_timeouts = @ + 1].trades_executed
              = risk.trades_executed
         /\ [Requoted(o) EXCEPT !.maker_timeouts = @ + 1].trades_failed
              = risk.trades_failed
<1>1. CountedOn(Requoted(o)) /\ CountedOn([Requoted(o) EXCEPT !.maker_timeouts = @ + 1])
  BY RequotedCounts
<1>2. /\ Requoted(o) \in RiskState
      /\ [Requoted(o) EXCEPT !.maker_timeouts = @ + 1] \in RiskState
  BY <1>1 DEF CountedOn
<1>3. /\ Requoted(o).trades_executed = risk.trades_executed
      /\ Requoted(o).trades_failed = risk.trades_failed
  BY DEF Requoted, TypeOK, RiskState
<1>4. /\ [Requoted(o) EXCEPT !.maker_timeouts = @ + 1].trades_executed
           = Requoted(o).trades_executed
      /\ [Requoted(o) EXCEPT !.maker_timeouts = @ + 1].trades_failed
           = Requoted(o).trades_failed
  BY <1>2 DEF RiskState
<1>. QED BY <1>2, <1>3, <1>4

\* No call of execute() leaves the risk state as it was.
LEMMA ExecuteCounts ==
  ASSUME TypeOK, NEW o \in Opportunities, Execute(o)
  PROVE  risk' # risk
<1>1. risk \in RiskState /\ risk.trades_executed \in Nat /\ risk.trades_failed \in Nat
  BY DEF TypeOK, RiskState
<1>2. /\ QuoteReceived(o) - QuoteSpent(o) \in Int
      /\ MakerPnl(o) \in Int
  BY OpportunityFields, PenaltyType DEF MakerPnl
<1>3. CASE Reject(o)
  BY <1>1, <1>3, FailureCounts DEF Reject
<1>4. CASE TakerTaker(o)
  <2>1. risk'.trades_executed = risk.trades_executed + 1
    BY <1>1, <1>2, <1>4, TradeCounts DEF TakerTaker
  <2>. QED BY <1>1, <2>1
<1>5. CASE MakerTimeout(o)
  <2>1. risk'.trades_failed = risk.trades_failed + 1
    BY <1>5, RequotedKeepsCounts, FailureCounts DEF MakerTimeout
  <2>. QED BY <1>1, <2>1
<1>6. CASE MakerEroded(o)
  <2>1. risk'.trades_failed = risk.trades_failed + 1
    BY <1>6, RequotedKeepsCounts, FailureCounts DEF MakerEroded
  <2>. QED BY <1>1, <2>1
<1>7. CASE MakerFilled(o)
  <2>1. risk'.trades_executed = risk.trades_executed + 1
    BY <1>2, <1>7, RequotedKeepsCounts, TradeCounts DEF MakerFilled
  <2>. QED BY <1>1, <2>1
<1>. QED BY <1>3, <1>4, <1>5, <1>6, <1>7 DEF Execute

----------------------------------------------------------------------------
(* Money stands still behind a tripped breaker *)

Frozen ==
  /\ UNCHANGED <<quote_free, last_order_payload>>
  /\ risk'.trades_executed = risk.trades_executed
  /\ base_free' = base_free \/ risk' = risk

\* A blocked executor rejects whatever it is given.
LEMMA BlockedRejects ==
  ASSUME TypeOK, risk.blocked, NEW o \in Opportunities, Execute(o)
  PROVE  Reject(o)
<1>1. EarlyReturn(o) # "none"
  BY GoesOn
<1>. QED BY <1>1 DEF Execute, TakerTaker, MakerTimeout, MakerEroded, MakerFilled

\* executor.py:52-61: once blocked, no quote moves and no order goes out.
THEOREM BlockedMoneyIsFrozen == Spec => BlockedFreezesMoney
<1>1. ExecutorInvariant /\ [Next]_vars => [risk.blocked => Frozen]_vars
  <2>. SUFFICES ASSUME TypeOK, Next, risk.blocked PROVE Frozen
    BY DEF ExecutorInvariant
  <2>1. ASSUME NEW o \in Opportunities, Execute(o) PROVE Frozen
    <3>1. Reject(o)
      BY <2>1, BlockedRejects
    <3>2. risk \in RiskState
      BY DEF TypeOK
    <3>. QED BY <3>1, <3>2, FailureCounts DEF Reject, Fail, Frozen
  <2>2. ASSUME NEW s \in Symbols, Rebalance(s) PROVE Frozen
    BY <2>2 DEF Rebalance, Frozen
  <2>3. CASE Elapse
    BY <2>3 DEF Elapse, Frozen
  <2>. QED BY <2>1, <2>2, <2>3 DEF Next
<1>. QED BY <1>1, InvariantHolds, PTL DEF Spec, BlockedFreezesMoney, Frozen

----------------------------------------------------------------------------
(* Inventory *)

\* A trade moves inventory and leaves the total as it was.
LEMMA SettleKeepsTotal ==
  ASSUME TypeOK, NEW o \in Opportunities, Settle(o), NEW s \in Symbols
  PROVE  TotalBase(s)' = TotalBase(s)
<1>. DEFINE f == base_by_exchange(s)
            h == [e \in Exchanges |-> base_free'[e][s]]
            b == o.buy_exchange
            c == o.sell_exchange
            q == o.quantity
            mid == [f EXCEPT ![b] = @ + q]
<1>1. /\ b \in Exchanges /\ c \in Exchanges /\ b # c /\ q \in Int
      /\ o.symbol \in Symbols
  BY OpportunityFields
<1>2. f \in [Exchanges -> Int]
  BY DEF base_by_exchange, TypeOK
<1>3. /\ TotalBase(s) = SumFunctionOnSet(f, Exchanges)
      /\ TotalBase(s)' = SumFunctionOnSet(h, Exchanges)
  BY DEF TotalBase, base_by_exchange
<1>4. \A e \in Exchanges : f[e] = base_free[e][s] /\ h[e] = base_free'[e][s]
  BY DEF base_by_exchange
<1>. HIDE DEF f, h
<1>5. CASE s # o.symbol
  <2>1. \A e \in Exchanges : h[e] = f[e]
    BY <1>4, <1>5, SettleBase
  <2>2. h[b] = f[b] + 0
    BY <1>1, <1>2, <2>1
  <2>3. SumFunctionOnSet(h, Exchanges) = SumFunctionOnSet(f, Exchanges) + 0
    BY <1>1, <1>2, <2>1, <2>2, SumShift, ExecutorAssumption
  <2>4. SumFunctionOnSet(f, Exchanges) \in Int
    BY <1>2, SumType, ExecutorAssumption
  <2>. QED BY <1>3, <2>3, <2>4
<1>6. CASE s = o.symbol
  <2>1. mid \in [Exchanges -> Int] /\ mid[b] = f[b] + q /\ \A e \in Exchanges \ {b} : mid[e] = f[e]
    BY <1>1, <1>2
  <2>. HIDE DEF mid
  <2>2. SumFunctionOnSet(mid, Exchanges) = SumFunctionOnSet(f, Exchanges) + q
    BY <1>1, <1>2, <2>1, SumShift, ExecutorAssumption
  <2>3. /\ h[b] = f[b] + q
        /\ h[c] = f[c] - q
        /\ \A e \in Exchanges \ {b, c} : h[e] = f[e]
    BY <1>1, <1>4, <1>6, SettleBase
  <2>4. h[c] = mid[c] + (-q) /\ \A e \in Exchanges \ {c} : h[e] = mid[e]
    BY <1>1, <1>2, <2>1, <2>3
  <2>5. SumFunctionOnSet(h, Exchanges) = SumFunctionOnSet(mid, Exchanges) + (-q)
    <3>. DEFINE d == -q
    <3>1. d \in Int /\ h[c] = mid[c] + d
      BY <1>1, <2>4
    <3>2. \A e \in Exchanges : mid[e] \in Int
      BY <2>1
    <3>. HIDE DEF d
    <3>3. SumFunctionOnSet(h, Exchanges) = SumFunctionOnSet(mid, Exchanges) + d
      BY <1>1, <2>4, <3>1, <3>2, SumShift, ExecutorAssumption
    <3>. QED BY <3>3 DEF d
  <2>6. SumFunctionOnSet(f, Exchanges) \in Int
    BY <1>2, SumType, ExecutorAssumption
  <2>. QED BY <1>1, <1>3, <2>2, <2>5, <2>6
<1>. QED BY <1>5, <1>6

\* A rebalancing loses its fee of one symbol, and nothing of another.
LEMMA RebalanceTotal ==
  ASSUME TypeOK, NEW w \in Symbols, Rebalance(w), NEW s \in Symbols
  PROVE  TotalBase(s)' <= TotalBase(s)
<1>. DEFINE f == base_by_exchange(s)
            h == [e \in Exchanges |-> base_free'[e][s]]
<1>1. f \in [Exchanges -> Int]
  BY DEF base_by_exchange, TypeOK
<1>2. /\ TotalBase(s) = SumFunctionOnSet(f, Exchanges)
      /\ TotalBase(s)' = SumFunctionOnSet(h, Exchanges)
  BY DEF TotalBase, base_by_exchange
<1>3. \A e \in Exchanges : f[e] = base_free[e][s] /\ h[e] = base_free'[e][s]
  BY DEF base_by_exchange
<1>4. SumFunctionOnSet(f, Exchanges) \in Int
  BY <1>1, SumType, ExecutorAssumption
<1>. HIDE DEF f, h
<1>5. PICK t \in Transfers(w) :
        LET size == TransferSize(w, t[1], t[2])
        IN  /\ base_free'[t[1]][w] = base_free[t[1]][w] - size
            /\ base_free'[t[2]][w] = base_free[t[2]][w] + size - TransferFee(size)
            /\ \A e \in Exchanges, v \in Symbols :
                 v # w \/ e \notin {t[1], t[2]} => base_free'[e][v] = base_free[e][v]
  BY RebalanceBase
<1>. DEFINE b == t[1]
            c == t[2]
            size == TransferSize(w, t[1], t[2])
            fee == TransferFee(size)
            mid == [f EXCEPT ![b] = @ + (-size)]
<1>6. /\ b \in Exchanges /\ c \in Exchanges /\ b # c
      /\ size \in Nat /\ fee \in Nat
  BY TransferIs
<1>7. /\ base_free'[b][w] = base_free[b][w] - size
      /\ base_free'[c][w] = base_free[c][w] + size - fee
      /\ \A e \in Exchanges, v \in Symbols :
           v # w \/ e \notin {b, c} => base_free'[e][v] = base_free[e][v]
  BY <1>5
<1>. HIDE DEF b, c, size, fee
<1>8. CASE s # w
  <2>1. \A e \in Exchanges : h[e] = f[e]
    BY <1>3, <1>7, <1>8
  <2>2. h[b] = f[b] + 0
    BY <1>1, <1>6, <2>1
  <2>3. SumFunctionOnSet(h, Exchanges) = SumFunctionOnSet(f, Exchanges) + 0
    BY <1>1, <1>6, <2>1, <2>2, SumShift, ExecutorAssumption
  <2>. QED BY <1>2, <1>4, <2>3
<1>9. CASE s = w
  <2>1. /\ mid \in [Exchanges -> Int] /\ mid[b] = f[b] + (-size)
        /\ \A e \in Exchanges \ {b} : mid[e] = f[e]
    BY <1>1, <1>6
  <2>. HIDE DEF mid
  <2>2. SumFunctionOnSet(mid, Exchanges) = SumFunctionOnSet(f, Exchanges) + (-size)
    BY <1>1, <1>6, <2>1, SumShift, ExecutorAssumption
  <2>3. /\ h[b] = f[b] - size
        /\ h[c] = f[c] + size - fee
        /\ \A e \in Exchanges \ {b, c} : h[e] = f[e]
    BY <1>3, <1>6, <1>7, <1>9
  <2>4. h[c] = mid[c] + (size - fee) /\ \A e \in Exchanges \ {c} : h[e] = mid[e]
    BY <1>1, <1>6, <2>1, <2>3
  <2>5. SumFunctionOnSet(h, Exchanges) = SumFunctionOnSet(mid, Exchanges) + (size - fee)
    <3>. DEFINE d == size - fee
    <3>1. d \in Int /\ h[c] = mid[c] + d
      BY <1>6, <2>4
    <3>2. \A e \in Exchanges : mid[e] \in Int
      BY <2>1
    <3>. HIDE DEF d
    <3>3. SumFunctionOnSet(h, Exchanges) = SumFunctionOnSet(mid, Exchanges) + d
      BY <1>6, <2>4, <3>1, <3>2, SumShift, ExecutorAssumption
    <3>. QED BY <3>3 DEF d
  <2>. QED BY <1>2, <1>4, <1>6, <2>2, <2>5
<1>. QED BY <1>8, <1>9

\* Without a change of balances the totals stand.
LEMMA NoChangeOfTotal ==
  ASSUME UNCHANGED base_free, NEW s \in Symbols
  PROVE  TotalBase(s)' = TotalBase(s)
BY DEF TotalBase, base_by_exchange

\* A total is a number.
LEMMA TotalType ==
  ASSUME TypeOK, NEW s \in Symbols
  PROVE  TotalBase(s) \in Int
<1>1. \A e \in Exchanges : base_by_exchange(s)[e] \in Int
  BY DEF base_by_exchange, TypeOK
<1>. QED BY <1>1, SumType, ExecutorAssumption DEF TotalBase

\* executor.py:249-252 and 368-380: trades neither create nor lose inventory,
\* a rebalancing only loses some.
THEOREM InventoryIsNotCreated == Spec => InventoryNeverCreated
<1>. DEFINE Conserved ==
       \A s \in Symbols : /\ TotalBase(s)' <= TotalBase(s)
                          /\ TotalBase(s)' # TotalBase(s) => risk' = risk
<1>1. ExecutorInvariant /\ [Next]_vars => [Conserved]_vars
  <2>. SUFFICES ASSUME TypeOK, Next, NEW s \in Symbols
                PROVE  /\ TotalBase(s)' <= TotalBase(s)
                       /\ TotalBase(s)' # TotalBase(s) => risk' = risk
    BY DEF ExecutorInvariant
  <2>1. TotalBase(s) \in Int
    BY TotalType
  <2>2. ASSUME NEW o \in Opportunities, Execute(o)
        PROVE  TotalBase(s)' = TotalBase(s)
    <3>1. CASE UNCHANGED base_free
      BY <3>1, NoChangeOfTotal
    <3>2. CASE Settle(o)
      BY <3>2, SettleKeepsTotal
    <3>. QED
      BY <2>2, <3>1, <3>2 DEF Execute, Reject, TakerTaker, MakerTimeout, MakerEroded,
         MakerFilled, Fail, Finalize, balances
  <2>3. ASSUME NEW w \in Symbols, Rebalance(w)
        PROVE  TotalBase(s)' <= TotalBase(s) /\ risk' = risk
    BY <2>3, RebalanceTotal DEF Rebalance
  <2>4. CASE Elapse
    BY <2>1, <2>4, NoChangeOfTotal DEF Elapse
  <2>. QED BY <2>1, <2>2, <2>3, <2>4 DEF Next
<1>. QED BY <1>1, InvariantHolds, PTL DEF Spec, InventoryNeverCreated

\* executor.py:365-368: a transfer stops at the average from both sides.
THEOREM RebalanceStopsAtAverage == Spec => RebalanceNeverOvershoots
<1>. DEFINE Bounded ==
       risk' = risk =>
         \A s \in Symbols, e, f \in Exchanges :
           base_free'[e][s] < base_free[e][s] /\ base_free'[f][s] > base_free[f][s]
             => base_free'[e][s] >= base_free'[f][s]
<1>1. ExecutorInvariant /\ [Next]_vars => [Bounded]_vars
  <2>. SUFFICES ASSUME TypeOK, Next, risk' = risk,
                       NEW s \in Symbols, NEW e \in Exchanges, NEW f \in Exchanges,
                       base_free'[e][s] < base_free[e][s],
                       base_free'[f][s] > base_free[f][s]
                PROVE  base_free'[e][s] >= base_free'[f][s]
    BY DEF ExecutorInvariant
  <2>1. base_free[e][s] \in Int /\ base_free[f][s] \in Int
    BY DEF TypeOK
  <2>2. base_free' # base_free
    BY <2>1
  <2>3. PICK w \in Symbols : Rebalance(w)
    BY <2>2, ExecuteCounts DEF Next, Elapse
  <2>4. PICK t \in Transfers(w) :
          LET size == TransferSize(w, t[1], t[2])
          IN  /\ base_free'[t[1]][w] = base_free[t[1]][w] - size
              /\ base_free'[t[2]][w] = base_free[t[2]][w] + size - TransferFee(size)
              /\ \A g \in Exchanges, v \in Symbols :
                   v # w \/ g \notin {t[1], t[2]} => base_free'[g][v] = base_free[g][v]
    BY <2>3, RebalanceBase
  <2>. DEFINE size == TransferSize(w, t[1], t[2])
              fee == TransferFee(size)
              n == Cardinality(Exchanges)
              total == TotalBase(w)
  <2>5. /\ t[1] \in Exchanges /\ t[2] \in Exchanges
        /\ n \in Nat \ {0} /\ total \in Int
        /\ size \in Nat \ {0} /\ fee \in Nat /\ size - fee \in Nat \ {0}
        /\ n * size <= n * base_free[t[1]][w] - total
        /\ n * size <= total - n * base_free[t[2]][w]
    BY TransferIs
  <2>6. /\ base_free'[t[1]][w] = base_free[t[1]][w] - size
        /\ base_free'[t[2]][w] = base_free[t[2]][w] + size - fee
        /\ \A g \in Exchanges, v \in Symbols :
             v # w \/ g \notin {t[1], t[2]} => base_free'[g][v] = base_free[g][v]
    BY <2>4
  <2>. HIDE DEF size, fee, n, total
  <2>7. base_free[t[1]][w] \in Int /\ base_free[t[2]][w] \in Int
    BY <2>5 DEF TypeOK
  <2>8. s = w /\ e \in {t[1], t[2]} /\ f \in {t[1], t[2]}
    BY <2>1, <2>6
  <2>9. e = t[1] /\ f = t[2]
    BY <2>5, <2>6, <2>7, <2>8
  <2>10. base_free[t[1]][w] - size >= base_free[t[2]][w] + size
    <3>. DEFINE x == base_free[t[1]][w]
                y == base_free[t[2]][w]
    <3>1. x \in Int /\ y \in Int /\ size \in Int /\ total \in Int /\ n \in Nat \ {0}
      BY <2>5, <2>7
    <3>2. n * size <= n * x - total /\ n * size <= total - n * y
      BY <2>5
    <3>. HIDE DEF x, y
    <3>3. n * (x - y - 2 * size) = (n * x - total - n * size) + (total - n * y - n * size)
      BY <3>1
    <3>4. n * (x - y - 2 * size) >= 0
      BY <3>1, <3>2, <3>3
    <3>5. \A k \in Nat \ {0}, d \in Int : k * d >= 0 => d >= 0
      OBVIOUS
    <3>6. x - y - 2 * size >= 0
      BY <3>1, <3>4, <3>5
    <3>. QED BY <3>1, <3>6 DEF x, y
  <2>. QED BY <2>5, <2>6, <2>7, <2>8, <2>9, <2>10
<1>. QED BY <1>1, InvariantHolds, PTL DEF Spec, RebalanceNeverOvershoots
=============================================================================

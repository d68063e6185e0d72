------------------------- MODULE OpportunityEngine -------------------------
(***************************************************************************)
(* The scanner (src/src/opportunity.py): one find_opportunities() call     *)
(* after the other, each symbol by symbol and pair by pair.  A pair first  *)
(* moves the slippage averages of both exchanges and is then judged with   *)
(* the averages so far.                                                    *)
(*                                                                         *)
(* Rates (fees, slippage, spreads, thresholds) are integers in units of    *)
(* 1/Scale, and what the code divides to get one is rounded down to such a *)
(* unit.  Money in an opportunity is multiplied by Scale, and probability  *)
(* and risk of a maker order are computed in a unit in which every         *)
(* division comes out even, so that both are exact.                        *)
(***************************************************************************)
EXTENDS MakerQuote, SequencesExt

CONSTANTS
  Listing,              \* the exchanges in the order of the configuration
  SymbolList,           \* config.symbols
  Snapshots,            \* external: what the gateway may return for a symbol
  Scale,                \* rate units in a whole
  Mode, AllowNegative,  \* mode, allow_negative_expected_profit_dryrun
  ExecutionStyle,       \* execution_style
  MakerSidePreference,  \* maker_side_preference
  FeesTaker, FeesMaker, \* [exchange -> rate]
  SlippagePct,          \* slippage_pct
  UseDynamicSlippage,   \* use_dynamic_slippage
  AutoThreshold,        \* auto_threshold_enabled
  CostBuffer,           \* auto_threshold_cost_buffer_ratio, percent
  MinFloor,             \* auto_threshold_min_floor_pct
  MinNetSpread,         \* min_net_spread_pct
  RequireDepth,         \* require_depth_liquidity
  CapitalPerTrade,      \* capital_per_trade_usdt
  MaxPosition,          \* max_position_per_symbol
  MinNotional,          \* min_notional_usdt
  QueueSensitivity,     \* queue_risk_sensitivity
  EdgeRef,              \* fill_probability_edge_ref_pct
  MaxCycles             \* bound of the model: calls of find_opportunities()

Exchanges == Range(Listing)
Symbols == Range(SymbolList)

Rows == {row \in Snapshots : row.present}

ASSUME EngineAssumption ==
  /\ IsInjective(Listing) /\ Listing \in Seq(Exchanges)
  /\ SymbolList \in Seq(Symbols)
  /\ Scale \in Nat \ {0}
  /\ {AllowNegative, UseDynamicSlippage, AutoThreshold, RequireDepth} \subseteq BOOLEAN
  /\ FeesTaker \in [Exchanges -> Nat] /\ FeesMaker \in [Exchanges -> Nat]
  /\ SlippagePct \in Int /\ MinFloor \in Int /\ MinNetSpread \in Int
  /\ CostBuffer \in Nat /\ QueueSensitivity \in Nat /\ EdgeRef \in Nat \ {0}
  /\ CapitalPerTrade \in Nat \ {0} /\ MaxPosition \in Nat \ {0} /\ MinNotional \in Nat
  /\ MakerOrderTimeout \in Nat
  /\ MaxCycles \in Nat

\* What _fetch_one builds (exchanges.py:159-175, 240-275): positive prices,
\* volumes and depth that may be zero, and a depth price only with a depth.
\* The unit of quantity is so small that the capital of a trade buys one.
ASSUME SnapshotAssumption ==
  \A row \in Rows :
    /\ {row.bid, row.ask} \subseteq 1..CapitalPerTrade
    /\ {row.bid_volume, row.ask_volume, row.bid_depth_base, row.ask_depth_base,
        row.bid_depth_price} \subseteq Nat
    /\ row.ask_depth_price \in 0..CapitalPerTrade
    /\ row.ask_depth_price > 0 <=> row.ask_depth_base > 0
    /\ row.bid_depth_price > 0 <=> row.bid_depth_base > 0
    /\ row.source \in {"ws", "rest"} /\ row.stale \in BOOLEAN

Reasons ==
  {"missing_snapshot", "stale_snapshot", "insufficient_fresh_markets",
   "depth_liquidity_missing", "invalid_price", "net_spread_below_auto_threshold",
   "insufficient_trade_size", "non_positive_expected_profit"}

VARIABLES
  slippage_ewma,    \* exchange_slippage_ewma_pct
  market,           \* [exchange -> [symbol -> snapshot]] of this scan
  symbols_left,     \* symbols still to be scanned
  pairs,            \* pairs still to be judged: the symbol and two positions
                    \* of the listing, that of the buyer first
  opportunities,    \* found so far; best first once the scan is over
  rejections,       \* rejection_counts_last_cycle
  samples,          \* net spreads of the scan
  distribution,     \* net_spread_distribution_last_cycle
  cycles,           \* scans begun
  scanning,
  ewma_before       \* history: the averages when the scan began

vars == <<slippage_ewma, market, symbols_left, pairs, opportunities, rejections,
          samples, distribution, cycles, scanning, ewma_before>>

----------------------------------------------------------------------------
(* Prices and slippage *)

TakerBuyPrice(row) == IF row.ask_depth_price > 0 THEN row.ask_depth_price ELSE row.ask
TakerSellPrice(row) == IF row.bid_depth_price > 0 THEN row.bid_depth_price ELSE row.bid

ObservedBuying(row) ==
  IF row.ask > 0
    THEN Max({0, ((TakerBuyPrice(row) - row.ask) * Scale) \div row.ask}) ELSE 0
ObservedSelling(row) ==
  IF row.bid > 0
    THEN Max({0, ((row.bid - TakerSellPrice(row)) * Scale) \div row.bid}) ELSE 0

\* Faulty: the weights of the old average and of the observation add up to more.
Average_Heavy(prev, observed) == Max({0, (2 * observed + 3 * prev) \div 4})

Average(prev, observed) == Max({0, (observed + 3 * prev) \div 4})

\* Both exchanges of a pair, whether or not it is rejected later.
Observe(ewma, x, buy, y, sell) ==
  [ewma EXCEPT ![x] = Average(@, ObservedBuying(buy)),
               ![y] = Average(@, ObservedSelling(sell))]

BaseSlippage == Max({0, SlippagePct})

SelectSlippage(ewma, x, observed) ==
  IF UseDynamicSlippage THEN Max({BaseSlippage, observed, ewma[x]}) ELSE BaseSlippage

----------------------------------------------------------------------------
(* Sides and terms of a trade from exchange x, row buy, to y, row sell *)

Style ==
  IF ExecutionStyle \in {"taker-taker", "maker-taker"} THEN ExecutionStyle
  ELSE "taker-taker"

\* The side of the maker order; "none" when both sides are taken.
MakerSide ==
  IF Style = "taker-taker" THEN "none"
  ELSE IF MakerSidePreference \in {"buy", "sell"} THEN MakerSidePreference
  ELSE "buy"

Terms(ewma, x, buy, y, sell) ==
  LET buying == SelectSlippage(ewma, x, ObservedBuying(buy))
      selling == SelectSlippage(ewma, y, ObservedSelling(sell))
  IN  IF MakerSide = "none" THEN
        [buy_price |-> TakerBuyPrice(buy), sell_price |-> TakerSellPrice(sell),
         buy_fee |-> FeesTaker[x], sell_fee |-> FeesTaker[y],
         buy_slippage |-> buying, sell_slippage |-> selling]
      ELSE IF MakerSide = "sell" THEN
        [buy_price |-> TakerBuyPrice(buy),
         sell_price |-> IF sell.ask > 0 THEN sell.ask ELSE sell.bid,
         buy_fee |-> FeesTaker[x], sell_fee |-> FeesMaker[y],
         buy_slippage |-> buying, sell_slippage |-> 0]
      ELSE
        [buy_price |-> IF buy.bid > 0 THEN buy.bid ELSE buy.ask,
         sell_price |-> TakerSellPrice(sell),
         buy_fee |-> FeesMaker[x], sell_fee |-> FeesTaker[y],
         buy_slippage |-> 0, sell_slippage |-> selling]

NetBuy(t) == t.buy_price * (Scale + t.buy_fee + t.buy_slippage)
NetSell(t) == t.sell_price * (Scale - t.sell_fee - t.sell_slippage)
NetSpread(t) == ((NetSell(t) - NetBuy(t)) * Scale) \div NetBuy(t)

Threshold(ewma, x, y, t) ==
  LET cost == t.buy_fee + t.sell_fee + Max({t.buy_slippage, ewma[x]})
                                     + Max({t.sell_slippage, ewma[y]})
  IN  IF AutoThreshold
        THEN Max({MinNetSpread, MinFloor, (cost * CostBuffer) \div 100})
        ELSE MinNetSpread

----------------------------------------------------------------------------
(* Size *)

min_nonzero(values) ==
  LET candidates == {v \in values : v > 0}
  IN  IF candidates = {} THEN 0 ELSE Min(candidates)

\* Faulty: the volumes beside the best prices are overlooked.
Volumes_DepthOnly(buy, sell) ==
  {IF MakerSide = "buy" THEN buy.bid_volume ELSE buy.ask_depth_base,
   IF MakerSide = "sell" THEN sell.ask_volume ELSE sell.bid_depth_base}

\* Volumes and depth on the sides that are taken, or queued behind.
Volumes(buy, sell) ==
  CASE MakerSide = "none" -> {buy.ask_volume, sell.bid_volume,
                              buy.ask_depth_base, sell.bid_depth_base}
    [] MakerSide = "sell" -> {sell.ask_volume, buy.ask_depth_base, buy.ask_volume}
    [] OTHER -> {buy.bid_volume, sell.bid_depth_base, sell.bid_volume}

\* Faulty: the configured position is the only limit besides the capital.
SizeLimits_NoVolumes(t, buy, sell) == {CapitalPerTrade \div t.buy_price, MaxPosition}

SizeLimits(t, buy, sell) ==
  {CapitalPerTrade \div t.buy_price, MaxPosition} \cup Volumes(buy, sell)

Quantity(t, buy, sell) == min_nonzero(SizeLimits(t, buy, sell))

----------------------------------------------------------------------------
(* Estimates of a maker order *)

MakerQueue(buy, sell) == IF MakerSide = "sell" THEN sell.ask_volume ELSE buy.bid_volume
TakerDepth(buy, sell) ==
  IF MakerSide = "sell" THEN buy.ask_depth_base ELSE sell.bid_depth_base

\* One percent, in parts so small that whatever is divided below comes out even:
\* the estimates are the code's fractions, not rounded ones.
Percent(quantity, queue) == 6 * EdgeRef * quantity * Max({queue, 1})

\* Faulty: where no queue is seen there is none.
QueueRisk_NoneSeen(quantity, queue) ==
  LET u == Percent(quantity, queue)
  IN  IF queue <= 0 THEN 0
      ELSE Clamp((100 * u * quantity * QueueSensitivity) \div queue, 0, 150 * u)

QueueRisk(quantity, queue) ==
  LET u == Percent(quantity, queue)
  IN  IF queue <= 0 THEN 100 * u
      ELSE Clamp((100 * u * quantity * QueueSensitivity) \div queue, 0, 150 * u)

\* u is the percent of probability and risk.
FillProbability(u, edge, quantity, depth, risk, buy, sell) ==
  LET edge_score == Clamp((100 * u * edge) \div EdgeRef, -100 * u, 100 * u)
      depth_score == Clamp((200 * u * depth) \div (3 * quantity), 0, 100 * u)
      streams == Cardinality({side \in {1, 2} : <<buy, sell>>[side].source = "ws"})
  IN  Clamp(45 * u + (25 * depth_score + 25 * Max({edge_score, 0}) - 35 * risk) \div 100
              + 5 * u * streams, u, 99 * u)

\* The one rounding of the estimates, as in the code: to whole milliseconds.
ExpectedFillTime(u, probability, risk) ==
  (MakerOrderTimeout * Clamp(120 * u - probability + (40 * risk) \div 100, 25 * u, 250 * u))
    \div (100 * u)

----------------------------------------------------------------------------
(* One pair *)

DepthMissing(buy, sell) ==
  /\ RequireDepth
  /\ \/ MakerSide # "buy" /\ buy.ask_depth_price <= 0
     \/ MakerSide # "sell" /\ sell.bid_depth_price <= 0

LossesAllowed == Mode = "dry-run" /\ AllowNegative

\* Faulty: a configured threshold below zero is all that keeps losses out.
NoProfit_Unchecked(t) == FALSE
NoProfit(t) == NetSell(t) - NetBuy(t) <= 0 /\ ~ LossesAllowed

\* Why a pair is rejected, in the order of the checks; "none" if it is not.
RejectReason(ewma, x, buy, y, sell) ==
  LET t == Terms(ewma, x, buy, y, sell)
      quantity == Quantity(t, buy, sell)
  IN  IF DepthMissing(buy, sell) THEN "depth_liquidity_missing"
      ELSE IF t.buy_price <= 0 \/ t.sell_price <= 0 THEN "invalid_price"
      ELSE IF NetSpread(t) < Threshold(ewma, x, y, t)
        THEN "net_spread_below_auto_threshold"
      ELSE IF quantity <= 0 \/ quantity * t.buy_price < MinNotional
        THEN "insufficient_trade_size"
      ELSE IF NoProfit(t) THEN "non_positive_expected_profit"
      ELSE "none"

\* The reasons that come before the net spread of a pair is known.
Unpriced == {"depth_liquidity_missing", "invalid_price"}

\* Probability and risk are handed over in whole percents: what the executor adds
\* to a probability and compares it with are whole percents too.
Opportunity(ewma, s, x, buy, y, sell) ==
  LET t == Terms(ewma, x, buy, y, sell)
      quantity == Quantity(t, buy, sell)
      maker == MakerSide # "none"
      edge == NetSpread(t) - Threshold(ewma, x, y, t)
      u == Percent(quantity, MakerQueue(buy, sell))
      risk == QueueRisk(quantity, MakerQueue(buy, sell))
      probability ==
        FillProbability(u, edge, quantity, TakerDepth(buy, sell), risk, buy, sell)
  IN  [symbol |-> s, execution_style |-> Style, maker_side |-> MakerSide,
       buy_exchange |-> x, sell_exchange |-> y,
       buy_price |-> t.buy_price, quantity |-> quantity,
       net_spread |-> NetSpread(t), threshold |-> Threshold(ewma, x, y, t),
       buy_cost |-> quantity * t.buy_price * Scale,
       sell_value |-> quantity * t.sell_price * Scale,
       buy_fee |-> quantity * t.buy_price * t.buy_fee,
       sell_fee |-> quantity * t.sell_price * t.sell_fee,
       slippage |-> quantity * (t.buy_price * t.buy_slippage + t.sell_price * t.sell_slippage),
       expected_profit |-> quantity * (NetSell(t) - NetBuy(t)),
       queue_risk |-> IF maker THEN risk \div u ELSE 0,
       fill_probability |-> IF maker THEN probability \div u ELSE 100,
       expected_fill_time_ms |-> IF maker THEN ExpectedFillTime(u, probability, risk) ELSE 0]

----------------------------------------------------------------------------
(* One call of find_opportunities *)

NoRejections == [r \in Reasons |-> 0]
NoDistribution == [count |-> 0, p50 |-> 0, p90 |-> 0, max |-> 0, min |-> 0]

Init ==
  /\ slippage_ewma = [x \in Exchanges |-> BaseSlippage]
  /\ market = <<>>
  /\ symbols_left = <<>> /\ pairs = {}
  /\ opportunities = <<>>
  /\ rejections = NoRejections
  /\ samples = <<>> /\ distribution = NoDistribution
  /\ cycles = 0 /\ scanning = FALSE
  /\ ewma_before = slippage_ewma

BeginScan ==
  /\ ~ scanning /\ cycles < MaxCycles
  /\ market' \in [Exchanges -> [Symbols -> Snapshots]]
  /\ symbols_left' = SymbolList
  /\ opportunities' = <<>> /\ rejections' = NoRejections /\ samples' = <<>>
  /\ cycles' = cycles + 1 /\ scanning' = TRUE
  /\ ewma_before' = slippage_ewma
  /\ UNCHANGED <<slippage_ewma, pairs, distribution>>

\* The rows of a symbol, by their positions in the listing.
FreshRows(s) ==
  {i \in DOMAIN Listing : market[Listing[i]][s].present /\ ~ market[Listing[i]][s].stale}

\* Both loops over the rows.
PairsOf(s, rows) == {p \in {s} \X rows \X rows : p[2] # p[3]}

\* Buyers come in their order, and for each of them the sellers.
IsNext(p) == \A q \in pairs : p[2] < q[2] \/ (p[2] = q[2] /\ p[3] <= q[3])

\* Faulty: a symbol with one fresh row is passed over without a reason.
CountRows_Silent(counts, s, rows) ==
  [counts EXCEPT
     !["missing_snapshot"] = @ + Cardinality({x \in Exchanges : ~ market[x][s].present}),
     !["stale_snapshot"] =
        @ + Cardinality({x \in Exchanges : market[x][s].present /\ market[x][s].stale})]

CountRows(counts, s, rows) ==
  [counts EXCEPT
     !["missing_snapshot"] = @ + Cardinality({x \in Exchanges : ~ market[x][s].present}),
     !["stale_snapshot"] =
        @ + Cardinality({x \in Exchanges : market[x][s].present /\ market[x][s].stale}),
     !["insufficient_fresh_markets"] = @ + (IF Cardinality(rows) < 2 THEN 1 ELSE 0)]

ScanSymbol ==
  /\ scanning /\ pairs = {} /\ symbols_left # <<>>
  /\ LET s == Head(symbols_left)
         rows == FreshRows(s)
     IN  /\ rejections' = CountRows(rejections, s, rows)
         /\ pairs' = PairsOf(s, rows)
  /\ symbols_left' = Tail(symbols_left)
  /\ UNCHANGED <<slippage_ewma, market, opportunities, samples, distribution, cycles,
                 scanning, ewma_before>>

\* One turn of the loop over the pairs, _build_opportunity included.
Build(s, x, y) ==
  LET buy == market[x][s]
      sell == market[y][s]
      ewma == Observe(slippage_ewma, x, buy, y, sell)
      reason == RejectReason(ewma, x, buy, y, sell)
  IN  /\ slippage_ewma' = ewma
      /\ samples' = IF reason \in Unpriced THEN samples
                    ELSE Append(samples, NetSpread(Terms(ewma, x, buy, y, sell)))
      /\ \/ /\ reason = "none"
            /\ opportunities' = Append(opportunities, Opportunity(ewma, s, x, buy, y, sell))
            /\ UNCHANGED rejections
         \/ /\ reason # "none"
            /\ rejections' = [rejections EXCEPT ![reason] = @ + 1]
            /\ UNCHANGED opportunities

BuildOpportunity ==
  /\ scanning
  /\ \E p \in pairs :
       /\ IsNext(p)
       /\ Build(p[1], Listing[p[2]], Listing[p[3]])
       /\ pairs' = pairs \ {p}
  /\ UNCHANGED <<market, symbols_left, distribution, cycles, scanning, ewma_before>>

\* A stable sort: the k-th is the one with k - 1 others before it.
Sorted(seq, Before(_, _)) ==
  LET rank(i) == Cardinality({j \in DOMAIN seq : \/ Before(seq[j], seq[i])
                                                 \/ ~ Before(seq[i], seq[j]) /\ j < i})
  IN  [k \in DOMAIN seq |-> seq[CHOOSE i \in DOMAIN seq : rank(i) = k - 1]]

\* The value at a percentage of the way through a sorted sample, interpolated
\* between its neighbours, in hundredths.
Percentile(sorted, pct) ==
  LET position == (Len(sorted) - 1) * pct
      lower == (position \div 100) + 1
      upper == Min({lower + 1, Len(sorted)})
      weight == position % 100
  IN  sorted[lower] * (100 - weight) + sorted[upper] * weight

Distribution(values) ==
  LET sorted == Sorted(values, LAMBDA v, w : v < w)
  IN  IF values = <<>> THEN NoDistribution
      ELSE [count |-> Len(values), p50 |-> Percentile(sorted, 50),
            p90 |-> Percentile(sorted, 90), max |-> 100 * sorted[Len(sorted)],
            min |-> 100 * sorted[1]]

Ranked(found) == Sorted(found, LAMBDA o, p : o.expected_profit > p.expected_profit)

EndScan ==
  /\ scanning /\ pairs = {} /\ symbols_left = <<>>
  /\ opportunities' = Ranked(opportunities)
  /\ distribution' = Distribution(samples)
  /\ scanning' = FALSE
  /\ UNCHANGED <<slippage_ewma, market, symbols_left, pairs, rejections, samples,
                 cycles, ewma_before>>

Next == BeginScan \/ ScanSymbol \/ BuildOpportunity \/ EndScan

Spec == Init /\ [][Next]_vars

----------------------------------------------------------------------------
(* Properties *)

\* Types of the scan's state; averages are never negative (opportunity.py:302).
TypeOK ==
  /\ slippage_ewma \in [Exchanges -> Nat] /\ ewma_before \in [Exchanges -> Nat]
  /\ rejections \in [Reasons -> Nat]
  /\ cycles \in 0..MaxCycles /\ scanning \in BOOLEAN
  /\ pairs \subseteq Symbols \X (DOMAIN Listing) \X (DOMAIN Listing)
  /\ \A p \in pairs, k \in {2, 3} :
       market[Listing[p[k]]][p[1]] \in Rows /\ ~ market[Listing[p[k]]][p[1]].stale

Observations(x) ==
  UNION {{ObservedBuying(row), ObservedSelling(row)} :
         row \in {fresh \in {market[x][s] : s \in Symbols} \cap Rows : ~ fresh.stale}}

\* However often and in whichever order the pairs of a scan move an exchange's
\* average (opportunity.py:113-114, 302), it stays between what it was and what
\* was observed of that exchange in this scan: neither the order in which
\* exchanges are listed nor their number can push a threshold further, and an
\* exchange without a fresh quote keeps the average it had.
AverageStaysInRange ==
  scanning =>
    \A x \in Exchanges :
      LET seen == Observations(x) \cup {ewma_before[x]}
      IN  \E low, high \in seen : low <= slippage_ewma[x] /\ slippage_ewma[x] <= high

\* What the executor relies on without checking (executor.py:51-105): two
\* different exchanges, a size within the position limit and the capital of a
\* trade, and a profit after fees and slippage unless the dry-run switch is on,
\* however low the configured thresholds are (opportunity.py:205-255).
EmittedFitsExecutor ==
  \A k \in DOMAIN opportunities :
    LET o == opportunities[k]
    IN  /\ o.buy_exchange # o.sell_exchange
        /\ o.quantity \in 1..MaxPosition
        /\ o.quantity * o.buy_price <= CapitalPerTrade
        /\ LossesAllowed
             \/ (o.sell_value - o.sell_fee) - (o.buy_cost + o.buy_fee) - o.slippage > 0

\* The volumes and depth of the sides an opportunity takes, and the volume it
\* queues behind, as far as its rows show any.
Shown(o) ==
  LET buy == market[o.buy_exchange][o.symbol]
      sell == market[o.sell_exchange][o.symbol]
  IN  {v \in (IF o.maker_side = "buy" THEN {buy.bid_volume}
               ELSE {buy.ask_volume, buy.ask_depth_base})
             \cup (IF o.maker_side = "sell" THEN {sell.ask_volume}
                   ELSE {sell.bid_volume, sell.bid_depth_base}) : v > 0}

\* No more is offered than any volume or depth that is known: a zero, as in every
\* row of a stream, lifts its own limit and no other (opportunity.py:205-223,
\* 361-365).  Where depth is required, that of the sides to be taken is known
\* (opportunity.py:171-178), and is among the limits.
QuantityIsVisible ==
  \A k \in DOMAIN opportunities :
    LET o == opportunities[k]
    IN  /\ \A v \in Shown(o) : o.quantity <= v
        /\ RequireDepth =>
             /\ o.maker_side # "buy"
                  => market[o.buy_exchange][o.symbol].ask_depth_base \in Shown(o)
             /\ o.maker_side # "sell"
                  => market[o.sell_exchange][o.symbol].bid_depth_base \in Shown(o)

\* The statistics of a scan account for everything it looked at: every
\* exchange and symbol without a fresh quote, every symbol with too few of
\* them, and every ordered pair, rejected for one reason or offered; and the
\* distribution counts the pairs that got as far as a net spread.
ScanAccounted ==
  ~ scanning /\ cycles > 0 =>
    LET without(P(_)) ==
          SumFunction([i \in DOMAIN SymbolList |->
             Cardinality({x \in Exchanges : P(market[x][SymbolList[i]])})])
        fresh == [i \in DOMAIN SymbolList |->
             Cardinality({x \in Exchanges : /\ market[x][SymbolList[i]].present
                                            /\ ~ market[x][SymbolList[i]].stale})]
        pairs_judged == SumFunction([i \in DOMAIN SymbolList |-> fresh[i] * (fresh[i] - 1)])
        unpriced == SumFunctionOnSet(rejections, Unpriced)
    IN  /\ rejections["missing_snapshot"] = without(LAMBDA row : ~ row.present)
        /\ rejections["stale_snapshot"] = without(LAMBDA row : row.present /\ row.stale)
        /\ rejections["insufficient_fresh_markets"]
             = Cardinality({i \in DOMAIN SymbolList : fresh[i] < 2})
        /\ SumFunction(rejections) + Len(opportunities)
             = pairs_judged + rejections["missing_snapshot"] + rejections["stale_snapshot"]
                 + rejections["insufficient_fresh_markets"]
        /\ distribution.count = pairs_judged - unpriced
        /\ distribution.min <= distribution.p50 /\ distribution.p50 <= distribution.p90
        /\ distribution.p90 <= distribution.max

\* The loop attempts the first few only (main.py:125): none that comes later
\* may promise more.
BestComeFirst ==
  ~ scanning =>
    \A j, k \in DOMAIN opportunities :
      j < k => opportunities[j].expected_profit >= opportunities[k].expected_profit

\* A stream's row has no volumes (market_ws.py:77-81), so that a maker order
\* beside it waits behind a queue of unknown length, rated as the worst risk
\* (opportunity.py:333-334): such an order is offered all the same, and the
\* executor lets it fill only if the net spread exceeds the threshold by nearly
\* three fifths of the reference edge, however often it is requoted.  "Nearly":
\* the fill time is truncated to milliseconds (opportunity.py:242), which lets an
\* order pass that is up to one millisecond too slow, and that is worth 4 in
\* timeout of the reference: at a timeout of 1200 ms the edge is over 0.5967 of it.
UnknownQueueNeedsEdge ==
  \A k \in DOMAIN opportunities :
    LET o == opportunities[k]
        queue == IF o.maker_side = "sell"
                   THEN market[o.sell_exchange][o.symbol].ask_volume
                   ELSE market[o.buy_exchange][o.symbol].bid_volume
    IN  o.maker_side # "none" /\ queue = 0 /\ Filled(o)
          => (3 * MakerOrderTimeout - 20) * EdgeRef
               < 5 * MakerOrderTimeout * Max({o.net_spread - o.threshold, 0})
=============================================================================

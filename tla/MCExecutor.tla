---------------------------- MODULE MCExecutor ----------------------------
(* Instances of Executor for TLC. *)
EXTENDS Executor

CONSTANTS a, b, c, btc

\* An opportunity of the instance; the amounts are those of the maker or
\* taker trade the scanner would have built from its prices.
Opp(style, buy, sell, qty, cost, value, fees, step, probability, time) ==
  [symbol |-> btc, execution_style |-> style, buy_exchange |-> buy,
   sell_exchange |-> sell, quantity |-> qty, buy_cost |-> cost,
   sell_value |-> value, buy_fee |-> fees, sell_fee |-> fees, slippage |-> 1,
   requote_step |-> step, fill_probability |-> probability,
   expected_fill_time_ms |-> time]

\* Two prices on the route a->b, so that quotes run out with and without the
\* fee, just when the inventory of b does, and a third exchange to rebalance
\* with.  No trade is larger than MaxPosition (opportunity.py:206).
TakerOpportunities ==
  {Opp("taker-taker", a, b, 2, 5, 9, 1, 0, 100, 0),
   Opp("taker-taker", a, b, 2, 6, 10, 1, 0, 100, 0),
   Opp("taker-taker", b, c, 1, 6, 10, 1, 0, 100, 0)}

\* Fills at once, after one requote with a profit, after one requote at a loss,
\* after two, and never (too slow).
MakerOpportunities ==
  {Opp("maker-taker", a, b, 2, 10, 14, 1, 0, 60, 6),
   Opp("maker-taker", a, b, 2, 10, 15, 1, 1, 40, 8),
   Opp("maker-taker", a, b, 2, 10, 14, 1, 3, 40, 8),
   Opp("maker-taker", b, a, 1, 6, 11, 1, 1, 30, 10),
   Opp("maker-taker", b, a, 1, 6, 11, 1, 1, 50, 11)}

AllOpportunities == TakerOpportunities \cup MakerOpportunities

\* Without an expected profit: the smoke-test switch lets a dry run take them.
DryRunOpportunities ==
  MakerOpportunities \cup
  {Opp("maker-taker", a, b, 2, 10, 9, 1, 0, 60, 6),
   Opp("taker-taker", b, a, 2, 10, 9, 1, 0, 60, 6)}
=============================================================================

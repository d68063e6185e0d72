-------------------------- MODULE MCBotService --------------------------
(* Instances of BotService for TLC. *)
EXTENDS BotService

CONSTANTS a, b, btc

Opp(style, buy, sell, qty, cost, value, step, probability, time) ==
  [symbol |-> btc, execution_style |-> style, buy_exchange |-> buy,
   sell_exchange |-> sell, quantity |-> qty, buy_cost |-> cost,
   sell_value |-> value, buy_fee |-> 1, sell_fee |-> 1, slippage |-> 0,
   requote_step |-> step, fill_probability |-> probability,
   expected_fill_time_ms |-> time]

\* A route that fills, and its reverse, which fills unless it takes a maker
\* order that is too slow.
MixedMarket ==
  {Opp("taker-taker", a, b, 1, 10, 14, 0, 100, 0),
   Opp("taker-taker", b, a, 1, 10, 13, 0, 100, 0),
   Opp("maker-taker", b, a, 1, 10, 15, 0, 50, 11)}
=============================================================================

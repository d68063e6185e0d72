------------------------------- MODULE MCBot -------------------------------
(* Instances of Bot for TLC. *)
EXTENDS Bot

CONSTANTS a, b, btc

Opp(style, buy, sell, qty, cost, value, step, probability, time) ==
  [symbol |-> btc, execution_style |-> style, buy_exchange |-> buy,
   sell_exchange |-> sell, quantity |-> qty, buy_cost |-> cost,
   sell_value |-> value, buy_fee |-> 1, sell_fee |-> 1, slippage |-> 0,
   requote_step |-> step, fill_probability |-> probability,
   expected_fill_time_ms |-> time]

OneWayMarket == {Opp("taker-taker", a, b, 1, 10, 14, 0, 100, 0)}
=============================================================================

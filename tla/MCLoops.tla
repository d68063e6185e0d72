------------------------------ MODULE MCLoops ------------------------------
(* Three small loops, checked in one run for TLC: each behaviour is of one of  *)
(* them, named by part, while the variables of the others keep a first value.  *)
(*   quote   the requoting of every order the scanner can estimate             *)
(*           (opportunity.py:242-245, 332-358): i is the queue risk in         *)
(*           quarters (0 .. 1.5), j the share of depth, edge and streaming     *)
(*           prices in the score, in twentieths;                               *)
(*   walk    every book of up to three levels on a small grid, sorted or not,  *)
(*           with levels that are empty, cut short or zero;                    *)
(*   clock   two routes under a clock that is set twice.                       *)
EXTENDS MakerLoop, ImpactPrice, WallClock

VARIABLE part

Estimate(i, j) ==
  LET probability == Clamp(45 + 5 * j - 9 * i, 1, 99)
  IN  [fill_probability |-> probability,
       expected_fill_time_ms |-> Clamp(1440 - 12 * probability + 120 * i, 300, 3000)]

EstimatedOrders == {Estimate(i, j) : i \in 0..6, j \in 0..12}

SmallLevels == {<<>>, <<2>>, <<0, 2>>, <<2, 0>>} \cup {<<p, q>> : p \in {1, 2, 3}, q \in {1, 2}}

SmallBooks == UNION {[1..n -> SmallLevels] : n \in 0..3}
SmallTargets == -1..6

MCInit ==
  /\ part \in {"quote", "walk", "clock"}
  /\ Init /\ WalkInit /\ ClockInit
  /\ part # "quote" => opp = Estimate(0, 0)
  /\ part # "walk" => levels = <<>> /\ target_quote = 0

MCNext ==
  \/ part = "quote" /\ Next /\ UNCHANGED <<walkvars, clockvars, part>>
  \/ part = "walk" /\ WalkNext /\ UNCHANGED <<vars, clockvars, part>>
  \/ part = "clock" /\ ClockNext /\ UNCHANGED <<vars, walkvars, part>>

MCSpec == MCInit /\ [][MCNext]_<<vars, walkvars, clockvars, part>>
=============================================================================

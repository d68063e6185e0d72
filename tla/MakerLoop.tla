----------------------------- MODULE MakerLoop -----------------------------
(***************************************************************************)
(* The loop of PaperExecutor._execute_maker_taker (src/src/executor.py:    *)
(* 131-149) that requotes a post-only order until it is taken as filled or *)
(* its attempts are used up, one action per exit of an iteration.  Module  *)
(* Executor uses what MakerQuote says of the loop; here the loop is shown  *)
(* to compute exactly that.                                                *)
(***************************************************************************)
EXTENDS MakerQuote

CONSTANT Orders   \* the estimates of a maker order, as an Opportunity has them

ASSUME OrdersAssumption ==
  Orders \subseteq [fill_probability : Int, expected_fill_time_ms : Int]

VARIABLES
  opp,                        \* the order being placed
  attempt,                    \* 1 .. TotalAttempts
  requotes,
  current_fill_probability,
  filled,
  pc                          \* "loop", or "done" after the loop

vars == <<opp, attempt, requotes, current_fill_probability, filled, pc>>

Init ==
  /\ opp \in Orders
  /\ attempt = 1
  /\ requotes = 0
  /\ current_fill_probability = Clamp(opp.fill_probability, 0, 99)
  /\ filled = FALSE
  /\ pc = "loop"

Fills == current_fill_probability >= MinFillProbability /\ ~ TimedOut(opp)

Fill ==
  /\ pc = "loop"
  /\ Fills
  /\ filled' = TRUE
  /\ pc' = "done"
  /\ UNCHANGED <<opp, attempt, requotes, current_fill_probability>>

\* Faulty: the last attempt is requoted as well.
LastAttempt_OneMore == attempt > TotalAttempts
LastAttempt == attempt = TotalAttempts

GiveUp ==
  /\ pc = "loop"
  /\ ~ Fills
  /\ LastAttempt
  /\ pc' = "done"
  /\ UNCHANGED <<opp, attempt, requotes, current_fill_probability, filled>>

Requote ==
  /\ pc = "loop"
  /\ ~ Fills
  /\ ~ LastAttempt
  /\ attempt' = attempt + 1
  /\ requotes' = requotes + 1
  /\ current_fill_probability' = Clamp(current_fill_probability + RequoteBoost, 0, 99)
  /\ UNCHANGED <<opp, filled, pc>>

Next == Fill \/ GiveUp \/ Requote

Spec == Init /\ [][Next]_vars

----------------------------------------------------------------------------
(* Properties *)

\* The loop ends with the outcome and the number of requotes that MakerQuote
\* gives for the order (executor.py:131-149).
LoopComputesQuote ==
  pc = "done" => filled = Filled(opp) /\ requotes = Requotes(opp)

\* The estimated fill time does not change between attempts (executor.py:137):
\* an order estimated too slow is never filled, and is requoted all the same
\* as often as the configuration allows before it is cancelled.
SlowOrderUsesEveryRequote ==
  pc = "done" /\ TimedOut(opp) => ~ filled /\ requotes = TotalAttempts - 1

----------------------------------------------------------------------------
(* The loop invariant: no earlier attempt would have filled the order, and  *)
(* clamping at every requote comes to clamping once.                        *)

LoopInvariant ==
  /\ opp \in Orders
  /\ attempt \in 1..TotalAttempts
  /\ requotes = attempt - 1
  /\ current_fill_probability = FillProbabilityAfter(opp, requotes)
  /\ \A k \in 0..(requotes - 1) : k \notin FillingRequotes(opp)
  /\ filled \in BOOLEAN
  /\ pc \in {"loop", "done"}
  /\ filled => pc = "done" /\ requotes \in FillingRequotes(opp)
  /\ pc = "done" /\ ~ filled =>
       attempt = TotalAttempts /\ requotes \notin FillingRequotes(opp)
=============================================================================

---------------------------- MODULE MakerQuote ----------------------------
(***************************************************************************)
(* The maker leg of a maker-taker trade, as PaperExecutor sees it: how     *)
(* often a post-only order is requoted and whether it fills.  The loop     *)
(* itself is module MakerLoop; this module states what the loop computes.  *)
(* Probabilities are whole percents (0.99 is 99), times milliseconds.      *)
(***************************************************************************)
EXTENDS Integers, FiniteSetsExt

CONSTANTS
  MaxRequotes,          \* maker_max_requotes
  MinFillProbability,   \* maker_min_fill_probability, percent
  RequoteBoost,         \* maker_requote_fill_boost, percent
  MakerOrderTimeout     \* maker_order_timeout_ms

ASSUME MakerAssumption ==
  /\ MaxRequotes \in Int
  /\ MinFillProbability \in Int
  /\ RequoteBoost \in Int
  /\ MakerOrderTimeout \in Int

Clamp(value, low, high) == Max({low, Min({high, value})})

\* max(1, 1 + maker_max_requotes): a negative setting still allows one attempt.
TotalAttempts == Max({1, 1 + MaxRequotes})

\* The estimate does not change while the order is requoted.
TimedOut(o) == o.expected_fill_time_ms > MakerOrderTimeout

FillProbabilityAfter(o, requotes) ==
  Clamp(Clamp(o.fill_probability, 0, 99) + requotes * RequoteBoost, 0, 99)

\* The numbers of requotes after which the order would be taken as filled.
FillingRequotes(o) ==
  {k \in 0..(TotalAttempts - 1) :
     /\ FillProbabilityAfter(o, k) >= MinFillProbability
     /\ ~ TimedOut(o)}

Filled(o) == FillingRequotes(o) # {}

\* The loop stops at the first requote that fills, or uses all of them.
Requotes(o) ==
  IF Filled(o) THEN Min(FillingRequotes(o)) ELSE TotalAttempts - 1
=============================================================================

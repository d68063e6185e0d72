---------------------------- MODULE ImpactPrice ----------------------------
(***************************************************************************)
(* What an order of a given size would cost in an order book:              *)
(* _impact_price_for_quote (src/src/exchanges.py), one action per turn of  *)
(* its loop over the levels.  Quote amounts are integers; base amounts are *)
(* counted in parts of 1/Unit, where every price divides Unit, so that the *)
(* division by the price is exact.                                         *)
(***************************************************************************)
EXTENDS Integers, Sequences, FiniteSetsExt, Functions

CONSTANTS
  Levels,     \* external: levels <<price, qty>>; a level may be cut short
  Books,      \* external: sides of order books, sequences of levels
  Targets,    \* values of target_quote
  Unit        \* parts of a base unit

Valid(level) == Len(level) >= 2 /\ level[1] > 0 /\ level[2] > 0

ASSUME ImpactAssumption ==
  /\ Unit \in Nat \ {0}
  /\ Targets \subseteq Int
  /\ Levels \subseteq Seq(Int)
  /\ Books \subseteq Seq(Levels)
  /\ \A level \in Levels : Valid(level) => Unit % level[1] = 0

\* Base bought with one unit of quote.
PerQuote(price) == Unit \div price

VARIABLES
  levels, target_quote,       \* the arguments
  next_level,                 \* the level of the next turn
  total_quote, total_base,
  done

walkvars == <<levels, target_quote, next_level, total_quote, total_base, done>>

WalkInit ==
  /\ levels \in Books /\ target_quote \in Targets
  /\ next_level = 1
  /\ total_quote = 0 /\ total_base = 0
  /\ done = (target_quote <= 0)

Skip ==
  /\ ~ done /\ next_level <= Len(levels)
  /\ ~ Valid(levels[next_level])
  /\ next_level' = next_level + 1
  /\ UNCHANGED <<levels, target_quote, total_quote, total_base, done>>

\* Faulty: a quantity of base is compared with a rest of quote.
TakeQuote_BaseForQuote(level) == Min({level[2], target_quote - total_quote})

TakeQuote(level) == Min({level[1] * level[2], target_quote - total_quote})

Take ==
  /\ ~ done /\ next_level <= Len(levels)
  /\ Valid(levels[next_level])
  /\ LET quote == TakeQuote(levels[next_level])
     IN  /\ total_quote' = total_quote + quote
         /\ total_base' = total_base + quote * PerQuote(levels[next_level][1])
  /\ done' = (total_quote' >= target_quote)
  /\ next_level' = next_level + 1
  /\ UNCHANGED <<levels, target_quote>>

EndOfBook ==
  /\ ~ done /\ next_level > Len(levels)
  /\ done' = TRUE
  /\ UNCHANGED <<levels, target_quote, next_level, total_quote, total_base>>

WalkNext == Skip \/ Take \/ EndOfBook

WalkSpec == WalkInit /\ [][WalkNext]_walkvars

----------------------------------------------------------------------------
(* Properties *)

ValidLevels(b) == {i \in DOMAIN b : Valid(b[i])}

BookQuote(b) == SumFunction([i \in ValidLevels(b) |-> b[i][1] * b[i][2]])
\* What an order of that size would cost.  A book too thin for the target
\* gives a price all the same, for what there is: the amount spent is the
\* target or the whole book, whichever is less (exchanges.py:245-275).  And
\* whatever other way there is to spend that amount on the levels of a side of
\* asks, cheapest first, it buys no more; on a side of bids, dearest first, no
\* other way sells less.
Spendings(b) ==
  {f \in [ValidLevels(b) -> 0..target_quote] :
     /\ \A i \in ValidLevels(b) : f[i] <= b[i][1] * b[i][2]
     /\ SumFunction(f) = total_quote}

BaseOf(b, f) == SumFunction([i \in DOMAIN f |-> f[i] * PerQuote(b[i][1])])

Ascending(b) == \A i, j \in ValidLevels(b) : i < j => b[i][1] <= b[j][1]
Descending(b) == \A i, j \in ValidLevels(b) : i < j => b[i][1] >= b[j][1]

BestFill ==
  done /\ target_quote > 0 =>
    /\ total_quote = Min({target_quote, BookQuote(levels)})
    /\ Ascending(levels) =>
         \A f \in Spendings(levels) : BaseOf(levels, f) <= total_base
    /\ Descending(levels) =>
         \A f \in Spendings(levels) : BaseOf(levels, f) >= total_base
=============================================================================

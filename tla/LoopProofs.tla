---------------------------- MODULE LoopProofs ----------------------------
(***************************************************************************)
(* Three small components, for all values of their constants: the requote  *)
(* loop of _execute_maker_taker computes what MakerQuote says; cooldowns   *)
(* are shortened and prolonged by corrections of the clock only; and the   *)
(* walk through an order book finds the price an order would get.          *)
(***************************************************************************)
EXTENDS MakerLoop, ImpactPrice, WallClock, IntegerLemmas

----------------------------------------------------------------------------
(* The requote loop *)

\* At least one attempt is made (executor.py:129).
LEMMA TotalAttemptsType == TotalAttempts \in Nat \ {0}
  BY MaxPair, MakerAssumption DEF TotalAttempts

\* Probabilities are clamped to 0 .. 99 percent.
LEMMA ClampPercent ==
  ASSUME NEW v \in Int
  PROVE  /\ Clamp(v, 0, 99) \in 0..99
         /\ Clamp(v, 0, 99) = IF v < 0 THEN 0 ELSE IF v > 99 THEN 99 ELSE v
<1>1. Clamp(v, 0, 99) = IF v < 0 THEN 0 ELSE IF v > 99 THEN 99 ELSE v
  BY ClampIs DEF Clamp
<1>2. QED
  BY <1>1

\* Whatever sign the boost has, clamping after every requote gives what one
\* clamp at the end gives.
LEMMA ClampOnce ==
  ASSUME NEW p \in Int, NEW k \in Nat
  PROVE  Clamp(Clamp(Clamp(p, 0, 99) + k * RequoteBoost, 0, 99) + RequoteBoost, 0, 99)
           = Clamp(Clamp(p, 0, 99) + (k + 1) * RequoteBoost, 0, 99)
<1> DEFINE c == Clamp(p, 0, 99)
           d == k * RequoteBoost
<1>1. RequoteBoost \in Int
  BY MakerAssumption
<1>2. c \in 0..99
  BY ClampPercent
<1>3. d \in Int /\ (k + 1) * RequoteBoost = d + RequoteBoost
  BY <1>1
<1>4. (RequoteBoost >= 0 => d >= 0) /\ (RequoteBoost <= 0 => d <= 0)
  BY <1>1
<1> HIDE DEF c, d
<1>5. /\ Clamp(c + d, 0, 99) = IF c + d < 0 THEN 0 ELSE IF c + d > 99 THEN 99 ELSE c + d
      /\ Clamp(c + d + RequoteBoost, 0, 99)
           = IF c + d + RequoteBoost < 0 THEN 0
             ELSE IF c + d + RequoteBoost > 99 THEN 99 ELSE c + d + RequoteBoost
  BY <1>1, <1>2, <1>3, ClampPercent
<1>6. Clamp(c + d, 0, 99) + RequoteBoost \in Int
  BY <1>1, <1>2, <1>3, <1>5
<1>7. Clamp(Clamp(c + d, 0, 99) + RequoteBoost, 0, 99)
        = IF Clamp(c + d, 0, 99) + RequoteBoost < 0 THEN 0
          ELSE IF Clamp(c + d, 0, 99) + RequoteBoost > 99 THEN 99
          ELSE Clamp(c + d, 0, 99) + RequoteBoost
  BY <1>6, ClampPercent
<1>8. Clamp(Clamp(c + d, 0, 99) + RequoteBoost, 0, 99) = Clamp(c + d + RequoteBoost, 0, 99)
  BY <1>1, <1>2, <1>3, <1>4, <1>5, <1>7
<1>9. c + d + RequoteBoost = c + (k + 1) * RequoteBoost
  BY <1>1, <1>2, <1>3
<1>10. QED
  BY <1>8, <1>9 DEF c, d

\* An attempt fills exactly at the requotes that MakerQuote lists.
LEMMA FillsIffListed ==
  ASSUME LoopInvariant
  PROVE  Fills <=> requotes \in FillingRequotes(opp)
  BY TotalAttemptsType DEF LoopInvariant, Fills, FillingRequotes

\* The loop invariant holds before the first attempt.
LEMMA InitInvariant == Init => LoopInvariant
<1> SUFFICES ASSUME Init PROVE LoopInvariant
  OBVIOUS
<1>1. opp.fill_probability \in Int
  BY OrdersAssumption DEF Init
<1>2. FillProbabilityAfter(opp, 0) = Clamp(opp.fill_probability, 0, 99)
  <2>1. Clamp(opp.fill_probability, 0, 99) \in 0..99
    BY <1>1, ClampPercent
  <2>2. Clamp(opp.fill_probability, 0, 99) + 0 * RequoteBoost
          = Clamp(opp.fill_probability, 0, 99)
    BY <2>1, MakerAssumption
  <2>3. Clamp(Clamp(opp.fill_probability, 0, 99), 0, 99) = Clamp(opp.fill_probability, 0, 99)
    BY <2>1, ClampPercent
  <2>4. QED
    BY <2>2, <2>3 DEF FillProbabilityAfter
<1>3. opp \in Orders /\ attempt = 1 /\ requotes = 0 /\ ~ filled /\ pc = "loop"
  BY DEF Init
<1>4. current_fill_probability = FillProbabilityAfter(opp, requotes)
  BY <1>2, <1>3 DEF Init
<1>5. attempt \in 1..TotalAttempts /\ requotes = attempt - 1 /\ 0..(requotes - 1) = {}
  BY <1>3, TotalAttemptsType
<1>6. QED
  BY <1>3, <1>4, <1>5 DEF Init, LoopInvariant

\* Every iteration preserves the loop invariant.
LEMMA StepInvariant == LoopInvariant /\ [Next]_vars => LoopInvariant'
<1> SUFFICES ASSUME LoopInvariant, [Next]_vars PROVE LoopInvariant'
  OBVIOUS
<1>1. CASE Fill
  BY <1>1, FillsIffListed DEF Fill, LoopInvariant
<1>2. CASE GiveUp
  BY <1>2, FillsIffListed DEF GiveUp, LastAttempt, LoopInvariant
<1>3. CASE Requote
  <2>1. opp.fill_probability \in Int
    BY OrdersAssumption DEF LoopInvariant
  <2>2. attempt' \in 1..TotalAttempts /\ requotes' = attempt' - 1
    BY <1>3, TotalAttemptsType DEF Requote, LastAttempt, LoopInvariant
  <2>3. requotes \in Nat
    BY DEF LoopInvariant
  <2>4. current_fill_probability' = FillProbabilityAfter(opp', requotes')
    BY <1>3, <2>1, <2>3, ClampOnce DEF Requote, LoopInvariant, FillProbabilityAfter
  <2>5. \A k \in 0..(requotes' - 1) : k \notin FillingRequotes(opp')
    BY <1>3, <2>3, FillsIffListed DEF Requote, LoopInvariant
  <2>6. QED
    BY <1>3, <2>2, <2>4, <2>5 DEF Requote, LoopInvariant
<1>4. CASE UNCHANGED vars
  BY <1>4 DEF vars, LoopInvariant
<1>5. QED
  BY <1>1, <1>2, <1>3, <1>4 DEF Next

\* The loop invariant holds at every attempt (executor.py:131-149).
THEOREM LoopInvariantHolds == Spec => []LoopInvariant
  BY InitInvariant, StepInvariant, PTL DEF Spec

\* After the loop the invariant determines the outcome and the requotes.
LEMMA InvariantGivesQuote == LoopInvariant => LoopComputesQuote
<1> SUFFICES ASSUME LoopInvariant, pc = "done"
             PROVE  filled = Filled(opp) /\ requotes = Requotes(opp)
  BY DEF LoopComputesQuote
<1>1. FillingRequotes(opp) \subseteq Int
  BY TotalAttemptsType DEF FillingRequotes
<1>2. CASE filled
  <2>1. requotes \in FillingRequotes(opp)
    BY <1>2 DEF LoopInvariant
  <2>2. \A k \in FillingRequotes(opp) : requotes <= k
    BY <2>1, TotalAttemptsType DEF LoopInvariant, FillingRequotes
  <2>3. Min(FillingRequotes(opp)) = requotes
    BY <1>1, <2>1, <2>2, MinIs
  <2>4. QED
    BY <1>2, <2>1, <2>3 DEF Filled, Requotes, LoopInvariant
<1>3. CASE ~ filled
  <2>1. FillingRequotes(opp) = {}
    BY <1>3, TotalAttemptsType DEF LoopInvariant, FillingRequotes
  <2>2. QED
    BY <1>3, <2>1 DEF Filled, Requotes, LoopInvariant
<1>4. QED
  BY <1>2, <1>3

\* executor.py:131-149: for every order and all settings, the loop fills the
\* order at the first requote that can fill it, or uses all of them in vain.
THEOREM LoopComputesQuoteHolds == Spec => []LoopComputesQuote
  BY LoopInvariantHolds, InvariantGivesQuote, PTL

\* executor.py:137: whatever the number of requotes and the boost, they do
\* nothing for an order estimated too slow.
THEOREM SlowOrderNeverFills == Spec => []SlowOrderUsesEveryRequote
<1>1. LoopComputesQuote => SlowOrderUsesEveryRequote
  BY DEF LoopComputesQuote, SlowOrderUsesEveryRequote, Filled, Requotes, FillingRequotes
<1>2. QED
  BY <1>1, LoopComputesQuoteHolds, PTL

----------------------------------------------------------------------------
(* Cooldowns under a clock that is set *)

\* What the code measures is the real time, up to what the clock was set by;
\* and the corrections so far leave room below the horizon, so that no
\* measurement that is cut off there was about to come under the cooldown.
ClockInvariant ==
  /\ corrections \in 0..Corrections
  /\ stamped \subseteq Routes
  /\ measured \in [Routes -> Int] /\ elapsed \in [Routes -> Int]
  /\ gained \in [Routes -> Int] /\ lost \in [Routes -> Int]
  /\ \A r \in Routes :
       /\ measured[r] <= Horizon /\ elapsed[r] \in 0..Horizon
       /\ gained[r] \in 0..Horizon
       /\ lost[r] \in 0..(MaxStep * corrections)
       /\ elapsed[r] <= measured[r] + lost[r]
       /\ measured[r] <= elapsed[r] + gained[r]

\* What is left of the corrections fits below the horizon.
LEMMA HorizonType ==
  /\ Horizon \in Nat /\ Cooldown \in Nat /\ MaxStep \in Nat /\ Corrections \in Nat
  /\ \A k \in 0..Corrections : MaxStep * k \in 0..Horizon
  /\ \A k \in Nat : MaxStep * (k + 1) = MaxStep * k + MaxStep
<1>1. Cooldown \in Nat /\ MaxStep \in Nat /\ Corrections \in Nat
  BY ClockAssumption
<1>2. \A m, n, k \in Nat : k <= n => m * k <= m * n /\ m * k \in Nat /\ m * n \in Nat
  OBVIOUS
<1>3. \A m, k \in Nat : m * (k + 1) = m * k + m
  OBVIOUS
<1>. QED BY <1>1, <1>2, <1>3 DEF Horizon

\* Ages are cut off at the horizon.
LEMMA CappedIs ==
  ASSUME NEW f \in [Routes -> Int], NEW d \in Int
  PROVE  /\ Capped(f, d) \in [Routes -> Int]
         /\ \A r \in Routes :
              Capped(f, d)[r] = IF f[r] + d <= Horizon THEN f[r] + d ELSE Horizon
<1>1. \A r \in Routes : f[r] + d \in Int
  OBVIOUS
<1>. QED BY <1>1, HorizonType, MinPair DEF Capped

\* The invariant holds at first.
LEMMA ClockInitInvariant == ClockInit => ClockInvariant
<1>. SUFFICES ASSUME ClockInit PROVE ClockInvariant
  OBVIOUS
<1>1. MaxStep * 0 = 0 /\ corrections = 0
  BY HorizonType DEF ClockInit
<1>. QED BY <1>1, HorizonType DEF ClockInit, ClockInvariant

\* Every step keeps it.
LEMMA ClockStepInvariant == ClockInvariant /\ [ClockNext]_clockvars => ClockInvariant'
<1>. SUFFICES ASSUME ClockInvariant, [ClockNext]_clockvars PROVE ClockInvariant'
  OBVIOUS
<1>0. MaxStep * corrections \in 0..Horizon /\ corrections \in Nat
  BY HorizonType DEF ClockInvariant
<1>1. ASSUME NEW r \in Routes, Trade(r)
      PROVE  ClockInvariant'
  BY <1>0, <1>1, HorizonType DEF Trade, ClockInvariant
<1>2. CASE Elapse
  <2>1. /\ measured' = Capped(measured, 1) /\ elapsed' = Capped(elapsed, 1)
        /\ UNCHANGED <<stamped, corrections, gained, lost>>
    BY <1>2 DEF Elapse
  <2>2. /\ measured' \in [Routes -> Int] /\ elapsed' \in [Routes -> Int]
        /\ \A r \in Routes :
             /\ measured'[r] = IF measured[r] + 1 <= Horizon THEN measured[r] + 1 ELSE Horizon
             /\ elapsed'[r] = IF elapsed[r] + 1 <= Horizon THEN elapsed[r] + 1 ELSE Horizon
    <3>. DEFINE one == 1
    <3>1. one \in Int /\ measured \in [Routes -> Int] /\ elapsed \in [Routes -> Int]
      BY DEF ClockInvariant
    <3>2. measured' = Capped(measured, one) /\ elapsed' = Capped(elapsed, one)
      BY <2>1
    <3>3. one = 1
      OBVIOUS
    <3>. HIDE DEF one
    <3>4. \A f \in [Routes -> Int] :
            /\ Capped(f, one) \in [Routes -> Int]
            /\ \A r \in Routes :
                 Capped(f, one)[r] = IF f[r] + one <= Horizon THEN f[r] + one ELSE Horizon
      BY <3>1, CappedIs
    <3>. QED BY <3>1, <3>2, <3>3, <3>4
  <2>. QED BY <2>1, <2>2, <1>0, HorizonType DEF ClockInvariant
<1>3. CASE SetClock
  <2>1. corrections \in 0..Corrections /\ corrections < Corrections
        /\ corrections' = corrections + 1
    BY <1>3 DEF SetClock, ClockInvariant
  <2>2. corrections' \in 0..Corrections
    BY <2>1, ClockAssumption
  <2>3. MaxStep * corrections' = MaxStep * corrections + MaxStep
    BY <2>1, <1>0, HorizonType
  <2>4. MaxStep * corrections' \in 0..Horizon
    BY <2>2, HorizonType
  <2>. DEFINE used == MaxStep * corrections
              now == MaxStep * corrections'
  <2>5. /\ used \in Nat /\ now = used + MaxStep /\ now <= Horizon
        /\ \A r \in Routes : lost[r] \in 0..used
    BY <1>0, <2>3, <2>4, HorizonType DEF ClockInvariant
  <2>6. SUFFICES /\ measured' \in [Routes -> Int] /\ gained' \in [Routes -> Int]
                 /\ lost' \in [Routes -> Int]
                 /\ \A r \in Routes :
                      /\ measured'[r] <= Horizon /\ gained'[r] \in 0..Horizon
                      /\ lost'[r] \in 0..now
                      /\ elapsed[r] <= measured'[r] + lost'[r]
                      /\ measured'[r] <= elapsed[r] + gained'[r]
    BY <1>3, <2>2 DEF SetClock, ClockInvariant
  <2>. HIDE DEF used, now
  <2>7. PICK d \in 1..MaxStep :
           \/ /\ measured' = Capped(measured, d) /\ gained' = Capped(gained, d)
              /\ UNCHANGED lost
           \/ /\ measured' = Capped(measured, -d) /\ lost' = Capped(lost, d)
              /\ UNCHANGED gained
    BY <1>3 DEF SetClock
  <2>8. d \in Int /\ -d \in Int /\ d > 0 /\ d <= MaxStep
    BY HorizonType
  <2>9. CASE measured' = Capped(measured, d) /\ gained' = Capped(gained, d) /\ UNCHANGED lost
    <3>1. /\ measured' \in [Routes -> Int] /\ gained' \in [Routes -> Int]
          /\ \A r \in Routes :
               /\ measured'[r] = IF measured[r] + d <= Horizon THEN measured[r] + d ELSE Horizon
               /\ gained'[r] = IF gained[r] + d <= Horizon THEN gained[r] + d ELSE Horizon
      BY <2>8, <2>9, CappedIs DEF ClockInvariant
    <3>. QED BY <2>5, <2>8, <2>9, <3>1, HorizonType DEF ClockInvariant
  <2>10. CASE measured' = Capped(measured, -d) /\ lost' = Capped(lost, d) /\ UNCHANGED gained
    <3>1. /\ measured' \in [Routes -> Int] /\ lost' \in [Routes -> Int]
          /\ \A r \in Routes :
               /\ measured'[r] = IF measured[r] - d <= Horizon THEN measured[r] - d ELSE Horizon
               /\ lost'[r] = IF lost[r] + d <= Horizon THEN lost[r] + d ELSE Horizon
      BY <2>8, <2>10, CappedIs DEF ClockInvariant
    <3>. QED BY <2>5, <2>8, <2>10, <3>1, HorizonType DEF ClockInvariant
  <2>. QED BY <2>7, <2>9, <2>10
<1>4. CASE UNCHANGED clockvars
  BY <1>4 DEF clockvars, ClockInvariant
<1>5. ASSUME NEW r \in Routes, Refuse(r)
      PROVE  ClockInvariant'
  BY <1>4, <1>5 DEF Refuse
<1>. QED BY <1>1, <1>2, <1>3, <1>4, <1>5 DEF ClockNext

\* The invariant of the clock holds for any routes, cooldown and corrections.
LEMMA ClockInvariantHolds == ClockSpec => []ClockInvariant
  BY ClockInitInvariant, ClockStepInvariant, PTL DEF ClockSpec

\* A route that is still closed was traded less than the cooldown ago, but for
\* what the clock was set back since (executor.py:66), however often and in
\* whichever direction it is set.
THEOREM ClosedOnlyByClock == ClockSpec => []ClosedIsExplained
<1>1. ClockInvariant => ClosedIsExplained
  <2>. SUFFICES ASSUME ClockInvariant, NEW r \in stamped, ~ Due(r)
                PROVE  elapsed[r] < Cooldown + lost[r]
    BY DEF ClosedIsExplained
  <2>1. r \in Routes
    BY DEF ClockInvariant
  <2>. QED BY <2>1, HorizonType DEF ClockInvariant, Due, CoolingDown
<1>. QED BY <1>1, ClockInvariantHolds, PTL

\* Two trades of a route are apart by the cooldown, but for what the clock was
\* set forward in between (executor.py:66).
THEOREM PauseOnlyShortenedByClock == ClockSpec => PauseIsShortenedByClockOnly
<1>1. ClockInvariant /\ [ClockNext]_clockvars =>
        [\A r \in stamped : Trade(r) => elapsed[r] + gained[r] >= Cooldown]_clockvars
  <2>. SUFFICES ASSUME ClockInvariant, NEW r \in stamped, Trade(r)
                PROVE  elapsed[r] + gained[r] >= Cooldown
    OBVIOUS
  <2>1. r \in Routes /\ measured[r] >= Cooldown
    BY HorizonType DEF ClockInvariant, Trade, Due, CoolingDown
  <2>. QED BY <2>1, HorizonType DEF ClockInvariant
<1>. QED BY <1>1, ClockInvariantHolds, PTL DEF ClockSpec, PauseIsShortenedByClockOnly

----------------------------------------------------------------------------
(* The walk through an order book *)

\* What a level offers, and the base a share of the quote amount buys there.
Offer(i) == levels[i][1] * levels[i][2]
BaseAt(g, i) == g[i] * PerQuote(levels[i][1])

\* The amount spent is shared out over the valid levels: the levels passed are
\* bought up, but for the last one, and nothing is spent on the others.
Walked(g) ==
  /\ total_quote = SumFunctionOnSet(g, ValidLevels(levels))
  /\ total_base = SumFunctionOnSet([i \in ValidLevels(levels) |-> BaseAt(g, i)],
                                   ValidLevels(levels))
  /\ \A i \in ValidLevels(levels) :
       /\ 0 <= g[i] /\ g[i] <= Offer(i)
       /\ i >= next_level => g[i] = 0
       /\ i < next_level - 1 => g[i] = Offer(i)
       /\ i < next_level /\ ~ done => g[i] = Offer(i)
  /\ done /\ target_quote > 0 =>
       \/ \A i \in ValidLevels(levels) : g[i] = Offer(i)
       \/ total_quote = target_quote /\ next_level - 1 \in ValidLevels(levels)

WalkInvariant ==
  /\ levels \in Seq(Seq(Int)) /\ target_quote \in Int
  /\ next_level \in 1..(Len(levels) + 1)
  /\ done \in BOOLEAN
  /\ total_quote \in Int /\ total_base \in Int
  /\ ~ done => total_quote < target_quote
  /\ target_quote > 0 => total_quote <= target_quote
  /\ \E g \in [ValidLevels(levels) -> Int] : Walked(g)

\* The valid levels, their offers and what they sell.
LEMMA LevelsType ==
  ASSUME levels \in Seq(Seq(Int))
  PROVE  /\ IsFiniteSet(ValidLevels(levels))
         /\ ValidLevels(levels) \subseteq 1..Len(levels)
         /\ \A i \in ValidLevels(levels) :
              /\ levels[i][1] \in Nat \ {0} /\ levels[i][2] \in Nat \ {0}
              /\ Offer(i) \in Nat
              /\ PerQuote(levels[i][1]) \in 0..Unit
<1>1. DOMAIN levels = 1..Len(levels) /\ Len(levels) \in Nat
  OBVIOUS
<1>2. ValidLevels(levels) \subseteq 1..Len(levels)
  BY <1>1 DEF ValidLevels
<1>3. IsFiniteSet(ValidLevels(levels))
  <2>1. IsFiniteSet(1..Len(levels))
    BY <1>1, FS_Interval
  <2>. QED BY <1>2, <2>1, FS_Subset
<1>4. ASSUME NEW i \in ValidLevels(levels)
      PROVE  /\ levels[i][1] \in Nat \ {0} /\ levels[i][2] \in Nat \ {0}
             /\ Offer(i) \in Nat
             /\ PerQuote(levels[i][1]) \in 0..Unit
  <2>1. levels[i] \in Seq(Int) /\ Valid(levels[i])
    BY <1>1 DEF ValidLevels
  <2>2. levels[i][1] \in Nat \ {0} /\ levels[i][2] \in Nat \ {0}
    BY <2>1 DEF Valid
  <2>3. \A x, y \in Nat : x * y \in Nat
    OBVIOUS
  <2>4. \A p \in Nat \ {0} : Unit \div p \in 0..Unit
    <3>1. Unit \in Nat
      BY ImpactAssumption
    <3>. QED BY <3>1, QuotientBelow
  <2>. QED BY <2>2, <2>3, <2>4 DEF Offer, PerQuote
<1>. QED BY <1>2, <1>3, <1>4

\* The dearer a level, the less it sells for one unit of quote.
LEMMA PerQuoteAntitone ==
  ASSUME NEW p \in Nat \ {0}, NEW q \in Nat \ {0}, p <= q
  PROVE  PerQuote(p) >= PerQuote(q)
  BY ImpactAssumption, QuotientAntitone DEF PerQuote

\* At first nothing is spent.
LEMMA WalkInitInvariant == WalkInit => WalkInvariant
<1>. SUFFICES ASSUME WalkInit PROVE WalkInvariant
  OBVIOUS
<1>. DEFINE V == ValidLevels(levels)
            g == [i \in V |-> 0]
            w == [i \in V |-> BaseAt(g, i)]
<1>1. levels \in Seq(Seq(Int)) /\ target_quote \in Int
  <2>1. levels \in Seq(Levels) /\ Levels \subseteq Seq(Int) /\ target_quote \in Int
    BY ImpactAssumption DEF WalkInit
  <2>2. Len(levels) \in Nat /\ levels = [i \in 1..Len(levels) |-> levels[i]]
        /\ \A i \in 1..Len(levels) : levels[i] \in Levels
    BY <2>1
  <2>. QED BY <2>1, <2>2
<1>0. done \in BOOLEAN /\ (done <=> ~ (target_quote > 0))
  <2>. DEFINE none == target_quote <= 0
  <2>1. none <=> ~ (target_quote > 0)
    BY <1>1
  <2>2. done = none /\ none \in BOOLEAN
    BY DEF WalkInit
  <2>. HIDE DEF none
  <2>3. done \in BOOLEAN
    BY <2>2
  <2>4. done <=> none
    BY <2>2, Zenon
  <2>. QED BY <2>1, <2>3, <2>4
<1>2. IsFiniteSet(V)
  BY <1>1, LevelsType
<1>3. \A i \in V : g[i] = 0 /\ w[i] = 0 /\ Offer(i) \in Nat /\ i >= 1
  <2>1. \A x \in Int : 0 * x = 0
    OBVIOUS
  <2>. QED BY <1>1, <2>1, LevelsType DEF BaseAt
<1>4. SumFunctionOnSet(g, V) = 0 /\ SumFunctionOnSet(w, V) = 0
  <2>. DEFINE zero == 0
  <2>1. zero \in Int /\ zero * Cardinality(V) = 0
    BY <1>2, FS_CardinalityType
  <2>2. (\A i \in V : g[i] = zero) /\ (\A i \in V : w[i] = zero)
    BY <1>3
  <2>. HIDE DEF V, g, w, zero
  <2>3. SumFunctionOnSet(g, V) = zero * Cardinality(V)
    BY <1>2, <2>1, <2>2, SumConstant
  <2>4. SumFunctionOnSet(w, V) = zero * Cardinality(V)
    BY <1>2, <2>1, <2>2, SumConstant
  <2>. QED BY <2>1, <2>3, <2>4
<1>5. Walked(g)
  <2>1. next_level = 1 /\ total_quote = 0 /\ total_base = 0
    BY DEF WalkInit
  <2>2. \A i \in V : i \in Int
    BY <1>1, LevelsType
  <2>3. /\ total_quote = SumFunctionOnSet(g, ValidLevels(levels))
        /\ total_base = SumFunctionOnSet([i \in ValidLevels(levels) |-> BaseAt(g, i)],
                                         ValidLevels(levels))
    BY <1>4, <2>1
  <2>. HIDE DEF w, g
  <2>4. \A i \in ValidLevels(levels) :
          /\ 0 <= g[i] /\ g[i] <= Offer(i)
          /\ i >= next_level => g[i] = 0
          /\ i < next_level - 1 => g[i] = Offer(i)
          /\ i < next_level /\ ~ done => g[i] = Offer(i)
    BY <1>3, <2>1, <2>2
  <2>. HIDE DEF V
  <2>. QED BY <1>0, <2>1, <2>3, <2>4 DEF Walked
<1>6. g \in [V -> Int]
  OBVIOUS
<1>7. \E f \in [ValidLevels(levels) -> Int] : Walked(f)
  <2>. HIDE DEF g, w
  <2>. QED BY <1>5, <1>6
<1>8. Len(levels) \in Nat
  BY <1>1
<1>9. next_level = 1 /\ total_quote = 0 /\ total_base = 0
  BY DEF WalkInit
<1>. HIDE DEF V, g, w
<1>. QED BY <1>0, <1>1, <1>7, <1>8, <1>9 DEF WalkInvariant

\* One more share is taken: the others stay.
LEMMA TakeWalked ==
  ASSUME NEW g \in [ValidLevels(levels) -> Int], Walked(g), WalkInvariant, Take
  PROVE  WalkInvariant'
<1>. DEFINE V == ValidLevels(levels)
            n == next_level
            quote == TakeQuote(levels[n])
            v == [i \in V |-> BaseAt(g, i)]
            pq == PerQuote(levels[n][1])
<1>0. /\ levels \in Seq(Seq(Int)) /\ target_quote \in Int /\ n \in 1..(Len(levels) + 1)
      /\ total_quote \in Int /\ total_base \in Int
      /\ total_quote < target_quote /\ ~ done
  BY DEF WalkInvariant, Take
<1>1. /\ n \in V /\ n <= Len(levels) /\ Len(levels) \in Nat
      /\ IsFiniteSet(V) /\ V \subseteq 1..Len(levels)
      /\ \A i \in V : Offer(i) \in Nat /\ PerQuote(levels[i][1]) \in Int
  <2>1. n \in 1..Len(levels) /\ Valid(levels[n])
    BY <1>0 DEF Take
  <2>2. n \in V
    BY <1>0, <2>1 DEF ValidLevels
  <2>3. Unit \in Nat
    BY ImpactAssumption
  <2>. QED BY <1>0, <2>1, <2>2, <2>3, LevelsType
<1>2. /\ total_quote' = total_quote + quote
      /\ total_base' = total_base + quote * pq
      /\ done' = (total_quote' >= target_quote)
      /\ next_level' = n + 1
      /\ levels' = levels /\ target_quote' = target_quote
  BY DEF Take
<1>3. quote = IF Offer(n) <= target_quote - total_quote THEN Offer(n)
              ELSE target_quote - total_quote
  <2>. DEFINE rest == target_quote - total_quote
              offer == Offer(n)
  <2>1. rest \in Int /\ offer \in Int
    BY <1>0, <1>1
  <2>2. quote = Min({offer, rest})
    BY DEF TakeQuote, Offer
  <2>. HIDE DEF quote, rest, offer
  <2>3. quote = IF offer <= rest THEN offer ELSE rest
    BY <2>1, <2>2, MinPair
  <2>. QED BY <2>3 DEF rest, offer
<1>4. /\ quote \in Nat /\ quote <= Offer(n) /\ total_quote + quote <= target_quote
      /\ total_quote + quote < target_quote => quote = Offer(n)
  <2>1. Offer(n) \in Nat
    BY <1>1
  <2>. HIDE DEF quote
  <2>. QED BY <1>0, <1>3, <2>1
<1>. HIDE DEF quote
<1>5. \A i \in V :
        /\ 0 <= g[i] /\ g[i] <= Offer(i)
        /\ i >= n => g[i] = 0
        /\ i < n => g[i] = Offer(i)
  BY <1>0 DEF Walked
<1>6. PICK h \in [V -> Int] : h[n] = quote /\ \A i \in V \ {n} : h[i] = g[i]
  <2>1. [g EXCEPT ![n] = quote] \in [V -> Int]
    BY <1>1, <1>4
  <2>2. /\ [g EXCEPT ![n] = quote][n] = quote
        /\ \A i \in V \ {n} : [g EXCEPT ![n] = quote][i] = g[i]
    BY <1>1
  <2>. QED BY <2>1, <2>2
<1>. DEFINE w == [i \in V |-> BaseAt(h, i)]
<1>7. SumFunctionOnSet(h, V) = total_quote + quote
  <2>0. g[n] = 0
    BY <1>0, <1>1, <1>5
  <2>1. h[n] = g[n] + quote /\ quote \in Int
    BY <1>4, <1>6, <2>0
  <2>2. \A i \in V : g[i] \in Int
    OBVIOUS
  <2>3. SumFunctionOnSet(h, V) = SumFunctionOnSet(g, V) + quote
    BY <1>1, <1>6, <2>1, <2>2, SumShift
  <2>. QED BY <2>3 DEF Walked
<1>8. SumFunctionOnSet(w, V) = total_base + quote * pq
  <2>1. pq \in Int /\ quote * pq \in Int
    BY <1>1, <1>4
  <2>2. \A i \in V : v[i] \in Int
    BY <1>1 DEF BaseAt
  <2>3. w[n] = v[n] + quote * pq
    <3>1. w[n] = quote * pq
      BY <1>1, <1>6 DEF BaseAt
    <3>2. v[n] = 0 * pq /\ 0 * pq = 0
      BY <1>0, <1>1, <1>5, <2>1 DEF BaseAt
    <3>. QED BY <2>1, <3>1, <3>2
  <2>4. \A i \in V \ {n} : w[i] = v[i]
    BY <1>6 DEF BaseAt
  <2>5. total_base = SumFunctionOnSet(v, V)
    BY DEF Walked
  <2>. DEFINE gain == quote * pq
  <2>6. gain \in Int /\ v[n] \in Int /\ w[n] = v[n] + gain
    BY <1>1, <2>1, <2>2, <2>3
  <2>. HIDE DEF v, w, V, gain, n
  <2>7. w[n] \in Int /\ w[n] - v[n] = gain
    BY <2>6
  <2>8. n \in V /\ IsFiniteSet(V)
    BY <1>1
  <2>9. SumFunctionOnSet(w, V) = SumFunctionOnSet(v, V) + (w[n] - v[n])
    <3>1. PICK a, b, S, e : a = v /\ b = w /\ S = V /\ e = n
      OBVIOUS
    <3>2. /\ e \in S
          /\ IsFiniteSet(S)
      BY <2>8, <3>1
    <3>3. b[e] \in Int
      BY <2>7, <3>1
    <3>4. \A i \in S : a[i] \in Int
      BY <2>2, <3>1
    <3>5. \A i \in S \ {e} : b[i] = a[i]
      BY <2>4, <3>1
    <3>6. SumFunctionOnSet(b, S) = SumFunctionOnSet(a, S) + (b[e] - a[e])
      BY <3>2, <3>3, <3>4, <3>5, SumChange
    <3>. QED BY <3>1, <3>6
  <2>. QED BY <2>5, <2>7, <2>9 DEF gain
<1>9. done' \in BOOLEAN /\ (done' <=> ~ (total_quote' < target_quote))
  <2>. DEFINE full == total_quote' >= target_quote
  <2>1. full <=> ~ (total_quote' < target_quote)
    BY <1>0, <1>2, <1>4
  <2>2. done' = full /\ full \in BOOLEAN
    BY <1>2
  <2>. HIDE DEF full
  <2>3. done' \in BOOLEAN
    BY <2>2
  <2>4. done' <=> full
    BY <2>2, Zenon
  <2>. QED BY <2>1, <2>3, <2>4
<1>10. /\ ValidLevels(levels)' = V
       /\ \A i : Offer(i)' = Offer(i)
       /\ [i \in ValidLevels(levels) |-> BaseAt(h, i)]' = w
  BY <1>2 DEF ValidLevels, Offer, BaseAt
<1>11. \A i \in V :
         /\ 0 <= h[i] /\ h[i] <= Offer(i)
         /\ i >= n + 1 => h[i] = 0
         /\ i < (n + 1) - 1 => h[i] = Offer(i)
         /\ i < n + 1 /\ ~ done' => h[i] = Offer(i)
  <2>. TAKE i \in V
  <2>1. i \in Int /\ n \in Int
    BY <1>0, <1>1
  <2>2. CASE i = n
    BY <1>2, <1>4, <1>6, <1>9, <2>1, <2>2
  <2>3. CASE i # n
    BY <1>5, <1>6, <2>1, <2>3
  <2>. QED BY <2>2, <2>3
<1>12. done' => total_quote' = target_quote /\ next_level' - 1 \in V
  BY <1>0, <1>1, <1>2, <1>4, <1>9
<1>13. Walked(h)'
  <2>. HIDE DEF w, V, n
  <2>1. /\ total_quote' = SumFunctionOnSet(h, ValidLevels(levels)')
        /\ total_base' = SumFunctionOnSet([i \in ValidLevels(levels) |-> BaseAt(h, i)]',
                                          ValidLevels(levels)')
    BY <1>2, <1>7, <1>8, <1>10
  <2>2. \A i \in ValidLevels(levels)' :
          /\ 0 <= h[i] /\ h[i] <= Offer(i)'
          /\ i >= next_level' => h[i] = 0
          /\ i < next_level' - 1 => h[i] = Offer(i)'
          /\ i < next_level' /\ ~ done' => h[i] = Offer(i)'
    BY <1>2, <1>10, <1>11 DEF n
  <2>3. done' => total_quote' = target_quote' /\ next_level' - 1 \in ValidLevels(levels)'
    BY <1>2, <1>10, <1>12
  <2>. QED BY <2>1, <2>2, <2>3 DEF Walked
<1>14. /\ next_level' \in 1..(Len(levels') + 1)
       /\ total_quote' \in Int /\ total_base' \in Int
       /\ total_quote' <= target_quote'
  <2>1. quote * pq \in Int
    BY <1>1, <1>4
  <2>2. Len(levels) \in Nat /\ n \in Int /\ n <= Len(levels) /\ n >= 1
    BY <1>0, <1>1
  <2>3. next_level' \in 1..(Len(levels') + 1)
    BY <1>2, <2>2
  <2>4. quote \in Int /\ total_quote \in Int /\ total_base \in Int
        /\ total_quote + quote <= target_quote
    BY <1>0, <1>4
  <2>. DEFINE base == quote * pq
  <2>5. total_base' = total_base + base /\ base \in Int
    BY <1>2, <2>1
  <2>. HIDE DEF base
  <2>. QED BY <1>2, <2>3, <2>4, <2>5
<1>15. \E f \in [ValidLevels(levels)' -> Int] : Walked(f)'
  <2>. HIDE DEF V
  <2>. QED BY <1>6, <1>10, <1>13
<1>. HIDE DEF V, n, w
<1>. QED BY <1>0, <1>2, <1>9, <1>14, <1>15 DEF WalkInvariant

\* Every step keeps the invariant.
LEMMA WalkStepInvariant == WalkInvariant /\ [WalkNext]_walkvars => WalkInvariant'
<1>. SUFFICES ASSUME WalkInvariant, [WalkNext]_walkvars PROVE WalkInvariant'
  OBVIOUS
<1>1. PICK g \in [ValidLevels(levels) -> Int] : Walked(g)
  BY DEF WalkInvariant
<1>2. CASE Skip
  <2>1. /\ ~ done /\ ~ done' /\ next_level' = next_level + 1 /\ next_level <= Len(levels)
        /\ UNCHANGED <<levels, target_quote, total_quote, total_base, done>>
        /\ next_level \in 1..(Len(levels) + 1) /\ Len(levels) \in Nat
    BY <1>2 DEF Skip, WalkInvariant
  <2>2. /\ next_level \notin ValidLevels(levels)
        /\ \A i \in ValidLevels(levels) : i \in Int
    BY <1>2, LevelsType DEF Skip, ValidLevels, WalkInvariant
  <2>3. \A i \in ValidLevels(levels) :
          /\ 0 <= g[i] /\ g[i] <= Offer(i)
          /\ i >= next_level' => g[i] = 0
          /\ i < next_level' => g[i] = Offer(i)
    BY <1>1, <2>1, <2>2 DEF Walked
  <2>4. /\ ValidLevels(levels)' = ValidLevels(levels)
        /\ \A i : Offer(i)' = Offer(i) /\ BaseAt(g, i)' = BaseAt(g, i)
    BY <2>1 DEF ValidLevels, Offer, BaseAt
  <2>5. Walked(g)'
    BY <1>1, <2>1, <2>2, <2>3, <2>4 DEF Walked
  <2>. QED BY <2>1, <2>4, <2>5 DEF WalkInvariant
<1>3. CASE Take
  BY <1>1, <1>3, TakeWalked
<1>4. CASE EndOfBook
  <2>1. /\ ~ done /\ done' /\ next_level > Len(levels) /\ done' \in BOOLEAN
        /\ UNCHANGED <<levels, target_quote, next_level, total_quote, total_base>>
        /\ next_level \in 1..(Len(levels) + 1) /\ Len(levels) \in Nat
    BY <1>4 DEF EndOfBook, WalkInvariant
  <2>2. \A i \in ValidLevels(levels) : i \in Int /\ i < next_level
    BY <2>1, LevelsType DEF WalkInvariant
  <2>3. \A i \in ValidLevels(levels) : g[i] = Offer(i) /\ 0 <= g[i]
    BY <1>1, <2>1, <2>2 DEF Walked
  <2>4. /\ ValidLevels(levels)' = ValidLevels(levels)
        /\ \A i : Offer(i)' = Offer(i) /\ BaseAt(g, i)' = BaseAt(g, i)
    BY <2>1 DEF ValidLevels, Offer, BaseAt
  <2>5. Walked(g)'
    BY <1>1, <2>1, <2>2, <2>3, <2>4 DEF Walked
  <2>. QED BY <2>1, <2>4, <2>5 DEF WalkInvariant
<1>5. CASE UNCHANGED walkvars
  <2>1. UNCHANGED <<levels, target_quote, next_level, total_quote, total_base, done>>
    BY <1>5 DEF walkvars
  <2>2. /\ ValidLevels(levels)' = ValidLevels(levels)
        /\ \A i : Offer(i)' = Offer(i) /\ BaseAt(g, i)' = BaseAt(g, i)
    BY <2>1 DEF ValidLevels, Offer, BaseAt
  <2>3. Walked(g)'
    BY <1>1, <2>1, <2>2 DEF Walked
  <2>. QED BY <2>1, <2>2, <2>3 DEF WalkInvariant
<1>. QED BY <1>2, <1>3, <1>4, <1>5 DEF WalkNext

\* The invariant of the walk holds for any books, targets and unit.
LEMMA WalkInvariantHolds == WalkSpec => []WalkInvariant
  BY WalkInitInvariant, WalkStepInvariant, PTL DEF WalkSpec

\* The order spends the target or the whole book.
LEMMA SpendsMost ==
  ASSUME WalkInvariant, done, target_quote > 0
  PROVE  total_quote = Min({target_quote, BookQuote(levels)})
<1>. DEFINE V == ValidLevels(levels)
            c == [i \in V |-> levels[i][1] * levels[i][2]]
            whole == SumFunctionOnSet(c, V)
<1>1. PICK g \in [V -> Int] : Walked(g)
  BY DEF WalkInvariant
<1>2. /\ IsFiniteSet(V)
      /\ \A i \in V : c[i] \in Int /\ c[i] = Offer(i)
  <2>1. levels \in Seq(Seq(Int))
    BY DEF WalkInvariant
  <2>2. \A i \in V : c[i] = Offer(i)
    BY DEF Offer
  <2>. QED BY <2>1, <2>2, LevelsType
<1>3. BookQuote(levels) = whole
  BY DEF BookQuote, SumFunction
<1>4. \A i \in V : g[i] \in Int /\ g[i] <= c[i]
  BY <1>1, <1>2 DEF Walked
<1>5. total_quote = SumFunctionOnSet(g, V)
  BY <1>1 DEF Walked
<1>6. (\A i \in V : g[i] = c[i]) \/ total_quote = target_quote
  BY <1>1, <1>2 DEF Walked
<1>7. total_quote \in Int /\ target_quote \in Int /\ total_quote <= target_quote
  BY DEF WalkInvariant
<1>. HIDE DEF V, c
<1>8. SumFunctionOnSet(g, V) <= whole
  BY <1>2, <1>4, SumMonotone
<1>9. whole \in Int
  BY <1>2, SumType
<1>10. (\A i \in V : g[i] = c[i]) => SumFunctionOnSet(g, V) = whole
  BY <1>2, SumSame
<1>. HIDE DEF whole
<1>11. Min({target_quote, whole}) = IF target_quote <= whole THEN target_quote ELSE whole
  BY <1>7, <1>9, MinPair
<1>. QED BY <1>3, <1>5, <1>6, <1>7, <1>8, <1>9, <1>10, <1>11

\* Every other way to spend the amount is a sharing out like the walk's.
LEMMA SpendingType ==
  ASSUME levels \in Seq(Seq(Int)), NEW f \in Spendings(levels)
  PROVE  /\ DOMAIN f = ValidLevels(levels)
         /\ \A i \in ValidLevels(levels) : f[i] \in Nat /\ f[i] <= Offer(i)
         /\ SumFunctionOnSet(f, ValidLevels(levels)) = total_quote
         /\ BaseOf(levels, f)
              = SumFunctionOnSet([i \in ValidLevels(levels) |-> BaseAt(f, i)],
                                 ValidLevels(levels))
<1>1. /\ f \in [ValidLevels(levels) -> 0..target_quote]
      /\ \A i \in ValidLevels(levels) : f[i] <= levels[i][1] * levels[i][2]
      /\ SumFunction(f) = total_quote
  BY DEF Spendings
<1>2. DOMAIN f = ValidLevels(levels)
  BY <1>1
<1>3. \A i \in ValidLevels(levels) : f[i] \in Nat /\ f[i] <= Offer(i)
  BY <1>1 DEF Offer
<1>4. SumFunctionOnSet(f, ValidLevels(levels)) = total_quote
  BY <1>1, <1>2 DEF SumFunction
<1>5. BaseOf(levels, f)
        = SumFunctionOnSet([i \in ValidLevels(levels) |-> BaseAt(f, i)], ValidLevels(levels))
  BY <1>2 DEF BaseOf, SumFunction, BaseAt
<1>. QED BY <1>2, <1>3, <1>4, <1>5

\* On a sorted side the levels walked through sell at a rate at least as good,
\* the levels left alone at a rate at most as good, as that of some rate.
LEMMA RateBetween ==
  ASSUME WalkInvariant, done, target_quote > 0,
         NEW g \in [ValidLevels(levels) -> Int], Walked(g)
  PROVE  /\ Ascending(levels) =>
              \E rate \in Int : \A i \in ValidLevels(levels) :
                \/ g[i] = Offer(i) /\ PerQuote(levels[i][1]) >= rate
                \/ g[i] = 0 /\ PerQuote(levels[i][1]) <= rate
                \/ PerQuote(levels[i][1]) = rate
         /\ Descending(levels) =>
              \E rate \in Int : \A i \in ValidLevels(levels) :
                \/ g[i] = Offer(i) /\ PerQuote(levels[i][1]) <= rate
                \/ g[i] = 0 /\ PerQuote(levels[i][1]) >= rate
                \/ PerQuote(levels[i][1]) = rate
<1>. DEFINE V == ValidLevels(levels)
            k == next_level - 1
<1>1. /\ V \subseteq Int /\ Unit \in Int
      /\ \A i \in V : /\ levels[i][1] \in Nat \ {0}
                      /\ PerQuote(levels[i][1]) \in 0..Unit
  <2>1. levels \in Seq(Seq(Int)) /\ Unit \in Int
    BY ImpactAssumption DEF WalkInvariant
  <2>. QED BY <2>1, LevelsType
<1>2. CASE \A i \in V : g[i] = Offer(i)
  <2>1. \A i \in V : g[i] = Offer(i) /\ PerQuote(levels[i][1]) >= 0
    BY <1>1, <1>2
  <2>2. \A i \in V : g[i] = Offer(i) /\ PerQuote(levels[i][1]) <= Unit
    BY <1>1, <1>2
  <2>. QED BY <1>1, <2>1, <2>2
<1>3. CASE k \in V
  <2>1. k \in Int /\ next_level = k + 1
    BY DEF WalkInvariant
  <2>. DEFINE rate == PerQuote(levels[k][1])
  <2>2. rate \in Int
    BY <1>1, <1>3
  <2>3. \A i \in V : (i < k => g[i] = Offer(i)) /\ (i > k => g[i] = 0)
    BY <1>1, <2>1 DEF Walked
  <2>4. \A i \in V : i = k => PerQuote(levels[i][1]) = rate
    OBVIOUS
  <2>5. ASSUME Ascending(levels), NEW i \in V
        PROVE  /\ i < k => PerQuote(levels[i][1]) >= rate
               /\ i > k => PerQuote(levels[i][1]) <= rate
    <3>1. /\ i < k => levels[i][1] <= levels[k][1]
          /\ i > k => levels[k][1] <= levels[i][1]
      BY <1>3, <2>5, <1>1, <2>1 DEF Ascending
    <3>2. /\ i < k => PerQuote(levels[i][1]) >= PerQuote(levels[k][1])
          /\ i > k => PerQuote(levels[k][1]) >= PerQuote(levels[i][1])
      BY <1>1, <1>3, <3>1, PerQuoteAntitone
    <3>3. PerQuote(levels[i][1]) \in Int
      BY <1>1
    <3>. QED BY <2>2, <3>2, <3>3
  <2>6. ASSUME Descending(levels), NEW i \in V
        PROVE  /\ i < k => PerQuote(levels[i][1]) <= rate
               /\ i > k => PerQuote(levels[i][1]) >= rate
    <3>1. /\ i < k => levels[k][1] <= levels[i][1]
          /\ i > k => levels[i][1] <= levels[k][1]
      BY <1>3, <2>6, <1>1, <2>1 DEF Descending
    <3>2. /\ i < k => PerQuote(levels[k][1]) >= PerQuote(levels[i][1])
          /\ i > k => PerQuote(levels[i][1]) >= PerQuote(levels[k][1])
      BY <1>1, <1>3, <3>1, PerQuoteAntitone
    <3>3. PerQuote(levels[i][1]) \in Int
      BY <1>1
    <3>. QED BY <2>2, <3>2, <3>3
  <2>7. \A i \in V : i < k \/ i > k \/ i = k
    BY <1>1, <2>1
  <2>. HIDE DEF rate, k
  <2>. QED BY <2>2, <2>3, <2>4, <2>5, <2>6, <2>7
<1>4. (\A i \in V : g[i] = Offer(i)) \/ k \in V
  BY DEF Walked
<1>. QED BY <1>2, <1>3, <1>4

\* A share moved from a good level to a bad one loses base, whichever way.
LEMMA SharesCompare ==
  ASSUME NEW a \in Int, NEW b \in Int, NEW p \in Int, NEW rate \in Int,
         (a >= b /\ p >= rate) \/ (a <= b /\ p <= rate) \/ p = rate
  PROVE  /\ a * p \in Int /\ b * p \in Int
         /\ a * p - b * p >= rate * (a - b)
<1>. DEFINE d == a - b
            e == p - rate
<1>1. a * p - b * p = rate * d + d * e
  OBVIOUS
<1>2. d \in Int /\ e \in Int /\ ((d >= 0 /\ e >= 0) \/ (d <= 0 /\ e <= 0) \/ e = 0)
  OBVIOUS
<1>3. a * p \in Int /\ b * p \in Int /\ rate * d \in Int
  OBVIOUS
<1>. HIDE DEF d, e
<1>4. d * e >= 0 /\ d * e \in Int
  BY <1>2
<1>5. a * p - b * p >= rate * d
  BY <1>1, <1>3, <1>4
<1>. QED BY <1>3, <1>5 DEF d

\* No other way to spend the amount does better.
LEMMA SpendsBest ==
  ASSUME WalkInvariant, done, target_quote > 0, NEW f \in Spendings(levels)
  PROVE  /\ Ascending(levels) => BaseOf(levels, f) <= total_base
         /\ Descending(levels) => BaseOf(levels, f) >= total_base
<1>. DEFINE V == ValidLevels(levels)
            v == [i \in V |-> BaseAt(f, i)]
<1>1. PICK g \in [V -> Int] : Walked(g)
  BY DEF WalkInvariant
<1>. DEFINE w == [i \in V |-> BaseAt(g, i)]
<1>2. /\ levels \in Seq(Seq(Int)) /\ IsFiniteSet(V)
      /\ \A i \in V : PerQuote(levels[i][1]) \in Int
  <2>1. levels \in Seq(Seq(Int)) /\ Unit \in Int
    BY ImpactAssumption DEF WalkInvariant
  <2>. QED BY <2>1, LevelsType
<1>3. /\ \A i \in V : f[i] \in Int /\ 0 <= f[i] /\ f[i] <= Offer(i)
      /\ SumFunctionOnSet(f, V) = total_quote
      /\ BaseOf(levels, f) = SumFunctionOnSet(v, V)
  <2>1. \A i \in V : f[i] \in Nat /\ f[i] <= Offer(i)
    BY <1>2, SpendingType
  <2>2. SumFunctionOnSet(f, V) = total_quote
    BY <1>2, SpendingType
  <2>3. BaseOf(levels, f) = SumFunctionOnSet(v, V)
    BY <1>2, SpendingType
  <2>. HIDE DEF V, v
  <2>. QED BY <2>1, <2>2, <2>3
<1>4. /\ SumFunctionOnSet(g, V) = total_quote
      /\ SumFunctionOnSet(w, V) = total_base
      /\ \A i \in V : g[i] \in Int /\ 0 <= g[i] /\ g[i] <= Offer(i)
  BY <1>1 DEF Walked
<1>5. \A i \in V : /\ v[i] = f[i] * PerQuote(levels[i][1])
                   /\ w[i] = g[i] * PerQuote(levels[i][1])
  BY DEF BaseAt
<1>6. /\ Ascending(levels) =>
           \E rate \in Int : \A i \in V :
             \/ g[i] = Offer(i) /\ PerQuote(levels[i][1]) >= rate
             \/ g[i] = 0 /\ PerQuote(levels[i][1]) <= rate
             \/ PerQuote(levels[i][1]) = rate
      /\ Descending(levels) =>
           \E rate \in Int : \A i \in V :
             \/ g[i] = Offer(i) /\ PerQuote(levels[i][1]) <= rate
             \/ g[i] = 0 /\ PerQuote(levels[i][1]) >= rate
             \/ PerQuote(levels[i][1]) = rate
  BY <1>1, RateBetween
<1>. HIDE DEF V, v, w
<1>7. ASSUME Ascending(levels)
      PROVE  SumFunctionOnSet(v, V) <= SumFunctionOnSet(w, V)
  <2>1. PICK rate \in Int : \A i \in V :
          \/ g[i] = Offer(i) /\ PerQuote(levels[i][1]) >= rate
          \/ g[i] = 0 /\ PerQuote(levels[i][1]) <= rate
          \/ PerQuote(levels[i][1]) = rate
    BY <1>6, <1>7
  <2>2. ASSUME NEW i \in V
        PROVE  /\ v[i] \in Int /\ w[i] \in Int
               /\ w[i] - v[i] >= rate * (g[i] - f[i])
    <3>. DEFINE p == PerQuote(levels[i][1])
                a == g[i]
                b == f[i]
    <3>1. /\ a \in Int /\ b \in Int /\ p \in Int
          /\ (a >= b /\ p >= rate) \/ (a <= b /\ p <= rate) \/ p = rate
          /\ v[i] = b * p /\ w[i] = a * p
      BY <1>2, <1>3, <1>4, <1>5, <2>1
    <3>. HIDE DEF p, a, b
    <3>2. /\ a * p \in Int /\ b * p \in Int
          /\ a * p - b * p >= rate * (a - b)
      BY <3>1, SharesCompare
    <3>. QED BY <3>1, <3>2 DEF a, b
  <2>. QED BY <1>2, <1>3, <1>4, <2>2, SumExchange
<1>8. ASSUME Descending(levels)
      PROVE  SumFunctionOnSet(w, V) <= SumFunctionOnSet(v, V)
  <2>1. PICK rate \in Int : \A i \in V :
          \/ g[i] = Offer(i) /\ PerQuote(levels[i][1]) <= rate
          \/ g[i] = 0 /\ PerQuote(levels[i][1]) >= rate
          \/ PerQuote(levels[i][1]) = rate
    BY <1>6, <1>8
  <2>2. ASSUME NEW i \in V
        PROVE  /\ v[i] \in Int /\ w[i] \in Int
               /\ v[i] - w[i] >= rate * (f[i] - g[i])
    <3>. DEFINE p == PerQuote(levels[i][1])
                a == f[i]
                b == g[i]
    <3>1. /\ a \in Int /\ b \in Int /\ p \in Int
          /\ (a >= b /\ p >= rate) \/ (a <= b /\ p <= rate) \/ p = rate
          /\ v[i] = a * p /\ w[i] = b * p
      BY <1>2, <1>3, <1>4, <1>5, <2>1
    <3>. HIDE DEF p, a, b
    <3>2. /\ a * p \in Int /\ b * p \in Int
          /\ a * p - b * p >= rate * (a - b)
      BY <3>1, SharesCompare
    <3>. QED BY <3>1, <3>2 DEF a, b
  <2>. QED BY <1>2, <1>3, <1>4, <2>2, SumExchange
<1>9. /\ \A i \in V : v[i] \in Int /\ w[i] \in Int
      /\ total_base \in Int
  <2>1. \A x, y \in Int : x * y \in Int
    OBVIOUS
  <2>. QED BY <1>2, <1>3, <1>4, <1>5, <2>1 DEF WalkInvariant
<1>10. SumFunctionOnSet(v, V) \in Int
  BY <1>2, <1>9, SumType
<1>. QED BY <1>3, <1>4, <1>7, <1>8, <1>9, <1>10

\* exchanges.py:245-275: for any book, target and precision the walk spends the
\* target or the whole book, and on a sorted side no other way to spend as much
\* does better.
THEOREM WalkFillsBest == WalkSpec => []BestFill
<1>1. WalkInvariant => BestFill
  BY SpendsMost, SpendsBest DEF BestFill
<1>. QED BY <1>1, WalkInvariantHolds, PTL
=============================================================================

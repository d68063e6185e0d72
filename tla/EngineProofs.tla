----------------------------- MODULE EngineProofs -----------------------------
(***************************************************************************)
(* What the scanner promises for every market, fee, slippage and threshold *)
(* of a configuration: what it hands to the executor, in which order, how  *)
(* far its slippage averages can move, and that the statistics of a scan   *)
(* account for every row and pair.                                         *)
(***************************************************************************)
EXTENDS OpportunityEngine, IntegerLemmas, SequenceTheorems

----------------------------------------------------------------------------
(* Maxima and divisions *)

\* The largest of three integers is one of them.
LEMMA MaxOfThree ==
  ASSUME NEW x \in Int, NEW y \in Int, NEW z \in Int
  PROVE  Max({x, y, z}) \in {x, y, z}
<1>1. PICK m \in {x, y, z} : \A n \in {x, y, z} : m >= n
  <2>1. CASE x >= y /\ x >= z
    BY <2>1
  <2>2. CASE y >= x /\ y >= z
    BY <2>2
  <2>3. CASE z >= x /\ z >= y
    BY <2>3
  <2>. QED BY <2>1, <2>2, <2>3
<1>. QED BY <1>1 DEF Max

\* A natural divided by a positive one.
LEMMA Quotient ==
  ASSUME NEW v \in Nat, NEW n \in Nat \ {0}
  PROVE  /\ v \div n \in Nat
         /\ n * (v \div n) <= v
         /\ v >= n => v \div n >= 1
OBVIOUS

\* An integer divided by a positive number is rounded down.
LEMMA Floor ==
  ASSUME NEW u \in Int, NEW n \in Nat \ {0}
  PROVE  u \div n \in Int /\ n * (u \div n) <= u /\ u < n * (u \div n) + n
OBVIOUS

\* A positive number of something positive is positive.
LEMMA PositiveProduct ==
  ASSUME NEW q \in Nat \ {0}, NEW v \in Int, v > 0
  PROVE  q * v > 0
OBVIOUS

\* The new average lies between the old one and the observation.
LEMMA AverageBetween ==
  ASSUME NEW prev \in Nat, NEW observed \in Nat
  PROVE  /\ Average(prev, observed) \in Nat
         /\ \/ prev <= Average(prev, observed) /\ Average(prev, observed) <= observed
            \/ observed <= Average(prev, observed) /\ Average(prev, observed) <= prev
<1>. DEFINE q == (observed + 3 * prev) \div 4
<1>1. /\ q \in Nat
      /\ (prev <= q /\ q <= observed) \/ (observed <= q /\ q <= prev)
  OBVIOUS
<1>2. Average(prev, observed) = q
  <2>. HIDE DEF q
  <2>1. Max({0, q}) = q
    BY <1>1, MaxPair
  <2>. QED BY <2>1 DEF Average, q
<1>. HIDE DEF q
<1>. QED BY <1>1, <1>2

----------------------------------------------------------------------------
(* The rows of the market *)

\* Prices are positive and the slippage observed is not negative.
LEMMA RowFields ==
  ASSUME NEW row \in Rows
  PROVE  /\ row.bid \in 1..CapitalPerTrade /\ row.ask \in 1..CapitalPerTrade
         /\ TakerBuyPrice(row) \in 1..CapitalPerTrade
         /\ TakerSellPrice(row) \in Nat \ {0}
         /\ ObservedBuying(row) \in Nat /\ ObservedSelling(row) \in Nat
<1>0. Scale \in Nat \ {0} /\ CapitalPerTrade \in Nat \ {0}
  BY EngineAssumption
<1>1. /\ row.bid \in 1..CapitalPerTrade /\ row.ask \in 1..CapitalPerTrade
      /\ row.bid_depth_price \in Nat /\ row.ask_depth_price \in 0..CapitalPerTrade
  BY SnapshotAssumption
<1>2. TakerBuyPrice(row) \in 1..CapitalPerTrade /\ TakerSellPrice(row) \in Nat \ {0}
  BY <1>0, <1>1 DEF TakerBuyPrice, TakerSellPrice
<1>3. \A v \in Int : Max({0, v}) \in Nat
  BY MaxPair
<1>4. /\ ((TakerBuyPrice(row) - row.ask) * Scale) \div row.ask \in Int
      /\ ((row.bid - TakerSellPrice(row)) * Scale) \div row.bid \in Int
  BY <1>0, <1>1, <1>2
<1>5. ObservedBuying(row) \in Nat
  BY <1>3, <1>4 DEF ObservedBuying
<1>6. ObservedSelling(row) \in Nat
  BY <1>3, <1>4 DEF ObservedSelling
<1>. QED BY <1>1, <1>2, <1>5, <1>6

\* The slippage taken into account is not negative.
LEMMA SlippageType ==
  ASSUME NEW ewma \in [Exchanges -> Nat], NEW x \in Exchanges, NEW observed \in Nat
  PROVE  SelectSlippage(ewma, x, observed) \in Nat
<1>0. SlippagePct \in Int
  BY EngineAssumption
<1>1. BaseSlippage \in Nat
  BY <1>0, MaxPair DEF BaseSlippage
<1>. QED BY <1>1, MaxOfThree DEF SelectSlippage

\* Prices of a trade are positive, and it fits the capital; its rates are not
\* negative.
LEMMA TermsType ==
  ASSUME NEW ewma \in [Exchanges -> Nat], NEW x \in Exchanges, NEW buy \in Rows,
         NEW y \in Exchanges, NEW sell \in Rows
  PROVE  LET t == Terms(ewma, x, buy, y, sell)
         IN  /\ t.buy_price \in 1..CapitalPerTrade /\ t.sell_price \in Nat \ {0}
             /\ t.buy_fee \in Nat /\ t.sell_fee \in Nat
             /\ t.buy_slippage \in Nat /\ t.sell_slippage \in Nat
<1>1. /\ FeesTaker[x] \in Nat /\ FeesTaker[y] \in Nat
      /\ FeesMaker[x] \in Nat /\ FeesMaker[y] \in Nat
      /\ CapitalPerTrade \in Nat
  BY EngineAssumption
<1>2. /\ buy.bid \in 1..CapitalPerTrade /\ sell.ask \in 1..CapitalPerTrade
      /\ TakerBuyPrice(buy) \in 1..CapitalPerTrade
      /\ TakerSellPrice(sell) \in Nat \ {0}
  BY RowFields
<1>3. /\ SelectSlippage(ewma, x, ObservedBuying(buy)) \in Nat
      /\ SelectSlippage(ewma, y, ObservedSelling(sell)) \in Nat
  BY RowFields, SlippageType
<1>. QED BY <1>1, <1>2, <1>3 DEF Terms

----------------------------------------------------------------------------
(* The size of a trade *)

\* The smallest of the limits that are not zero.
LEMMA SmallestLimit ==
  ASSUME NEW V, V \subseteq Nat, NEW v \in V, v > 0
  PROVE  /\ min_nonzero(V) \in Nat \ {0}
         /\ \A w \in V : w > 0 => min_nonzero(V) <= w
<1>. DEFINE C == {w \in V : w > 0}
<1>1. C \subseteq Nat /\ C # {}
  OBVIOUS
<1>2. PICK m \in C : \A n \in C : m <= n
  BY <1>1, SmallestOf
<1>3. min_nonzero(V) = Min(C)
  BY <1>1 DEF min_nonzero
<1>4. C \subseteq Int /\ \A w \in V : w > 0 => w \in C
  BY <1>1
<1>. HIDE DEF C
<1>5. Min(C) = m
  BY <1>2, <1>4, MinIs
<1>6. m \in Nat \ {0}
  BY <1>2 DEF C
<1>. QED BY <1>2, <1>3, <1>4, <1>5, <1>6

\* A trade is of a positive size, within the position limit, the capital of a
\* trade and every volume that is known.
LEMMA QuantityIs ==
  ASSUME NEW t, t.buy_price \in 1..CapitalPerTrade, NEW buy \in Rows, NEW sell \in Rows
  PROVE  LET q == Quantity(t, buy, sell)
         IN  /\ q \in 1..MaxPosition
             /\ q * t.buy_price <= CapitalPerTrade
             /\ \A v \in Volumes(buy, sell) : v > 0 => q <= v
<1>. DEFINE p == t.buy_price
            c == CapitalPerTrade \div p
            V == SizeLimits(t, buy, sell)
            q == Quantity(t, buy, sell)
<1>1. CapitalPerTrade \in Nat \ {0} /\ MaxPosition \in Nat \ {0}
  BY EngineAssumption
<1>2. c \in Nat /\ p * c <= CapitalPerTrade /\ c >= 1 /\ p \in Nat \ {0}
  BY <1>1, Quotient
<1>3. Volumes(buy, sell) \subseteq Nat
  BY SnapshotAssumption DEF Volumes
<1>4. V = {c, MaxPosition} \cup Volumes(buy, sell)
  BY DEF SizeLimits
<1>. HIDE DEF c, V
<1>5. V \subseteq Nat /\ c \in V /\ c > 0 /\ MaxPosition \in V /\ MaxPosition > 0
  BY <1>1, <1>2, <1>3, <1>4
<1>6. /\ min_nonzero(V) \in Nat \ {0}
      /\ \A w \in V : w > 0 => min_nonzero(V) <= w
  BY <1>5, SmallestLimit
<1>7. q = min_nonzero(V)
  BY DEF Quantity, V
<1>. HIDE DEF q, p
<1>8. q \in Nat \ {0} /\ q <= c /\ q <= MaxPosition
  BY <1>6, <1>7, <1>5
<1>9. \A v \in Volumes(buy, sell) : v > 0 => q <= v
  BY <1>4, <1>6, <1>7
<1>10. q * p <= c * p
  BY <1>2, <1>8
<1>11. q * p <= CapitalPerTrade
  BY <1>1, <1>2, <1>8, <1>10
<1>. QED BY <1>1, <1>8, <1>9, <1>11 DEF q, p

----------------------------------------------------------------------------
(* What a maker order is rated *)

\* At most two sides are of a stream.
LEMMA AtMostTwo ==
  ASSUME NEW S, S \subseteq {1, 2}
  PROVE  Cardinality(S) \in 0..2
<1>1. IsFiniteSet({1}) /\ Cardinality({1}) = 1
  BY FS_Singleton
<1>2. IsFiniteSet({1} \cup {2}) /\ Cardinality({1} \cup {2}) = 1 + 1
  BY <1>1, FS_AddElement
<1>3. IsFiniteSet(S) /\ Cardinality(S) <= Cardinality({1} \cup {2})
  <2>1. S \subseteq {1} \cup {2}
    OBVIOUS
  <2>. QED BY <1>2, <2>1, FS_Subset
<1>4. Cardinality(S) \in Nat
  BY <1>3, FS_CardinalityType
<1>. QED BY <1>2, <1>3, <1>4

\* The edge a maker order must have over its threshold to be in time.
EdgeSuffices(edge) ==
  (3 * MakerOrderTimeout - 20) * EdgeRef < 5 * MakerOrderTimeout * Max({edge, 0})

\* One percent is a positive number of parts.
LEMMA PercentType ==
  ASSUME NEW quantity \in Nat \ {0}, NEW queue \in Nat
  PROVE  Percent(quantity, queue) \in Nat \ {0}
<1>. DEFINE m == Max({queue, 1})
<1>1. m \in Nat \ {0}
  BY MaxPair
<1>2. EdgeRef \in Nat \ {0}
  BY EngineAssumption
<1>. HIDE DEF m
<1>3. EdgeRef * quantity \in Nat \ {0}
  BY <1>2, PositiveProduct
<1>4. (EdgeRef * quantity) * m \in Nat \ {0}
  BY <1>1, <1>3, PositiveProduct
<1>5. 6 * EdgeRef * quantity * m = 6 * ((EdgeRef * quantity) * m)
  BY <1>1, <1>2
<1>. QED BY <1>4, <1>5 DEF Percent, m

\* The score of an edge is at most its share of the reference.
LEMMA EdgeScore ==
  ASSUME NEW edge \in Int, NEW w \in Nat \ {0}, NEW r \in Nat \ {0}
  PROVE  LET e == Max({Clamp((w * edge) \div r, -w, w), 0})
         IN  e \in Nat /\ r * e <= w * Max({edge, 0})
<1>. DEFINE E == (w * edge) \div r
            c == Clamp(E, -w, w)
            e == Max({c, 0})
            m == Max({edge, 0})
<1>1. E \in Int /\ r * E <= w * edge
  <2>1. w * edge \in Int
    OBVIOUS
  <2>. QED BY <2>1, Floor
<1>2. m = IF edge >= 0 THEN edge ELSE 0
  BY MaxPair
<1>. HIDE DEF E
<1>3. c = IF E < -w THEN -w ELSE IF E > w THEN w ELSE E
  BY <1>1, ClampIs DEF Clamp
<1>4. c \in Int /\ (c >= 0 => E >= 0 /\ c <= E)
  BY <1>1, <1>3
<1>. HIDE DEF c
<1>5. e = IF c >= 0 THEN c ELSE 0
  BY <1>4, MaxPair
<1>. HIDE DEF e, m
<1>6. CASE c < 0
  <2>1. e = 0 /\ m \in Nat
    BY <1>2, <1>4, <1>5, <1>6
  <2>. QED BY <2>1 DEF e, c, E, m
<1>7. CASE c >= 0
  <2>1. e \in Nat /\ e <= E
    BY <1>4, <1>5, <1>7
  <2>2. r * e <= r * E /\ r * E >= 0
    BY <1>1, <2>1
  <2>3. w * edge <= w * m
    BY <1>2
  <2>4. m \in Nat
    BY <1>2
  <2>5. r * e <= w * m
    BY <1>1, <2>1, <2>2, <2>3, <2>4
  <2>. QED BY <2>1, <2>5 DEF e, c, E, m
<1>. QED BY <1>4, <1>6, <1>7

\* Where the queue is of unknown length, at most 10 + 25 + 10 percent come from the
\* base, the depth and the streams, and the rest from the edge.
LEMMA RatingBounded ==
  ASSUME NEW u \in Nat \ {0}, NEW edge \in Int, NEW quantity \in Nat \ {0},
         NEW depth \in Nat, NEW buy, NEW sell
  PROVE  LET p == FillProbability(u, edge, quantity, depth, 100 * u, buy, sell)
             e == Max({Clamp((100 * u * edge) \div EdgeRef, -100 * u, 100 * u), 0})
         IN  p \in u..(99 * u) /\ 100 * p <= 4500 * u + 25 * e
<1>. DEFINE D == (200 * u * depth) \div (3 * quantity)
            d == Clamp(D, 0, 100 * u)
            e == Max({Clamp((100 * u * edge) \div EdgeRef, -100 * u, 100 * u), 0})
            streams == {side \in {1, 2} : <<buy, sell>>[side].source = "ws"}
            c == Cardinality(streams)
            sum == 25 * d + 25 * e - 35 * (100 * u)
            v == 45 * u + sum \div 100 + 5 * u * c
            p == Clamp(v, u, 99 * u)
<1>1. p = FillProbability(u, edge, quantity, depth, 100 * u, buy, sell)
  BY DEF FillProbability
<1>2. e \in Nat
  <2>1. EdgeRef \in Nat \ {0} /\ 100 * u \in Nat \ {0}
    BY EngineAssumption
  <2>2. e = Max({Clamp(((100 * u) * edge) \div EdgeRef, -(100 * u), 100 * u), 0})
    <3>1. -100 * u = -(100 * u)
      OBVIOUS
    <3>. QED BY <3>1
  <2>3. PICK w : w = 100 * u
    OBVIOUS
  <2>4. Max({Clamp((w * edge) \div EdgeRef, -w, w), 0}) \in Nat
    BY <2>1, <2>3, EdgeScore
  <2>. QED BY <2>2, <2>3, <2>4
<1>3. D \in Int
  <2>1. 200 * u * depth \in Int /\ 3 * quantity \in Nat \ {0}
    OBVIOUS
  <2>. QED BY <2>1, Floor
<1>4. c \in 0..2
  <2>1. streams \subseteq {1, 2}
    BY Zenon
  <2>. HIDE DEF streams
  <2>. QED BY <2>1, AtMostTwo
<1>. HIDE DEF D, e, c, streams
<1>5. d \in 0..(100 * u)
  <2>1. d = IF D < 0 THEN 0 ELSE IF D > 100 * u THEN 100 * u ELSE D
    BY <1>3, ClampIs DEF Clamp
  <2>. QED BY <1>3, <2>1
<1>. HIDE DEF d
<1>6. sum \in Int /\ sum <= 25 * e - 1000 * u
  BY <1>2, <1>5
<1>. HIDE DEF sum
<1>7. sum \div 100 \in Int /\ 100 * (sum \div 100) <= sum
  BY <1>6, Floor
<1>8. 5 * u * c \in 0..(10 * u)
  <2>1. c = 0 \/ c = 1 \/ c = 2
    BY <1>4
  <2>. QED BY <2>1
<1>9. v \in Int /\ 100 * v <= 4500 * u + 25 * e
  <2>. DEFINE h == sum \div 100
              k == 5 * u * c
  <2>. HIDE DEF h, k
  <2>1. h \in Int /\ 100 * h <= 25 * e - 1000 * u /\ k \in 0..(10 * u)
    BY <1>2, <1>6, <1>7, <1>8 DEF h, k
  <2>2. 45 * u + h + k \in Int /\ 100 * (45 * u + h + k) <= 4500 * u + 25 * e
    BY <1>2, <2>1
  <2>. QED BY <2>2 DEF h, k
<1>. HIDE DEF v
<1>10. p = IF v < u THEN u ELSE IF v > 99 * u THEN 99 * u ELSE v
  BY <1>9, ClampIs DEF Clamp
<1>. HIDE DEF p
<1>11. p \in u..(99 * u) /\ 100 * p <= 4500 * u + 25 * e
  BY <1>2, <1>9, <1>10
<1>. QED BY <1>1, <1>11 DEF e

\* The arithmetic of a fill in time: a timeout T, the percent u, a rating p, the
\* score e of an edge, at most m, and the reference r.
LEMMA TimeNeedsEdge ==
  ASSUME NEW T \in Nat, NEW u \in Nat \ {0}, NEW p \in Nat, NEW e \in Nat,
         NEW m \in Nat, NEW r \in Nat \ {0},
         T * (160 * u - p) < 100 * u * T + 100 * u,
         100 * p <= 4500 * u + 25 * e,
         r * e <= 100 * u * m
  PROVE  (3 * T - 20) * r < 5 * T * m
<1>1. T * (100 * p) <= T * (4500 * u + 25 * e)
  OBVIOUS
<1>2. PICK a, b, d : a = T * p /\ b = T * u /\ d = T * e
  OBVIOUS
<1>3. a \in Nat /\ b \in Nat /\ d \in Nat
  BY <1>2
<1>4. /\ T * (160 * u - p) = 160 * b - a /\ 100 * u * T = 100 * b
      /\ T * (100 * p) = 100 * a
      /\ T * (4500 * u + 25 * e) = 4500 * b + 25 * d
  BY <1>2
<1>5. d > 60 * b - 400 * u
  BY <1>1, <1>3, <1>4
<1>6. r * (60 * b - 400 * u) < r * d
  BY <1>3, <1>5
<1>7. r * d <= T * (100 * u * m)
  <2>1. T * (r * e) <= T * (100 * u * m)
    BY SMT
  <2>2. T * (r * e) = r * d
    BY <1>2
  <2>. QED BY <2>1, <2>2
<1>8. r * (60 * b - 400 * u) = (20 * u) * ((3 * T - 20) * r)
  BY <1>2
<1>9. T * (100 * u * m) = (20 * u) * (5 * T * m)
  OBVIOUS
<1>10. PICK x, y, w : x = (3 * T - 20) * r /\ y = 5 * T * m /\ w = 20 * u
  OBVIOUS
<1>11. x \in Int /\ y \in Int /\ w \in Nat \ {0}
  BY <1>10
<1>12. w * x < w * y
  <2>1. r * d \in Int /\ w * x \in Int /\ w * y \in Int
    BY <1>3, <1>11
  <2>. QED BY <1>6, <1>7, <1>8, <1>9, <1>10, <2>1
<1>13. x < y
  <2>. SUFFICES ASSUME x >= y PROVE FALSE
    BY <1>11
  <2>1. w * x >= w * y
    BY <1>11
  <2>. QED BY <1>11, <1>12, <2>1
<1>. QED BY <1>10, <1>13

\* A maker order behind a queue of unknown length is expected to fill in time only
\* if its edge suffices.
LEMMA UnknownQueueRating ==
  ASSUME NEW u \in Nat \ {0}, NEW edge \in Int, NEW quantity \in Nat \ {0},
         NEW depth \in Nat, NEW buy, NEW sell,
         ~ (ExpectedFillTime(u, FillProbability(u, edge, quantity, depth, 100 * u, buy, sell),
                             100 * u)
              > MakerOrderTimeout)
  PROVE  EdgeSuffices(edge)
<1>. DEFINE p == FillProbability(u, edge, quantity, depth, 100 * u, buy, sell)
            e == Max({Clamp((100 * u * edge) \div EdgeRef, -100 * u, 100 * u), 0})
            T == MakerOrderTimeout
            factor == Clamp(120 * u - p + (40 * (100 * u)) \div 100, 25 * u, 250 * u)
<1>1. T \in Nat /\ EdgeRef \in Nat \ {0}
  BY EngineAssumption
<1>2. p \in u..(99 * u) /\ 100 * p <= 4500 * u + 25 * e
  BY RatingBounded
<1>3. e \in Nat /\ EdgeRef * e <= (100 * u) * Max({edge, 0})
  <2>1. 100 * u \in Nat \ {0} /\ -100 * u = -(100 * u)
    OBVIOUS
  <2>2. PICK w : w = 100 * u
    OBVIOUS
  <2>3. LET f == Max({Clamp((w * edge) \div EdgeRef, -w, w), 0})
        IN  f \in Nat /\ EdgeRef * f <= w * Max({edge, 0})
    BY <1>1, <2>1, <2>2, EdgeScore
  <2>. QED BY <2>1, <2>2, <2>3
<1>4. ~ ((T * factor) \div (100 * u) > T)
  BY DEF ExpectedFillTime
<1>. HIDE DEF p, e, T
<1>5. factor = 160 * u - p
  <2>1. (40 * (100 * u)) \div 100 = 40 * u
    OBVIOUS
  <2>2. 120 * u - p + 40 * u \in Int /\ 25 * u <= 250 * u
    BY <1>2
  <2>3. factor = IF 160 * u - p < 25 * u THEN 25 * u
                 ELSE IF 160 * u - p > 250 * u THEN 250 * u ELSE 160 * u - p
    BY <1>2, <2>1, <2>2, ClampIs DEF Clamp
  <2>. HIDE DEF factor
  <2>. QED BY <1>2, <2>3
<1>. HIDE DEF factor
<1>6. T * (160 * u - p) < 100 * u * T + 100 * u
  <2>1. PICK v, w : v = T * factor /\ w = 100 * u
    OBVIOUS
  <2>2. v \in Int /\ w \in Nat \ {0}
    BY <1>1, <1>2, <1>5, <2>1
  <2>3. v \div w \in Int /\ v < w * (v \div w) + w
    BY <2>2, Floor
  <2>4. v \div w <= T
    BY <1>1, <1>4, <2>1, <2>3
  <2>5. w * (v \div w) <= w * T
    BY <1>1, <2>2, <2>3, <2>4
  <2>6. v < w * T + w
    BY <1>1, <2>2, <2>3, <2>5
  <2>. QED BY <1>5, <2>1, <2>6
<1>7. PICK m : m = Max({edge, 0})
  OBVIOUS
<1>8. m \in Nat
  BY <1>7, MaxPair
<1>9. (3 * T - 20) * EdgeRef < 5 * T * m
  BY <1>1, <1>2, <1>3, <1>6, <1>7, <1>8, TimeNeedsEdge
<1>. QED BY <1>7, <1>9 DEF EdgeSuffices, T

----------------------------------------------------------------------------
(* One opportunity *)

\* The conjuncts of EmittedFitsExecutor and of QuantityIsVisible.
Fits(o) ==
  /\ o.buy_exchange # o.sell_exchange
  /\ o.quantity \in 1..MaxPosition
  /\ o.quantity * o.buy_price <= CapitalPerTrade
  /\ LossesAllowed
       \/ (o.sell_value - o.sell_fee) - (o.buy_cost + o.buy_fee) - o.slippage > 0

Visible(o) ==
  /\ \A v \in Shown(o) : o.quantity <= v
  /\ RequireDepth =>
       /\ o.maker_side # "buy"
            => market[o.buy_exchange][o.symbol].ask_depth_base \in Shown(o)
       /\ o.maker_side # "sell"
            => market[o.sell_exchange][o.symbol].bid_depth_base \in Shown(o)

\* And that of UnknownQueueNeedsEdge.
Rated(o) ==
  LET queue == IF o.maker_side = "sell"
                 THEN market[o.sell_exchange][o.symbol].ask_volume
                 ELSE market[o.buy_exchange][o.symbol].bid_volume
  IN  o.maker_side # "none" /\ queue = 0 /\ Filled(o)
        => EdgeSuffices(o.net_spread - o.threshold)

Offer(o) == Fits(o) /\ Visible(o) /\ Rated(o) /\ o.expected_profit \in Int

\* The profit of a trade, from the amounts it is booked with and from the
\* prices with all rates added.
LEMMA ProfitIs ==
  ASSUME NEW q \in Int, NEW b \in Int, NEW s \in Int, NEW bf \in Int, NEW sf \in Int,
         NEW bs \in Int, NEW ss \in Int, NEW w \in Int
  PROVE  (q * s * w - q * s * sf) - (q * b * w + q * b * bf) - q * (b * bs + s * ss)
           = q * (s * (w - sf - ss) - b * (w + bf + bs))
OBVIOUS

\* Net spread and threshold of a trade are whole rates.
LEMMA SpreadType ==
  ASSUME NEW ewma \in [Exchanges -> Nat], NEW x \in Exchanges, NEW buy \in Rows,
         NEW y \in Exchanges, NEW sell \in Rows
  PROVE  LET t == Terms(ewma, x, buy, y, sell)
         IN  NetSpread(t) \in Int /\ Threshold(ewma, x, y, t) \in Int
<1>. DEFINE t == Terms(ewma, x, buy, y, sell)
            cost == t.buy_fee + t.sell_fee + Max({t.buy_slippage, ewma[x]})
                                           + Max({t.sell_slippage, ewma[y]})
            floor == (cost * CostBuffer) \div 100
            gain == (NetSell(t) - NetBuy(t)) * Scale
<1>1. /\ t.buy_price \in Nat \ {0} /\ t.sell_price \in Nat \ {0}
      /\ t.buy_fee \in Nat /\ t.sell_fee \in Nat
      /\ t.buy_slippage \in Nat /\ t.sell_slippage \in Nat
      /\ ewma[x] \in Nat /\ ewma[y] \in Nat
  <2>1. /\ t.buy_price \in 1..CapitalPerTrade /\ t.sell_price \in Nat \ {0}
        /\ t.buy_fee \in Nat /\ t.sell_fee \in Nat
        /\ t.buy_slippage \in Nat /\ t.sell_slippage \in Nat
    BY TermsType
  <2>. HIDE DEF t
  <2>2. CapitalPerTrade \in Nat
    BY EngineAssumption
  <2>. QED BY <2>1, <2>2
<1>2. /\ Scale \in Nat \ {0} /\ CostBuffer \in Nat
      /\ MinNetSpread \in Int /\ MinFloor \in Int
  BY EngineAssumption
<1>. HIDE DEF t
<1>3. /\ Max({t.buy_slippage, ewma[x]}) \in Nat
      /\ Max({t.sell_slippage, ewma[y]}) \in Nat
  BY <1>1, MaxPair
<1>4. cost * CostBuffer \in Int
  <2>1. cost \in Nat
    BY <1>1, <1>3
  <2>. HIDE DEF cost
  <2>. QED BY <1>2, <2>1
<1>5. floor \in Int
  <2>. HIDE DEF cost
  <2>. QED BY <1>4, Floor
<1>6. Threshold(ewma, x, y, t) \in Int
  <2>1. Threshold(ewma, x, y, t)
          = IF AutoThreshold THEN Max({MinNetSpread, MinFloor, floor}) ELSE MinNetSpread
    BY DEF Threshold
  <2>. HIDE DEF floor
  <2>2. Max({MinNetSpread, MinFloor, floor}) \in {MinNetSpread, MinFloor, floor}
    BY <1>2, <1>5, MaxOfThree
  <2>. QED BY <1>2, <1>5, <2>1, <2>2
<1>7. NetSpread(t) \in Int
  <2>. DEFINE in == NetBuy(t)
              out == NetSell(t)
  <2>1. in \in Nat \ {0} /\ out \in Int
    <3>. DEFINE u == Scale + t.buy_fee + t.buy_slippage
                w == Scale - t.sell_fee - t.sell_slippage
    <3>1. u \in Nat \ {0} /\ w \in Int
      BY <1>1, <1>2
    <3>. HIDE DEF u, w
    <3>2. t.buy_price * u \in Nat \ {0} /\ t.sell_price * w \in Int
      BY <1>1, <3>1, PositiveProduct
    <3>. QED BY <3>2 DEF NetBuy, NetSell, u, w
  <2>2. NetSpread(t) = ((out - in) * Scale) \div in
    BY DEF NetSpread
  <2>. HIDE DEF in, out
  <2>3. (out - in) * Scale \in Int
    BY <1>2, <2>1
  <2>. QED BY <2>1, <2>2, <2>3, Floor
<1>. QED BY <1>6, <1>7 DEF t

\* What _build_opportunity returns without a reason to reject it is an offer.
LEMMA BuiltIsOffer ==
  ASSUME NEW ewma \in [Exchanges -> Nat], NEW s,
         NEW x \in Exchanges, NEW y \in Exchanges, x # y,
         market[x][s] \in Rows, market[y][s] \in Rows,
         RejectReason(ewma, x, market[x][s], y, market[y][s]) = "none"
  PROVE  Offer(Opportunity(ewma, s, x, market[x][s], y, market[y][s]))
<1>. DEFINE buy == market[x][s]
            sell == market[y][s]
            t == Terms(ewma, x, buy, y, sell)
            q == Quantity(t, buy, sell)
            o == Opportunity(ewma, s, x, buy, y, sell)
<1>1. buy \in Rows /\ sell \in Rows
  OBVIOUS
<1>2. /\ ~ DepthMissing(buy, sell)
      /\ ~ NoProfit(t)
  BY DEF RejectReason
<1>3. /\ t.buy_price \in 1..CapitalPerTrade /\ t.sell_price \in Nat \ {0}
      /\ t.buy_fee \in Nat /\ t.sell_fee \in Nat
      /\ t.buy_slippage \in Nat /\ t.sell_slippage \in Nat
      /\ Scale \in Nat \ {0}
  BY <1>1, TermsType, EngineAssumption
<1>4. /\ o.symbol = s /\ o.buy_exchange = x /\ o.sell_exchange = y
      /\ o.maker_side = MakerSide
      /\ o.buy_price = t.buy_price /\ o.quantity = q
      /\ o.buy_cost = q * t.buy_price * Scale
      /\ o.sell_value = q * t.sell_price * Scale
      /\ o.buy_fee = q * t.buy_price * t.buy_fee
      /\ o.sell_fee = q * t.sell_price * t.sell_fee
      /\ o.slippage = q * (t.buy_price * t.buy_slippage + t.sell_price * t.sell_slippage)
      /\ o.expected_profit = q * (NetSell(t) - NetBuy(t))
  BY DEF Opportunity
<1>. HIDE DEF t, o
<1>5. /\ q \in 1..MaxPosition
      /\ q * t.buy_price <= CapitalPerTrade
      /\ \A v \in Volumes(buy, sell) : v > 0 => q <= v
  BY <1>1, <1>3, QuantityIs
<1>6. MaxPosition \in Nat \ {0}
  BY EngineAssumption
<1>. HIDE DEF q
<1>7. q \in Nat \ {0}
  BY <1>5, <1>6
<1>8. NetSell(t) \in Int /\ NetBuy(t) \in Int
  BY <1>3 DEF NetSell, NetBuy
<1>9. /\ NetSell(t) = t.sell_price * (Scale - t.sell_fee - t.sell_slippage)
      /\ NetBuy(t) = t.buy_price * (Scale + t.buy_fee + t.buy_slippage)
  BY DEF NetSell, NetBuy
<1>10. (o.sell_value - o.sell_fee) - (o.buy_cost + o.buy_fee) - o.slippage
         = q * (NetSell(t) - NetBuy(t))
  <2>1. /\ q \in Int /\ t.buy_price \in Int /\ t.sell_price \in Int /\ t.buy_fee \in Int
        /\ t.sell_fee \in Int /\ t.buy_slippage \in Int /\ t.sell_slippage \in Int
        /\ Scale \in Int
    BY <1>3, <1>7
  <2>2. (q * t.sell_price * Scale - q * t.sell_price * t.sell_fee)
          - (q * t.buy_price * Scale + q * t.buy_price * t.buy_fee)
          - q * (t.buy_price * t.buy_slippage + t.sell_price * t.sell_slippage)
        = q * (t.sell_price * (Scale - t.sell_fee - t.sell_slippage)
                 - t.buy_price * (Scale + t.buy_fee + t.buy_slippage))
    BY <2>1, ProfitIs
  <2>. QED BY <2>2, <1>4, <1>9, Zenon
<1>11. LossesAllowed \/ q * (NetSell(t) - NetBuy(t)) > 0
  BY <1>2, <1>7, <1>8, PositiveProduct DEF NoProfit
<1>12. Fits(o)
  BY <1>4, <1>5, <1>10, <1>11 DEF Fits
<1>13. Visible(o)
  <2>1. /\ buy.ask_depth_price \in Nat /\ buy.ask_depth_base \in Nat
        /\ sell.bid_depth_price \in Nat /\ sell.bid_depth_base \in Nat
        /\ buy.ask_depth_price > 0 => buy.ask_depth_base > 0
        /\ sell.bid_depth_price > 0 => sell.bid_depth_base > 0
    BY <1>1, SnapshotAssumption
  <2>2. RequireDepth => /\ MakerSide # "buy" => buy.ask_depth_base > 0
                        /\ MakerSide # "sell" => sell.bid_depth_base > 0
    BY <1>2, <2>1 DEF DepthMissing
  <2>3. Shown(o) = {v \in Volumes(buy, sell) : v > 0}
    <3>1. Shown(o) = {v \in (IF MakerSide = "buy" THEN {buy.bid_volume}
                             ELSE {buy.ask_volume, buy.ask_depth_base})
                        \cup (IF MakerSide = "sell" THEN {sell.ask_volume}
                              ELSE {sell.bid_volume, sell.bid_depth_base}) : v > 0}
      BY <1>4 DEF Shown
    <3>2. MakerSide \in {"none", "buy", "sell"}
      BY DEF MakerSide
    <3>3. CASE MakerSide = "none"
      BY <3>1, <3>3 DEF Volumes
    <3>4. CASE MakerSide = "buy"
      BY <3>1, <3>4 DEF Volumes
    <3>5. CASE MakerSide = "sell"
      BY <3>1, <3>5 DEF Volumes
    <3>. QED BY <3>2, <3>3, <3>4, <3>5
  <2>4. /\ MakerSide # "buy" => buy.ask_depth_base \in Volumes(buy, sell)
        /\ MakerSide # "sell" => sell.bid_depth_base \in Volumes(buy, sell)
    <3>1. MakerSide \in {"none", "buy", "sell"}
      BY DEF MakerSide
    <3>. QED BY <3>1 DEF Volumes
  <2>5. \A v \in Shown(o) : o.quantity <= v
    BY <1>4, <1>5, <2>3
  <2>6. RequireDepth => /\ MakerSide # "buy" => buy.ask_depth_base \in Shown(o)
                        /\ MakerSide # "sell" => sell.bid_depth_base \in Shown(o)
    BY <2>2, <2>3, <2>4
  <2>. QED BY <1>4, <2>5, <2>6 DEF Visible
<1>14. o.expected_profit \in Int
  BY <1>4, <1>7, <1>8
<1>15. Rated(o)
  <2>. DEFINE maker == MakerSide # "none"
              queue == MakerQueue(buy, sell)
              depth == TakerDepth(buy, sell)
              edge == NetSpread(t) - Threshold(ewma, x, y, t)
              u == Percent(q, queue)
              rating == FillProbability(u, edge, q, depth, 100 * u, buy, sell)
  <2>. SUFFICES ASSUME maker, queue = 0, Filled(o)
                PROVE  EdgeSuffices(edge)
    <3>1. /\ o.net_spread = NetSpread(t) /\ o.threshold = Threshold(ewma, x, y, t)
      BY DEF Opportunity, o, t, q
    <3>. QED BY <1>4, <3>1 DEF Rated, MakerQueue
  <2>1. QueueRisk(q, queue) = 100 * u
    BY DEF QueueRisk
  <2>2. o.expected_fill_time_ms = ExpectedFillTime(u, rating, 100 * u)
    <3>1. o.expected_fill_time_ms
            = ExpectedFillTime(u, FillProbability(u, edge, q, depth, QueueRisk(q, queue),
                                                  buy, sell),
                               QueueRisk(q, queue))
      BY DEF Opportunity, o, t, q
    <3>. QED BY <2>1, <3>1
  <2>3. ~ TimedOut(o)
    BY DEF Filled, FillingRequotes
  <2>4. u \in Nat \ {0}
    BY <1>7, PercentType
  <2>5. depth \in Nat
    BY <1>1, SnapshotAssumption DEF TakerDepth
  <2>6. edge \in Int
    BY <1>1, SpreadType DEF t
  <2>. HIDE DEF depth, edge, u
  <2>7. ~ (ExpectedFillTime(u, rating, 100 * u) > MakerOrderTimeout)
    BY <2>2, <2>3 DEF TimedOut
  <2>. QED BY <1>7, <2>4, <2>5, <2>6, <2>7, UnknownQueueRating
<1>. QED BY <1>12, <1>13, <1>14, <1>15 DEF Offer, o

----------------------------------------------------------------------------
(* The sort *)

\* In a strict total order R of 1..n every place from the first to the last is
\* some element's: the ranks are all different and below n.
LEMMA RanksAreAll ==
  ASSUME NEW n \in Nat, NEW R,
         \A i \in 1..n : <<i, i>> \notin R,
         \A i, j \in 1..n : i # j => <<i, j>> \in R \/ <<j, i>> \in R,
         \A h, i, j \in 1..n : <<h, i>> \in R /\ <<i, j>> \in R => <<h, j>> \in R
  PROVE  LET rank(i) == Cardinality({j \in 1..n : <<j, i>> \in R})
         IN  /\ \A k \in 1..n : \E i \in 1..n : rank(i) = k - 1
             /\ \A i, j \in 1..n : rank(i) < rank(j) => <<i, j>> \in R
<1>. DEFINE D == 1..n
            B(i) == {j \in D : <<j, i>> \in R}
            rank(i) == Cardinality(B(i))
<1>1. IsFiniteSet(D) /\ Cardinality(D) = n
  BY FS_Interval
<1>2. \A k \in D : k \in Int
  OBVIOUS
<1>. HIDE DEF D
<1>3. ASSUME NEW i \in D
      PROVE  IsFiniteSet(B(i)) /\ rank(i) \in 0..(n - 1)
  <2>1. IsFiniteSet(D \ {i}) /\ Cardinality(D \ {i}) = n - 1
    BY <1>1, FS_RemoveElement
  <2>2. B(i) \subseteq D \ {i}
    BY DEF D
  <2>. HIDE DEF B
  <2>3. IsFiniteSet(B(i)) /\ Cardinality(B(i)) <= n - 1
    BY <2>1, <2>2, FS_Subset
  <2>. QED BY <2>3, FS_CardinalityType
<1>4. ASSUME NEW i \in D, NEW j \in D, <<i, j>> \in R
      PROVE  rank(i) < rank(j)
  <2>1. B(i) \subseteq B(j) /\ i \in B(j) /\ i \notin B(i)
    BY <1>4 DEF D
  <2>. HIDE DEF B
  <2>2. Cardinality(B(i)) <= Cardinality(B(j)) /\ Cardinality(B(j)) # Cardinality(B(i))
    BY <1>3, <2>1, FS_Subset
  <2>3. Cardinality(B(i)) \in Int /\ Cardinality(B(j)) \in Int
    BY <1>3
  <2>. QED BY <2>2, <2>3
<1>5. \A i, j \in D : i # j => <<i, j>> \in R \/ <<j, i>> \in R
  BY DEF D
<1>. HIDE DEF B
<1>6. ASSUME NEW k \in D
      PROVE  \E i \in D : rank(i) = k - 1
  <2>. SUFFICES ASSUME \A i \in D : rank(i) # k - 1 PROVE FALSE
    OBVIOUS
  <2>. DEFINE T == (0..(n - 1)) \ {k - 1}
              f == [i \in D |-> rank(i)]
  <2>1. k - 1 \in 0..(n - 1)
    BY DEF D
  <2>2. IsFiniteSet(0..(n - 1)) /\ Cardinality(0..(n - 1)) = n
    <3>. DEFINE m == n - 1
    <3>1. m \in Nat /\ m + 1 = n
      BY <2>1
    <3>. HIDE DEF m
    <3>2. IsFiniteSet(0..m) /\ Cardinality(0..m) = m + 1
      BY <3>1, FS_Interval
    <3>. QED BY <3>1, <3>2 DEF m
  <2>3. IsFiniteSet(T) /\ Cardinality(T) = n - 1
    <3>. DEFINE Z == 0..(n - 1)
    <3>1. IsFiniteSet(Z) /\ Cardinality(Z) = n /\ k - 1 \in Z
      BY <2>1, <2>2
    <3>. HIDE DEF Z
    <3>2. IsFiniteSet(Z \ {k - 1}) /\ Cardinality(Z \ {k - 1}) = n - 1
      BY <3>1, FS_RemoveElement
    <3>. QED BY <3>2 DEF Z
  <2>4. f \in [D -> T]
    BY <1>3
  <2>5. Cardinality(T) < Cardinality(D)
    BY <1>1, <2>3
  <2>. HIDE DEF T, f
  <2>6. \E i, j \in D : i # j /\ f[i] = f[j]
    BY <1>1, <2>3, <2>4, <2>5, FS_PigeonHole
  <2>7. PICK i \in D, j \in D : i # j /\ rank(i) = rank(j)
    BY <2>6 DEF f
  <2>8. rank(i) < rank(j) \/ rank(j) < rank(i)
    BY <1>4, <1>5, <2>7
  <2>9. rank(i) \in Int /\ rank(j) \in Int
    BY <1>3
  <2>. QED BY <2>7, <2>8, <2>9
<1>7. ASSUME NEW i \in D, NEW j \in D, rank(i) < rank(j)
      PROVE  <<i, j>> \in R
  <2>1. rank(i) \in Int /\ rank(j) \in Int
    BY <1>3
  <2>2. i # j /\ ~ (rank(j) < rank(i))
    BY <1>7, <2>1
  <2>. QED BY <1>4, <1>5, <2>2
<1>. QED BY <1>6, <1>7 DEF D, B

\* The sort returns the opportunities it was given, the best first.
LEMMA RankedIsSorted ==
  ASSUME NEW S, NEW found \in Seq(S), \A o \in S : o.expected_profit \in Int
  PROVE  /\ Ranked(found) \in Seq(S) /\ Len(Ranked(found)) = Len(found)
         /\ \A j, k \in DOMAIN Ranked(found) :
              j < k => Ranked(found)[j].expected_profit >= Ranked(found)[k].expected_profit
<1>. DEFINE n == Len(found)
            D == 1..n
            before(i, j) == \/ found[i].expected_profit > found[j].expected_profit
                            \/ ~ (found[j].expected_profit > found[i].expected_profit) /\ i < j
            rank(i) == Cardinality({j \in D : before(j, i)})
            place(k) == CHOOSE i \in D : rank(i) = k - 1
            R == {p \in D \X D : before(p[1], p[2])}
<1>1. n \in Nat /\ DOMAIN found = D /\ \A i \in D : found[i] \in S
  OBVIOUS
<1>2. Ranked(found) = [k \in D |-> found[place(k)]]
  BY <1>1 DEF Ranked, Sorted
<1>3. \A i \in D : found[i].expected_profit \in Int /\ i \in Int
  BY <1>1
<1>4. /\ \A i, j \in D : i # j => before(i, j) \/ before(j, i)
      /\ \A i \in D : ~ before(i, i)
      /\ \A h, i, j \in D : before(h, i) /\ before(i, j) => before(h, j)
      /\ \A i, j \in D : before(i, j) =>
            found[i].expected_profit >= found[j].expected_profit
  <2>. HIDE DEF n, D
  <2>. QED BY <1>3
<1>. HIDE DEF before
<1>5. \A i, j \in D : <<i, j>> \in R <=> before(i, j)
  OBVIOUS
<1>6. \A i \in D : {j \in D : <<j, i>> \in R} = {j \in D : before(j, i)}
  BY <1>5
<1>. HIDE DEF n, R
<1>7. /\ \A k \in D : \E i \in D : Cardinality({j \in D : <<j, i>> \in R}) = k - 1
      /\ \A i, j \in D :
           Cardinality({h \in D : <<h, i>> \in R}) < Cardinality({h \in D : <<h, j>> \in R})
             => <<i, j>> \in R
  BY <1>1, <1>4, <1>5, RanksAreAll
<1>8. /\ \A k \in D : \E i \in D : rank(i) = k - 1
      /\ \A i, j \in D : rank(i) < rank(j) => before(i, j)
  BY <1>5, <1>6, <1>7
<1>. HIDE DEF D, rank
<1>9. \A k \in D : place(k) \in D /\ rank(place(k)) = k - 1
  BY <1>8
<1>. HIDE DEF place
<1>10. Ranked(found) \in Seq(S) /\ Len(Ranked(found)) = n
  <2>1. \A k \in D : found[place(k)] \in S
    BY <1>1, <1>9
  <2>. QED BY <1>1, <1>2, <2>1 DEF D
<1>11. ASSUME NEW j \in D, NEW k \in D, j < k
       PROVE  found[place(j)].expected_profit >= found[place(k)].expected_profit
  <2>1. rank(place(j)) < rank(place(k))
    BY <1>3, <1>9, <1>11
  <2>. QED BY <1>4, <1>8, <1>9, <2>1
<1>. QED BY <1>2, <1>10, <1>11 DEF n

\* The same sort of the net spreads, the lowest first.
LEMMA ValuesSorted ==
  ASSUME NEW values \in Seq(Int)
  PROVE  LET sorted == Sorted(values, LAMBDA v, w : v < w)
         IN  /\ sorted \in Seq(Int) /\ Len(sorted) = Len(values)
             /\ \A j, k \in 1..Len(values) : j <= k => sorted[j] <= sorted[k]
<1>. DEFINE n == Len(values)
            D == 1..n
            before(i, j) == \/ values[i] < values[j]
                            \/ ~ (values[j] < values[i]) /\ i < j
            rank(i) == Cardinality({j \in D : before(j, i)})
            place(k) == CHOOSE i \in D : rank(i) = k - 1
            R == {p \in D \X D : before(p[1], p[2])}
            sorted == Sorted(values, LAMBDA v, w : v < w)
<1>1. n \in Nat /\ DOMAIN values = D
  OBVIOUS
<1>2. sorted = [k \in D |-> values[place(k)]]
  BY <1>1 DEF Sorted
<1>3. \A i \in D : values[i] \in Int /\ i \in Int
  BY <1>1
<1>4. /\ \A i, j \in D : i # j => before(i, j) \/ before(j, i)
      /\ \A i \in D : ~ before(i, i)
      /\ \A h, i, j \in D : before(h, i) /\ before(i, j) => before(h, j)
      /\ \A i, j \in D : before(i, j) => values[i] <= values[j]
  <2>. HIDE DEF n, D
  <2>. QED BY <1>3
<1>. HIDE DEF before, sorted
<1>5. \A i, j \in D : <<i, j>> \in R <=> before(i, j)
  OBVIOUS
<1>6. \A i \in D : {j \in D : <<j, i>> \in R} = {j \in D : before(j, i)}
  BY <1>5
<1>. HIDE DEF n, R
<1>7. /\ \A k \in D : \E i \in D : Cardinality({j \in D : <<j, i>> \in R}) = k - 1
      /\ \A i, j \in D :
           Cardinality({h \in D : <<h, i>> \in R}) < Cardinality({h \in D : <<h, j>> \in R})
             => <<i, j>> \in R
  BY <1>1, <1>4, <1>5, RanksAreAll
<1>8. /\ \A k \in D : \E i \in D : rank(i) = k - 1
      /\ \A i, j \in D : rank(i) < rank(j) => before(i, j)
  BY <1>5, <1>6, <1>7
<1>. HIDE DEF D, rank
<1>9. \A k \in D : place(k) \in D /\ rank(place(k)) = k - 1
  BY <1>8
<1>. HIDE DEF place
<1>10. sorted \in Seq(Int) /\ Len(sorted) = n
  <2>1. \A k \in D : values[place(k)] \in Int
    BY <1>3, <1>9
  <2>. QED BY <1>1, <1>2, <2>1 DEF D
<1>11. ASSUME NEW j \in D, NEW k \in D, j <= k
       PROVE  sorted[j] <= sorted[k]
  <2>1. CASE j = k
    BY <1>2, <1>3, <1>9, <2>1
  <2>2. CASE j # k
    <3>1. rank(place(j)) < rank(place(k))
      BY <1>3, <1>9, <1>11, <2>2
    <3>. QED BY <1>2, <1>4, <1>8, <1>9, <3>1
  <2>. QED BY <2>1, <2>2
<1>. QED BY <1>10, <1>11 DEF n, D, sorted

\* A sorted sample of m integers.
Ascending(s, m) ==
  /\ Len(s) = m
  /\ \A k \in 1..m : s[k] \in Int
  /\ \A j, k \in 1..m : j <= k => s[j] <= s[k]

\* A value w hundredths of the way between two others lies between them.
Mix(low, high, w) == low * (100 - w) + high * w

LEMMA MixBetween ==
  ASSUME NEW low \in Int, NEW high \in Int, low <= high, NEW w \in 0..99
  PROVE  /\ Mix(low, high, w) \in Int
         /\ 100 * low <= Mix(low, high, w) /\ Mix(low, high, w) <= 100 * high
         /\ Mix(low, high, w) = 100 * low + w * (high - low)
<1>. DEFINE d == high - low
            e == w * d
            f == (100 - w) * d
<1>1. e \in Int /\ e >= 0 /\ f \in Int /\ f >= 0
  OBVIOUS
<1>2. /\ low * (100 - w) + high * w = 100 * low + e
      /\ low * (100 - w) + high * w = 100 * high - f
  OBVIOUS
<1>. HIDE DEF f
<1>3. 100 * low + e \in Int /\ 100 * low <= 100 * low + e
  <2>. HIDE DEF e
  <2>. QED BY <1>1
<1>4. 100 * high - f <= 100 * high
  BY <1>1
<1>. QED BY <1>2, <1>3, <1>4 DEF e, Mix

\* Two such values, one between a and b and one between c and e, are in order if
\* the second starts where the first ends, or is further along the same interval.
LEMMA MixesOrdered ==
  ASSUME NEW a \in Int, NEW b \in Int, NEW c \in Int, NEW e \in Int,
         NEW v \in 0..99, NEW w \in 0..99, a <= b, c <= e,
         b <= c \/ (a = c /\ b = e /\ v <= w)
  PROVE  Mix(a, b, v) <= Mix(c, e, w)
<1>. DEFINE low == Mix(a, b, v)
            high == Mix(c, e, w)
<1>1. /\ low \in Int /\ low <= 100 * b
      /\ low = 100 * a + v * (b - a)
  BY MixBetween
<1>2. /\ high \in Int /\ 100 * c <= high
      /\ high = 100 * c + w * (e - c)
  BY MixBetween
<1>. HIDE DEF low, high
<1>3. CASE b <= c
  BY <1>1, <1>2, <1>3 DEF low, high
<1>4. CASE a = c /\ b = e /\ v <= w
  <2>. DEFINE d == b - a
  <2>1. d \in Nat /\ e - c = d
    BY <1>4
  <2>2. low = 100 * a + v * d /\ high = 100 * a + w * d
    BY <1>1, <1>2, <1>4
  <2>. HIDE DEF d
  <2>3. v * d <= w * d /\ v * d \in Int /\ w * d \in Int
    BY <1>4, <2>1
  <2>4. low <= high
    BY <2>2, <2>3
  <2>. QED BY <2>4 DEF low, high
<1>. QED BY <1>3, <1>4

\* A percentile of a sorted sample mixes two neighbours in it.
Mixes(s, m, pct, l, u, w) ==
  /\ u = IF l + 1 <= m THEN l + 1 ELSE m
  /\ (m - 1) * pct = 100 * (l - 1) + w
  /\ s[l] \in Int /\ s[u] \in Int /\ s[l] <= s[u]
  /\ s[1] <= s[l] /\ s[u] <= s[m]
  /\ Percentile(s, pct) = Mix(s[l], s[u], w)

LEMMA NeighboursOf ==
  ASSUME NEW s, NEW m \in Nat \ {0}, Ascending(s, m), NEW pct \in 0..100
  PROVE  \E l, u \in 1..m, w \in 0..99 : Mixes(s, m, pct, l, u, w)
<1>. DEFINE position == (m - 1) * pct
            q == position \div 100
            l == q + 1
            w == position % 100
            u == IF l + 1 <= m THEN l + 1 ELSE m
<1>1. position \in Nat /\ position <= 100 * (m - 1)
  <2>. DEFINE a == m - 1
  <2>1. a \in Nat
    OBVIOUS
  <2>. HIDE DEF a
  <2>2. a * pct \in Nat /\ a * pct <= a * 100
    BY <2>1
  <2>. QED BY <2>1, <2>2 DEF a
<1>2. Percentile(s, pct) = Mix(s[l], s[Min({l + 1, m})], w)
  BY DEF Percentile, Mix, Ascending
<1>. HIDE DEF position
<1>3. q \in Nat /\ w \in 0..99 /\ position = 100 * q + w
  BY <1>1
<1>. HIDE DEF q, w
<1>4. l \in 1..m
  BY <1>1, <1>3
<1>. HIDE DEF l
<1>5. Min({l + 1, m}) = u
  BY <1>4, MinPair
<1>6. u \in 1..m /\ l <= u
  BY <1>4
<1>. HIDE DEF u
<1>7. 1 \in 1..m /\ m \in 1..m
  OBVIOUS
<1>8. /\ s[l] \in Int /\ s[u] \in Int /\ s[l] <= s[u]
      /\ s[1] <= s[l] /\ s[u] <= s[m]
  BY <1>4, <1>6, <1>7 DEF Ascending
<1>9. position = 100 * (l - 1) + w
  BY <1>3 DEF l
<1>10. Mixes(s, m, pct, l, u, w)
  BY <1>2, <1>5, <1>8, <1>9 DEF Mixes, position, u
<1>. QED BY <1>3, <1>4, <1>6, <1>10

\* Further along a sorted sample a percentile is not lower, and none of them
\* leaves the sample.
LEMMA PercentilesOrdered ==
  ASSUME NEW s, NEW m \in Nat \ {0}, Ascending(s, m)
  PROVE  /\ 100 * s[1] <= Percentile(s, 50)
         /\ Percentile(s, 50) <= Percentile(s, 90)
         /\ Percentile(s, 90) <= 100 * s[m]
<1>1. \A pct \in 0..100 : \E l, u \in 1..m, w \in 0..99 : Mixes(s, m, pct, l, u, w)
  BY NeighboursOf
<1>2. PICK l \in 1..m, u \in 1..m, v \in 0..99 : Mixes(s, m, 50, l, u, v)
  BY <1>1, 50 \in 0..100
<1>3. PICK k \in 1..m, h \in 1..m, w \in 0..99 : Mixes(s, m, 90, k, h, w)
  BY <1>1, 90 \in 0..100
<1>4. /\ s[l] \in Int /\ s[u] \in Int /\ s[l] <= s[u] /\ s[1] <= s[l]
      /\ Percentile(s, 50) = Mix(s[l], s[u], v)
      /\ s[k] \in Int /\ s[h] \in Int /\ s[k] <= s[h] /\ s[h] <= s[m]
      /\ Percentile(s, 90) = Mix(s[k], s[h], w)
  BY <1>2, <1>3 DEF Mixes
<1>5. s[u] <= s[k] \/ (s[l] = s[k] /\ s[u] = s[h] /\ v <= w)
  <2>1. /\ u = IF l + 1 <= m THEN l + 1 ELSE m
        /\ h = IF k + 1 <= m THEN k + 1 ELSE m
        /\ (m - 1) * 50 = 100 * (l - 1) + v
        /\ (m - 1) * 90 = 100 * (k - 1) + w
    BY <1>2, <1>3 DEF Mixes
  <2>2. (l = k /\ v <= w /\ u = h) \/ u <= k
    BY <2>1
  <2>. QED BY <2>2 DEF Ascending
<1>6. /\ 100 * s[l] <= Mix(s[l], s[u], v) /\ Mix(s[l], s[u], v) \in Int
      /\ Mix(s[k], s[h], w) <= 100 * s[h] /\ Mix(s[k], s[h], w) \in Int
  BY <1>4, MixBetween
<1>7. Mix(s[l], s[u], v) <= Mix(s[k], s[h], w)
  BY <1>4, <1>5, MixesOrdered
<1>8. s[1] \in Int /\ s[m] \in Int
  BY DEF Ascending
<1>9. 100 * s[1] <= Mix(s[l], s[u], v) /\ Mix(s[k], s[h], w) <= 100 * s[m]
  BY <1>4, <1>6, <1>8
<1>. QED BY <1>4, <1>7, <1>9

\* The distribution counts the values, and its percentiles are in order.
LEMMA DistributionOrdered ==
  ASSUME NEW values \in Seq(Int)
  PROVE  LET d == Distribution(values)
         IN  /\ d.count = Len(values)
             /\ d.min <= d.p50 /\ d.p50 <= d.p90 /\ d.p90 <= d.max
<1>. DEFINE sorted == Sorted(values, LAMBDA v, w : v < w)
<1>1. CASE values = <<>>
  BY <1>1 DEF Distribution, NoDistribution
<1>2. CASE values # <<>>
  <2>. DEFINE m == Len(values)
  <2>1. m \in Nat \ {0}
    BY <1>2
  <2>2. /\ sorted \in Seq(Int) /\ Len(sorted) = m
        /\ \A j, k \in 1..m : j <= k => sorted[j] <= sorted[k]
    BY ValuesSorted
  <2>3. Distribution(values)
          = [count |-> m, p50 |-> Percentile(sorted, 50), p90 |-> Percentile(sorted, 90),
             max |-> 100 * sorted[Len(sorted)], min |-> 100 * sorted[1]]
    BY <1>2 DEF Distribution
  <2>. HIDE DEF sorted, m
  <2>4. Ascending(sorted, m)
    BY <2>2 DEF Ascending
  <2>5. /\ 100 * sorted[1] <= Percentile(sorted, 50)
        /\ Percentile(sorted, 50) <= Percentile(sorted, 90)
        /\ Percentile(sorted, 90) <= 100 * sorted[m]
    BY <2>1, <2>2, <2>4, PercentilesOrdered
  <2>. QED BY <2>2, <2>3, <2>5 DEF m
<1>. QED BY <1>1, <1>2

----------------------------------------------------------------------------
(* The scan *)

\* The rejections are counted per reason.
LEMMA ReasonIs ==
  ASSUME NEW ewma, NEW x, NEW buy, NEW y, NEW sell
  PROVE  RejectReason(ewma, x, buy, y, sell) \in Reasons \cup {"none"}
BY DEF RejectReason, Reasons

\* A configuration names finitely many exchanges.
LEMMA ExchangesFinite == IsFiniteSet(Exchanges)
<1>. DEFINE D == DOMAIN Listing
<1>1. Listing \in Seq(Exchanges)
  BY EngineAssumption
<1>2. Len(Listing) \in Nat /\ D = 1..Len(Listing)
  BY <1>1
<1>3. IsFiniteSet(D)
  BY <1>2, FS_Interval
<1>4. Listing \in Surjection(D, Exchanges)
  BY <1>1, <1>2 DEF Surjection, Exchanges, Range
<1>. QED BY <1>3, <1>4, FS_Surjection

\* The scan counts rows in the natural numbers.
LEMMA CountRowsType ==
  ASSUME NEW counts \in [Reasons -> Nat], NEW s, NEW rows
  PROVE  CountRows(counts, s, rows) \in [Reasons -> Nat]
<1>1. \A T \in SUBSET Exchanges : Cardinality(T) \in Nat
  BY ExchangesFinite, FS_Subset, FS_CardinalityType
<1>2. /\ Cardinality({x \in Exchanges : ~ market[x][s].present}) \in Nat
      /\ Cardinality({x \in Exchanges : market[x][s].present /\ market[x][s].stale}) \in Nat
  BY <1>1
<1>. DEFINE m == Cardinality({x \in Exchanges : ~ market[x][s].present})
            o == Cardinality({x \in Exchanges : market[x][s].present /\ market[x][s].stale})
            f == IF Cardinality(rows) < 2 THEN 1 ELSE 0
<1>3. m \in Nat /\ o \in Nat /\ f \in Nat
  BY <1>2
<1>4. CountRows(counts, s, rows) =
        [counts EXCEPT !["missing_snapshot"] = @ + m, !["stale_snapshot"] = @ + o,
                       !["insufficient_fresh_markets"] = @ + f]
  BY DEF CountRows
<1>. HIDE DEF m, o, f
<1>. QED BY <1>3, <1>4 DEF Reasons

\* The pairs still to be judged are of two exchanges with a fresh quote each.
PairsKnown ==
  \A p \in pairs :
    /\ p \in Symbols \X (DOMAIN Listing) \X (DOMAIN Listing)
    /\ Listing[p[2]] # Listing[p[3]]
    /\ \A k \in {2, 3} : /\ market[Listing[p[k]]][p[1]] \in Rows
                         /\ ~ market[Listing[p[k]]][p[1]].stale

ScanInvariant ==
  /\ slippage_ewma \in [Exchanges -> Nat] /\ ewma_before \in [Exchanges -> Nat]
  /\ rejections \in [Reasons -> Nat]
  /\ cycles \in 0..MaxCycles /\ scanning \in BOOLEAN
  /\ symbols_left \in Seq(Symbols)
  /\ ~ scanning => pairs = {}
  /\ scanning => market \in [Exchanges -> [Symbols -> Snapshots]]
  /\ PairsKnown

\* What a pair is judged with.
LEMMA PairIs ==
  ASSUME ScanInvariant, NEW p \in pairs
  PROVE  /\ p[1] \in Symbols
         /\ Listing[p[2]] \in Exchanges /\ Listing[p[3]] \in Exchanges
         /\ Listing[p[2]] # Listing[p[3]]
         /\ market[Listing[p[2]]][p[1]] \in Rows /\ ~ market[Listing[p[2]]][p[1]].stale
         /\ market[Listing[p[3]]][p[1]] \in Rows /\ ~ market[Listing[p[3]]][p[1]].stale
BY DEF ScanInvariant, PairsKnown, Exchanges, Range

\* Observing a pair moves the averages of its two exchanges, one after the other.
LEMMA ObserveIs ==
  ASSUME NEW ewma \in [Exchanges -> Nat], NEW x \in Exchanges, NEW y \in Exchanges, x # y,
         NEW buy \in Rows, NEW sell \in Rows
  PROVE  /\ Observe(ewma, x, buy, y, sell) \in [Exchanges -> Nat]
         /\ \A z \in Exchanges :
              Observe(ewma, x, buy, y, sell)[z]
                = IF z = x THEN Average(ewma[z], ObservedBuying(buy))
                  ELSE IF z = y THEN Average(ewma[z], ObservedSelling(sell)) ELSE ewma[z]
<1>1. /\ Average(ewma[x], ObservedBuying(buy)) \in Nat
      /\ Average(ewma[y], ObservedSelling(sell)) \in Nat
  BY RowFields, AverageBetween
<1>. QED BY <1>1 DEF Observe

\* The rows of a scan's symbol give the pairs to be judged.
LEMMA PairsOfKnown ==
  ASSUME ScanInvariant, scanning, NEW s \in Symbols, pairs' = PairsOf(s, FreshRows(s)),
         market' = market
  PROVE  PairsKnown'
<1>1. Listing \in Seq(Exchanges) /\ \A i, j \in DOMAIN Listing : Listing[i] = Listing[j] => i = j
  BY EngineAssumption DEF IsInjective
<1>2. \A i \in FreshRows(s) :
        /\ i \in DOMAIN Listing
        /\ market[Listing[i]][s] \in Snapshots
        /\ market[Listing[i]][s].present /\ ~ market[Listing[i]][s].stale
  BY <1>1 DEF FreshRows, ScanInvariant
<1>3. \A p \in pairs' : /\ p \in {s} \X FreshRows(s) \X FreshRows(s)
                        /\ p[2] # p[3]
  BY DEF PairsOf
<1>. QED BY <1>1, <1>2, <1>3 DEF PairsKnown, Rows

\* Every step of the scan keeps the types.
LEMMA ScanStep == ScanInvariant /\ [Next]_vars => ScanInvariant'
<1>. SUFFICES ASSUME ScanInvariant, [Next]_vars PROVE ScanInvariant'
  OBVIOUS
<1>1. CASE BeginScan
  <2>1. SymbolList \in Seq(Symbols)
    BY EngineAssumption
  <2>2. cycles' \in 0..MaxCycles
    BY <1>1, EngineAssumption DEF BeginScan, ScanInvariant
  <2>3. NoRejections \in [Reasons -> Nat]
    BY DEF NoRejections
  <2>. QED BY <1>1, <2>1, <2>2, <2>3 DEF BeginScan, ScanInvariant, PairsKnown
<1>2. CASE ScanSymbol
  <2>1. Head(symbols_left) \in Symbols /\ symbols_left' \in Seq(Symbols)
    BY <1>2, HeadTailProperties DEF ScanSymbol, ScanInvariant
  <2>2. rejections' \in [Reasons -> Nat]
    BY <1>2, CountRowsType DEF ScanSymbol, ScanInvariant
  <2>3. PairsKnown'
    BY <1>2, <2>1, PairsOfKnown DEF ScanSymbol
  <2>. QED BY <1>2, <2>1, <2>2, <2>3 DEF ScanSymbol, ScanInvariant
<1>3. CASE BuildOpportunity
  <2>1. PICK p \in pairs : /\ Build(p[1], Listing[p[2]], Listing[p[3]])
                           /\ pairs' = pairs \ {p}
    BY <1>3 DEF BuildOpportunity
  <2>. DEFINE s == p[1]
              x == Listing[p[2]]
              y == Listing[p[3]]
              ewma == Observe(slippage_ewma, x, market[x][s], y, market[y][s])
              reason == RejectReason(ewma, x, market[x][s], y, market[y][s])
  <2>2. slippage_ewma' \in [Exchanges -> Nat]
    <3>1. slippage_ewma' = ewma
      BY <2>1 DEF Build
    <3>2. /\ x \in Exchanges /\ y \in Exchanges /\ x # y
          /\ market[x][s] \in Rows /\ market[y][s] \in Rows
          /\ slippage_ewma \in [Exchanges -> Nat]
      BY PairIs DEF ScanInvariant
    <3>. HIDE DEF x, y, s
    <3>. QED BY <3>1, <3>2, ObserveIs
  <2>3. rejections' \in [Reasons -> Nat]
    <3>1. \/ rejections' = rejections
          \/ reason # "none" /\ rejections' = [rejections EXCEPT ![reason] = @ + 1]
      BY <2>1 DEF Build
    <3>2. reason \in Reasons \cup {"none"}
      BY ReasonIs
    <3>. HIDE DEF reason
    <3>. QED BY <3>1, <3>2 DEF ScanInvariant
  <2>4. PairsKnown'
    BY <1>3, <2>1 DEF BuildOpportunity, ScanInvariant, PairsKnown
  <2>. QED BY <1>3, <2>2, <2>3, <2>4 DEF BuildOpportunity, ScanInvariant
<1>4. CASE EndScan
  BY <1>4 DEF EndScan, ScanInvariant, PairsKnown
<1>5. CASE UNCHANGED vars
  BY <1>5 DEF vars, ScanInvariant, PairsKnown
<1>. QED BY <1>1, <1>2, <1>3, <1>4, <1>5 DEF Next

\* The types at the start, and with them in every state.
LEMMA ScanHolds == Spec => []ScanInvariant
<1>1. Init => ScanInvariant
  <2>. SUFFICES ASSUME Init PROVE ScanInvariant
    OBVIOUS
  <2>0. SlippagePct \in Int /\ MaxCycles \in Nat
    BY EngineAssumption
  <2>1. BaseSlippage \in Nat
    BY <2>0, MaxPair DEF BaseSlippage
  <2>2. NoRejections \in [Reasons -> Nat] /\ <<>> \in Seq(Symbols)
    BY DEF NoRejections
  <2>3. slippage_ewma \in [Exchanges -> Nat] /\ ewma_before \in [Exchanges -> Nat]
    BY <2>1 DEF Init
  <2>4. /\ rejections = NoRejections /\ symbols_left = <<>>
        /\ cycles = 0 /\ scanning = FALSE /\ pairs = {}
    BY DEF Init
  <2>5. PairsKnown
    BY <2>4 DEF PairsKnown
  <2>6. cycles \in 0..MaxCycles
    BY <2>0, <2>4
  <2>. QED BY <2>2, <2>3, <2>4, <2>5, <2>6 DEF ScanInvariant
<1>. QED BY <1>1, ScanStep, PTL DEF Spec

\* opportunity.py:22-75 and 299-302: the types of a scan; the pairs judged are
\* of fresh rows, and the averages never negative.
THEOREM EngineTypeCorrect == Spec => []TypeOK
<1>1. ScanInvariant => TypeOK
  BY DEF ScanInvariant, PairsKnown, TypeOK
<1>. QED BY <1>1, ScanHolds, PTL

----------------------------------------------------------------------------
(* The slippage averages *)

\* What AverageStaysInRange says of one exchange and one value.
Seen(x) == Observations(x) \cup {ewma_before[x]}
InRange(x, v) == \E low, high \in Seen(x) : low <= v /\ v <= high

\* An average moved towards something seen stays in the range of what is seen.
LEMMA AverageInRange ==
  ASSUME NEW x, Seen(x) \subseteq Nat, NEW v \in Nat, InRange(x, v), NEW observed \in Seen(x)
  PROVE  InRange(x, Average(v, observed))
<1>1. PICK low \in Seen(x), high \in Seen(x) : low <= v /\ v <= high
  BY DEF InRange
<1>. DEFINE avg == Average(v, observed)
<1>2. /\ avg \in Nat
      /\ (v <= avg /\ avg <= observed) \/ (observed <= avg /\ avg <= v)
  BY AverageBetween
<1>. HIDE DEF avg
<1>3. low \in Nat /\ high \in Nat /\ observed \in Nat
  OBVIOUS
<1>4. CASE v <= avg /\ avg <= observed
  <2>1. low <= avg
    BY <1>1, <1>2, <1>3, <1>4
  <2>. QED BY <1>4, <2>1 DEF InRange, avg
<1>5. CASE observed <= avg /\ avg <= v
  <2>1. avg <= high
    BY <1>1, <1>2, <1>3, <1>5
  <2>. QED BY <1>5, <2>1 DEF InRange, avg
<1>. QED BY <1>2, <1>4, <1>5

\* What is seen of an exchange is natural, and a pair's rows are seen.
LEMMA SeenIs ==
  ASSUME ScanInvariant, NEW x \in Exchanges
  PROVE  /\ Seen(x) \subseteq Nat
         /\ \A s \in Symbols :
              market[x][s] \in Rows /\ ~ market[x][s].stale =>
                {ObservedBuying(market[x][s]), ObservedSelling(market[x][s])} \subseteq Seen(x)
<1>1. ewma_before[x] \in Nat
  BY DEF ScanInvariant
<1>2. Observations(x) \subseteq Nat
  BY RowFields DEF Observations
<1>. QED BY <1>1, <1>2 DEF Seen, Observations

\* Every step keeps the averages in range: they move only by observations of
\* this scan's fresh rows.
LEMMA AverageStep ==
  ScanInvariant /\ AverageStaysInRange /\ [Next]_vars => AverageStaysInRange'
<1>. SUFFICES ASSUME ScanInvariant, AverageStaysInRange, [Next]_vars
              PROVE  AverageStaysInRange'
  OBVIOUS
<1>1. AverageStaysInRange <=> (scanning => \A x \in Exchanges : InRange(x, slippage_ewma[x]))
  BY DEF AverageStaysInRange, InRange, Seen
<1>2. CASE BeginScan
  <2>1. \A x \in Exchanges : ewma_before'[x] = slippage_ewma'[x] /\ slippage_ewma'[x] \in Nat
    BY <1>2 DEF BeginScan, ScanInvariant
  <2>. QED BY <2>1 DEF AverageStaysInRange
<1>3. CASE ScanSymbol
  BY <1>3 DEF ScanSymbol, AverageStaysInRange, Observations
<1>4. CASE BuildOpportunity
  <2>1. PICK p \in pairs : Build(p[1], Listing[p[2]], Listing[p[3]])
    BY <1>4 DEF BuildOpportunity
  <2>. DEFINE s == p[1]
              x == Listing[p[2]]
              y == Listing[p[3]]
  <2>2. /\ s \in Symbols /\ x \in Exchanges /\ y \in Exchanges /\ x # y
        /\ market[x][s] \in Rows /\ ~ market[x][s].stale
        /\ market[y][s] \in Rows /\ ~ market[y][s].stale
        /\ slippage_ewma \in [Exchanges -> Nat]
    BY PairIs DEF ScanInvariant
  <2>3. slippage_ewma' = Observe(slippage_ewma, x, market[x][s], y, market[y][s])
    BY <2>1 DEF Build
  <2>4. scanning /\ UNCHANGED <<market, ewma_before>>
    BY <1>4 DEF BuildOpportunity
  <2>. HIDE DEF s, x, y
  <2>5. \A z \in Exchanges : InRange(z, slippage_ewma'[z])
    <3>. SUFFICES ASSUME NEW z \in Exchanges PROVE InRange(z, slippage_ewma'[z])
      OBVIOUS
    <3>1. /\ Seen(z) \subseteq Nat /\ slippage_ewma[z] \in Nat
          /\ InRange(z, slippage_ewma[z])
      BY <1>1, <2>2, <2>4, SeenIs
    <3>2. slippage_ewma'[z]
            = IF z = x THEN Average(slippage_ewma[z], ObservedBuying(market[x][s]))
              ELSE IF z = y THEN Average(slippage_ewma[z], ObservedSelling(market[y][s]))
              ELSE slippage_ewma[z]
      BY <2>2, <2>3, ObserveIs
    <3>3. /\ ObservedBuying(market[x][s]) \in Seen(x)
          /\ ObservedSelling(market[y][s]) \in Seen(y)
      BY <2>2, SeenIs
    <3>4. CASE z = x
      BY <3>1, <3>2, <3>3, <3>4, AverageInRange
    <3>5. CASE z # x /\ z = y
      BY <3>1, <3>2, <3>3, <3>5, AverageInRange
    <3>6. CASE z # x /\ z # y
      BY <3>1, <3>2, <3>6
    <3>. QED BY <3>4, <3>5, <3>6
  <2>6. \A z \in Exchanges : Seen(z)' = Seen(z)
    BY <2>4 DEF Seen, Observations
  <2>. QED BY <2>5, <2>6 DEF AverageStaysInRange, InRange, Seen
<1>5. CASE EndScan
  BY <1>5 DEF EndScan, AverageStaysInRange
<1>6. CASE UNCHANGED vars
  BY <1>6 DEF vars, AverageStaysInRange, Observations
<1>. QED BY <1>2, <1>3, <1>4, <1>5, <1>6 DEF Next

\* opportunity.py:113-114 and 302: however often the pairs of a scan move an
\* average, it stays between what it was and what was observed.
THEOREM AveragesInRange == Spec => []AverageStaysInRange
<1>1. Init => AverageStaysInRange
  BY DEF Init, AverageStaysInRange
<1>. QED BY <1>1, AverageStep, ScanHolds, PTL DEF Spec

----------------------------------------------------------------------------
(* What is offered *)

\* All found so far are offers, and they are sorted once the scan is over.
OffersKnown ==
  /\ \E S : opportunities \in Seq(S) /\ \A o \in S : Offer(o)
  /\ BestComeFirst

\* The offers are about the market of the scan, which does not change in it.
LEMMA OffersStep ==
  ScanInvariant /\ OffersKnown /\ [Next]_vars => OffersKnown'
<1>. SUFFICES ASSUME ScanInvariant, OffersKnown, [Next]_vars PROVE OffersKnown'
  OBVIOUS
<1>1. PICK S : opportunities \in Seq(S) /\ \A o \in S : Offer(o)
  BY DEF OffersKnown
<1>2. CASE BeginScan
  <2>1. opportunities' \in Seq({}) /\ \A o \in {} : Offer(o)'
    BY <1>2 DEF BeginScan
  <2>2. BestComeFirst'
    BY <1>2 DEF BeginScan, BestComeFirst
  <2>. QED BY <2>1, <2>2 DEF OffersKnown
<1>3. CASE UNCHANGED <<opportunities, market>> /\ (scanning' \/ UNCHANGED scanning)
  BY <1>1, <1>3 DEF OffersKnown, BestComeFirst, Offer, Fits, Visible, Shown, Rated
<1>4. CASE ScanSymbol
  BY <1>3, <1>4 DEF ScanSymbol
<1>5. CASE BuildOpportunity
  <2>1. PICK p \in pairs : Build(p[1], Listing[p[2]], Listing[p[3]])
    BY <1>5 DEF BuildOpportunity
  <2>. DEFINE s == p[1]
              x == Listing[p[2]]
              y == Listing[p[3]]
              ewma == Observe(slippage_ewma, x, market[x][s], y, market[y][s])
              new == Opportunity(ewma, s, x, market[x][s], y, market[y][s])
  <2>2. /\ s \in Symbols /\ x \in Exchanges /\ y \in Exchanges /\ x # y
        /\ market[x][s] \in Rows /\ market[y][s] \in Rows
        /\ slippage_ewma \in [Exchanges -> Nat]
    BY PairIs DEF ScanInvariant
  <2>3. UNCHANGED <<market, scanning>> /\ scanning
    BY <1>5 DEF BuildOpportunity
  <2>4. \/ UNCHANGED opportunities
        \/ /\ opportunities' = Append(opportunities, new)
           /\ RejectReason(ewma, x, market[x][s], y, market[y][s]) = "none"
    BY <2>1 DEF Build
  <2>5. ewma \in [Exchanges -> Nat]
    <3>. HIDE DEF s, x, y
    <3>. QED BY <2>2, ObserveIs
  <2>. HIDE DEF s, x, y, ewma
  <2>6. CASE UNCHANGED opportunities
    BY <1>3, <2>3, <2>6
  <2>7. CASE /\ opportunities' = Append(opportunities, new)
             /\ RejectReason(ewma, x, market[x][s], y, market[y][s]) = "none"
    <3>1. Offer(new)
      BY <2>2, <2>5, <2>7, BuiltIsOffer
    <3>. HIDE DEF new
    <3>. DEFINE T == S \cup {new}
    <3>2. opportunities \in Seq(T)
      BY <1>1
    <3>3. opportunities' \in Seq(T)
      BY <2>7, <3>2, AppendProperties
    <3>4. \A o \in T : Offer(o)
      BY <1>1, <3>1
    <3>5. \A o \in T : Offer(o)'
      BY <2>3, <3>4 DEF Offer, Fits, Visible, Shown, Rated
    <3>6. BestComeFirst'
      BY <2>3 DEF BestComeFirst
    <3>. QED BY <3>3, <3>5, <3>6 DEF OffersKnown
  <2>. QED BY <2>4, <2>6, <2>7
<1>6. CASE EndScan
  <2>1. opportunities' = Ranked(opportunities) /\ market' = market
    BY <1>6 DEF EndScan
  <2>2. \A o \in S : o.expected_profit \in Int
    BY <1>1 DEF Offer
  <2>3. /\ opportunities' \in Seq(S)
        /\ \A j, k \in DOMAIN opportunities' :
             j < k => opportunities'[j].expected_profit >= opportunities'[k].expected_profit
    BY <1>1, <2>1, <2>2, RankedIsSorted
  <2>4. \A o \in S : Offer(o)'
    BY <1>1, <2>1 DEF Offer, Fits, Visible, Shown, Rated
  <2>. QED BY <2>3, <2>4 DEF OffersKnown, BestComeFirst
<1>7. CASE UNCHANGED vars
  BY <1>3, <1>7 DEF vars
<1>. QED BY <1>2, <1>4, <1>5, <1>6, <1>7 DEF Next

\* The offers, in every state.
LEMMA OffersHold == Spec => []OffersKnown
<1>1. Init => OffersKnown
  <2>. SUFFICES ASSUME Init PROVE OffersKnown
    OBVIOUS
  <2>1. opportunities \in Seq({}) /\ \A o \in {} : Offer(o)
    BY DEF Init
  <2>2. BestComeFirst
    BY DEF Init, BestComeFirst
  <2>. QED BY <2>1, <2>2 DEF OffersKnown
<1>. QED BY <1>1, OffersStep, ScanHolds, PTL DEF Spec

\* Each of them is one.
LEMMA EachIsOffer ==
  ASSUME OffersKnown
  PROVE  \A k \in DOMAIN opportunities : Offer(opportunities[k])
<1>1. PICK S : opportunities \in Seq(S) /\ \A o \in S : Offer(o)
  BY DEF OffersKnown
<1>. QED BY <1>1

\* opportunity.py:205-255: what the executor relies on without checking, for
\* every market and configuration, negative thresholds included.
THEOREM EmittedFits == Spec => []EmittedFitsExecutor
<1>1. OffersKnown => EmittedFitsExecutor
  BY EachIsOffer DEF Offer, Fits, EmittedFitsExecutor
<1>. QED BY <1>1, OffersHold, PTL

\* opportunity.py:205-223 and 361-365: no trade is larger than any volume or
\* depth that is known of the sides it takes and of its queue; where depth is
\* required (opportunity.py:171-178), that of the taken sides is known.
THEOREM QuantityVisible == Spec => []QuantityIsVisible
<1>1. OffersKnown => QuantityIsVisible
  BY EachIsOffer DEF Offer, Visible, QuantityIsVisible
<1>. QED BY <1>1, OffersHold, PTL

\* opportunity.py:332-358, 242-245 and executor.py:137: a maker order behind a
\* queue of unknown length fills only with nearly three fifths of the reference
\* as its edge, for every timeout.  Neither the number of requotes nor their
\* boost matters: it is the expected fill time that keeps the others out.
THEOREM UnknownQueue == Spec => []UnknownQueueNeedsEdge
<1>1. OffersKnown => UnknownQueueNeedsEdge
  BY EachIsOffer DEF Offer, Rated, EdgeSuffices, UnknownQueueNeedsEdge
<1>. QED BY <1>1, OffersHold, PTL

\* opportunity.py:65: the scan returns the best first.
THEOREM BestFirst == Spec => []BestComeFirst
<1>1. OffersKnown => BestComeFirst
  BY DEF OffersKnown
<1>. QED BY <1>1, OffersHold, PTL
----------------------------------------------------------------------------
(* What a scan accounts for *)

\* n rows make n * (n - 1) ordered pairs.
LEMMA PairCount ==
  ASSUME NEW rows, IsFiniteSet(rows), NEW s
  PROVE  /\ IsFiniteSet(PairsOf(s, rows))
         /\ Cardinality(PairsOf(s, rows)) = Cardinality(rows) * (Cardinality(rows) - 1)
<1>. DEFINE n == Cardinality(rows)
            Square == rows \X rows
            Same == {q \in Square : q[1] = q[2]}
            Different == Square \ Same
            P == PairsOf(s, rows)
<1>1. n \in Nat
  BY FS_CardinalityType
<1>2. IsFiniteSet(Square) /\ Cardinality(Square) = n * n
  BY FS_Product
<1>3. Cardinality(Same) = n
  <2>. DEFINE f == [i \in rows |-> <<i, i>>]
  <2>1. \A i \in rows : <<i, i>> \in Same
    OBVIOUS
  <2>2. \A q \in Same : q[1] \in rows /\ q = <<q[1], q[1]>>
    OBVIOUS
  <2>. HIDE DEF Same
  <2>3. f \in Injection(rows, Same) /\ f \in Surjection(rows, Same)
    BY <2>1, <2>2 DEF Injection, IsInjective, Surjection
  <2>. HIDE DEF f
  <2>4. ExistsBijection(rows, Same)
    BY <2>3 DEF ExistsBijection, Bijection
  <2>. QED BY <2>4, FS_Bijection
<1>4. IsFiniteSet(Different) /\ Cardinality(Different) = n * n - n
  <2>1. Square \cap Same = Same
    OBVIOUS
  <2>. HIDE DEF Square, Same
  <2>. QED BY <1>2, <1>3, <2>1, FS_Difference
<1>5. ExistsBijection(Different, P)
  <2>. DEFINE f == [q \in Different |-> <<s, q[1], q[2]>>]
  <2>1. \A q \in Different : /\ q[1] \in rows /\ q[2] \in rows /\ q = <<q[1], q[2]>>
                            /\ <<s, q[1], q[2]>> \in P
    BY DEF PairsOf
  <2>2. \A p \in P : <<p[2], p[3]>> \in Different /\ p = <<s, p[2], p[3]>>
    BY DEF PairsOf
  <2>. HIDE DEF Different, P
  <2>3. f \in [Different -> P]
    BY <2>1
  <2>4. \A q, r \in Different : f[q] = f[r] => q = r
    BY <2>1
  <2>5. \A p \in P : \E q \in Different : f[q] = p
    BY <2>2
  <2>. HIDE DEF f
  <2>6. f \in Bijection(Different, P)
    BY <2>3, <2>4, <2>5 DEF Bijection, Injection, IsInjective, Surjection
  <2>. QED BY <2>6 DEF ExistsBijection
<1>6. IsFiniteSet(P) /\ Cardinality(P) = n * n - n
  <2>. HIDE DEF Different, P
  <2>. QED BY <1>4, <1>5, FS_Bijection
<1>7. n * n - n = n * (n - 1)
  BY <1>1
<1>. QED BY <1>6, <1>7

\* The exchanges that have no row of a symbol, a stale one, and a fresh one.
MissingOf(s) == Cardinality({x \in Exchanges : ~ market[x][s].present})
StaleOf(s) == Cardinality({x \in Exchanges : market[x][s].present /\ market[x][s].stale})
FreshOf(s) == Cardinality({x \in Exchanges : market[x][s].present /\ ~ market[x][s].stale})

LEMMA RowCountTypes ==
  ASSUME NEW s
  PROVE  MissingOf(s) \in Nat /\ StaleOf(s) \in Nat /\ FreshOf(s) \in Nat
<1>1. \A T \in SUBSET Exchanges : Cardinality(T) \in Nat
  BY ExchangesFinite, FS_Subset, FS_CardinalityType
<1>. QED BY <1>1 DEF MissingOf, StaleOf, FreshOf

\* The positions of a symbol's fresh rows are as many as its exchanges.
LEMMA FreshCount ==
  ASSUME NEW s
  PROVE  /\ IsFiniteSet(FreshRows(s))
         /\ Cardinality(FreshRows(s)) = FreshOf(s)
<1>. DEFINE D == DOMAIN Listing
            F == FreshRows(s)
            X == {x \in Exchanges : market[x][s].present /\ ~ market[x][s].stale}
            f == [i \in F |-> Listing[i]]
<1>1. Listing \in Seq(Exchanges) /\ \A i, j \in D : Listing[i] = Listing[j] => i = j
  BY EngineAssumption DEF IsInjective
<1>2. IsFiniteSet(F)
  <2>1. Len(Listing) \in Nat /\ D = 1..Len(Listing)
    BY <1>1
  <2>2. IsFiniteSet(D)
    BY <2>1, FS_Interval
  <2>3. F \subseteq D
    BY DEF FreshRows
  <2>. HIDE DEF D, F
  <2>. QED BY <2>2, <2>3, FS_Subset
<1>3. \A i \in F : i \in D /\ Listing[i] \in X
  BY DEF FreshRows, Exchanges, Range
<1>4. \A x \in X : \E i \in F : Listing[i] = x
  BY DEF FreshRows, Exchanges, Range
<1>. HIDE DEF F, X, D
<1>5. f \in Bijection(F, X)
  BY <1>1, <1>3, <1>4 DEF Bijection, Injection, IsInjective, Surjection
<1>. HIDE DEF f
<1>6. ExistsBijection(F, X)
  BY <1>5 DEF ExistsBijection
<1>7. Cardinality(X) = Cardinality(F)
  BY <1>2, <1>6, FS_Bijection
<1>. QED BY <1>2, <1>7 DEF F, X, FreshOf

LEMMA FourAreFinite ==
  ASSUME NEW a, NEW b, NEW c, NEW d
  PROVE  IsFiniteSet({a, b, c, d})
<1>1. IsFiniteSet({a})
  BY FS_Singleton
<1>2. IsFiniteSet({a} \cup {b})
  BY <1>1, FS_AddElement
<1>3. IsFiniteSet(({a} \cup {b}) \cup {c})
  BY <1>2, FS_AddElement
<1>4. IsFiniteSet((({a} \cup {b}) \cup {c}) \cup {d})
  BY <1>3, FS_AddElement
<1>5. {a, b, c, d} = (({a} \cup {b}) \cup {c}) \cup {d}
  OBVIOUS
<1>. QED BY <1>4, <1>5

\* There are finitely many reasons.
LEMMA ReasonsFinite ==
  /\ IsFiniteSet(Reasons) /\ IsFiniteSet(Unpriced) /\ Unpriced \subseteq Reasons
  /\ {"missing_snapshot", "stale_snapshot", "insufficient_fresh_markets"}
       \subseteq Reasons \ Unpriced
<1>. DEFINE S == {"missing_snapshot", "stale_snapshot", "insufficient_fresh_markets",
                  "depth_liquidity_missing"}
            T == {"invalid_price", "net_spread_below_auto_threshold",
                  "insufficient_trade_size", "non_positive_expected_profit"}
<1>1. IsFiniteSet(S) /\ IsFiniteSet(T)
  BY FourAreFinite
<1>2. Reasons = S \cup T
  BY DEF Reasons
<1>3. /\ Unpriced \subseteq Reasons
      /\ {"missing_snapshot", "stale_snapshot", "insufficient_fresh_markets"}
           \subseteq Reasons \ Unpriced
  BY DEF Reasons, Unpriced
<1>. HIDE DEF S, T
<1>4. IsFiniteSet(Reasons)
  BY <1>1, <1>2, FS_Union
<1>. QED BY <1>3, <1>4, FS_Subset

\* More rejections for a reason are as many more in every sum that has it.
LEMMA OneMore ==
  ASSUME NEW counts, \A x \in Reasons : counts[x] \in Int,
         NEW new, NEW r \in Reasons, NEW d \in Int, new[r] = counts[r] + d,
         \A x \in Reasons \ {r} : new[x] = counts[x]
  PROVE  \A S \in SUBSET Reasons :
           /\ SumFunctionOnSet(counts, S) \in Int
           /\ r \in S => SumFunctionOnSet(new, S) = SumFunctionOnSet(counts, S) + d
           /\ r \notin S => SumFunctionOnSet(new, S) = SumFunctionOnSet(counts, S)
<1>1. ASSUME NEW S \in SUBSET Reasons
      PROVE  /\ SumFunctionOnSet(counts, S) \in Int
             /\ r \in S => SumFunctionOnSet(new, S) = SumFunctionOnSet(counts, S) + d
             /\ r \notin S => SumFunctionOnSet(new, S) = SumFunctionOnSet(counts, S)
  <2>1. IsFiniteSet(S)
    BY ReasonsFinite, FS_Subset
  <2>2. \A x \in S : counts[x] \in Int
    OBVIOUS
  <2>3. ASSUME r \in S
        PROVE  SumFunctionOnSet(new, S) = SumFunctionOnSet(counts, S) + d
    <3>1. \A x \in S \ {r} : new[x] = counts[x]
      OBVIOUS
    <3>. QED BY <2>1, <2>2, <2>3, <3>1, SumShift
  <2>4. ASSUME r \notin S
        PROVE  SumFunctionOnSet(new, S) = SumFunctionOnSet(counts, S)
    <3>1. \A x \in S : new[x] = counts[x]
      BY <2>4
    <3>. QED BY <2>1, <3>1, SumSame
  <2>. QED BY <2>1, <2>2, <2>3, <2>4, SumType
<1>. QED BY <1>1

\* What the rows of a symbol add to the counts.
LEMMA RowsCounted ==
  ASSUME NEW counts \in [Reasons -> Nat], NEW s, NEW rows
  PROVE  LET m == MissingOf(s)
             o == StaleOf(s)
             f == IF Cardinality(rows) < 2 THEN 1 ELSE 0
             new == CountRows(counts, s, rows)
         IN  /\ m \in Nat /\ o \in Nat
             /\ new["missing_snapshot"] = counts["missing_snapshot"] + m
             /\ new["stale_snapshot"] = counts["stale_snapshot"] + o
             /\ new["insufficient_fresh_markets"] = counts["insufficient_fresh_markets"] + f
             /\ SumFunctionOnSet(new, Unpriced) = SumFunctionOnSet(counts, Unpriced)
             /\ SumFunctionOnSet(new, Reasons) = SumFunctionOnSet(counts, Reasons) + m + o + f
<1>. DEFINE m == MissingOf(s)
            o == StaleOf(s)
            f == IF Cardinality(rows) < 2 THEN 1 ELSE 0
            new == CountRows(counts, s, rows)
            one == [counts EXCEPT !["missing_snapshot"] = @ + m]
            two == [one EXCEPT !["stale_snapshot"] = @ + o]
            three == [two EXCEPT !["insufficient_fresh_markets"] = @ + f]
<1>2. m \in Nat /\ o \in Nat /\ f \in Nat
  BY RowCountTypes
<1>3. new = [counts EXCEPT !["missing_snapshot"] = @ + m, !["stale_snapshot"] = @ + o,
                           !["insufficient_fresh_markets"] = @ + f]
  BY DEF CountRows, MissingOf, StaleOf
<1>. HIDE DEF m, o, f, new
<1>4. new = three
  BY <1>2, <1>3, ReasonsFinite
<1>5. /\ "missing_snapshot" \in Reasons /\ "missing_snapshot" \notin Unpriced
      /\ "stale_snapshot" \in Reasons /\ "stale_snapshot" \notin Unpriced
      /\ "insufficient_fresh_markets" \in Reasons
      /\ "insufficient_fresh_markets" \notin Unpriced
      /\ Unpriced \in SUBSET Reasons /\ Reasons \in SUBSET Reasons
  BY ReasonsFinite
<1>6. /\ one["missing_snapshot"] = counts["missing_snapshot"] + m
      /\ \A r \in Reasons \ {"missing_snapshot"} : one[r] = counts[r]
      /\ \A r \in Reasons : counts[r] \in Int /\ one[r] \in Int
      /\ one \in [Reasons -> Nat]
  BY <1>2, <1>5
<1>. HIDE DEF one
<1>7. /\ two["stale_snapshot"] = one["stale_snapshot"] + o
      /\ \A r \in Reasons \ {"stale_snapshot"} : two[r] = one[r]
      /\ \A r \in Reasons : two[r] \in Int
      /\ two \in [Reasons -> Nat]
  BY <1>2, <1>5, <1>6
<1>. HIDE DEF two
<1>8. /\ three["insufficient_fresh_markets"] = two["insufficient_fresh_markets"] + f
      /\ \A r \in Reasons \ {"insufficient_fresh_markets"} : three[r] = two[r]
  BY <1>2, <1>5, <1>7
<1>. HIDE DEF three
<1>9. /\ SumFunctionOnSet(one, Unpriced) = SumFunctionOnSet(counts, Unpriced)
      /\ SumFunctionOnSet(one, Reasons) = SumFunctionOnSet(counts, Reasons) + m
  BY <1>2, <1>5, <1>6, OneMore
<1>10. /\ SumFunctionOnSet(two, Unpriced) = SumFunctionOnSet(one, Unpriced)
       /\ SumFunctionOnSet(two, Reasons) = SumFunctionOnSet(one, Reasons) + o
  <2>1. o \in Int /\ "stale_snapshot" \in Reasons
    BY <1>2, <1>5
  <2>2. /\ \A r \in Reasons : one[r] \in Int
        /\ two["stale_snapshot"] = one["stale_snapshot"] + o
        /\ \A r \in Reasons \ {"stale_snapshot"} : two[r] = one[r]
    BY <1>6, <1>7
  <2>3. \A S \in SUBSET Reasons :
          /\ "stale_snapshot" \in S =>
               SumFunctionOnSet(two, S) = SumFunctionOnSet(one, S) + o
          /\ "stale_snapshot" \notin S =>
               SumFunctionOnSet(two, S) = SumFunctionOnSet(one, S)
    BY <2>1, <2>2, OneMore
  <2>. QED BY <1>5, <2>3
<1>11. /\ SumFunctionOnSet(three, Unpriced) = SumFunctionOnSet(two, Unpriced)
       /\ SumFunctionOnSet(three, Reasons) = SumFunctionOnSet(two, Reasons) + f
  BY <1>2, <1>5, <1>7, <1>8, OneMore
<1>12. SumFunctionOnSet(new, Unpriced) = SumFunctionOnSet(counts, Unpriced)
  BY <1>4, <1>9, <1>10, <1>11
<1>13. SumFunctionOnSet(new, Reasons) = SumFunctionOnSet(counts, Reasons) + m + o + f
  BY <1>4, <1>9, <1>10, <1>11
<1>14. /\ new["missing_snapshot"] = counts["missing_snapshot"] + m
       /\ new["stale_snapshot"] = counts["stale_snapshot"] + o
       /\ new["insufficient_fresh_markets"] = counts["insufficient_fresh_markets"] + f
  BY <1>4, <1>5, <1>6, <1>7, <1>8
<1>. QED BY <1>2, <1>12, <1>13, <1>14 DEF m, o, f, new

\* What each symbol of the configuration adds, and the pairs it makes.
MissingAt == [i \in DOMAIN SymbolList |-> MissingOf(SymbolList[i])]
StaleAt == [i \in DOMAIN SymbolList |-> StaleOf(SymbolList[i])]
FreshAt == [i \in DOMAIN SymbolList |-> FreshOf(SymbolList[i])]
JudgedAt == [i \in DOMAIN SymbolList |-> FreshAt[i] * (FreshAt[i] - 1)]

\* The positions of the symbols scanned so far.
Scanned == 1..(Len(SymbolList) - Len(symbols_left))

\* What is true of the counts in the middle of a scan: the pairs of the symbols
\* scanned so far are rejected, offered or still to be judged.
Counted ==
  LET judged == SumFunctionOnSet(JudgedAt, Scanned)
  IN  /\ rejections["missing_snapshot"] = SumFunctionOnSet(MissingAt, Scanned)
      /\ rejections["stale_snapshot"] = SumFunctionOnSet(StaleAt, Scanned)
      /\ rejections["insufficient_fresh_markets"]
           = Cardinality({i \in Scanned : FreshAt[i] < 2})
      /\ SumFunctionOnSet(rejections, Reasons) + Len(opportunities) + Cardinality(pairs)
           = judged + rejections["missing_snapshot"] + rejections["stale_snapshot"]
               + rejections["insufficient_fresh_markets"]
      /\ Len(samples) + SumFunctionOnSet(rejections, Unpriced) + Cardinality(pairs) = judged

\* The symbols left are the last of the configuration.
LeftAreLast ==
  /\ Len(symbols_left) <= Len(SymbolList)
  /\ \A k \in 1..Len(symbols_left) :
       symbols_left[k] = SymbolList[Len(SymbolList) - Len(symbols_left) + k]

AccountInvariant ==
  /\ LeftAreLast
  /\ samples \in Seq(Int) /\ IsFiniteSet(pairs)
  /\ cycles > 0 => Counted
  /\ ~ scanning => symbols_left = <<>>
  /\ ~ scanning /\ cycles > 0 => distribution = Distribution(samples)

LEMMA AtTypes ==
  /\ Len(SymbolList) \in Nat /\ DOMAIN SymbolList = 1..Len(SymbolList)
  /\ \A i \in DOMAIN SymbolList :
       /\ MissingAt[i] \in Nat /\ StaleAt[i] \in Nat /\ FreshAt[i] \in Nat
       /\ JudgedAt[i] \in Int
<1>1. Len(SymbolList) \in Nat /\ DOMAIN SymbolList = 1..Len(SymbolList)
  BY EngineAssumption
<1>3. ASSUME NEW i \in DOMAIN SymbolList
      PROVE  /\ MissingAt[i] \in Nat /\ StaleAt[i] \in Nat /\ FreshAt[i] \in Nat
  BY RowCountTypes DEF MissingAt, StaleAt, FreshAt
<1>4. \A i \in DOMAIN SymbolList : JudgedAt[i] \in Int
  BY <1>3 DEF JudgedAt
<1>. QED BY <1>1, <1>3, <1>4

\* The symbols scanned are positions of the configuration.
LEMMA ScannedIs ==
  ASSUME LeftAreLast, symbols_left \in Seq(Symbols)
  PROVE  /\ Len(SymbolList) - Len(symbols_left) \in Nat
         /\ IsFiniteSet(Scanned) /\ Scanned \subseteq DOMAIN SymbolList
<1>. DEFINE n == Len(SymbolList) - Len(symbols_left)
<1>1. n \in Nat /\ n <= Len(SymbolList)
  BY AtTypes DEF LeftAreLast
<1>. HIDE DEF n
<1>2. 1..n \subseteq 1..Len(SymbolList)
  BY <1>1, AtTypes
<1>3. IsFiniteSet(1..n)
  BY <1>1, FS_Interval
<1>. QED BY <1>1, <1>2, <1>3, AtTypes DEF n, Scanned

\* A scan begins with nothing counted.
LEMMA AccountBegin ==
  ASSUME ScanInvariant, AccountInvariant, BeginScan
  PROVE  AccountInvariant'
<1>1. /\ symbols_left' = SymbolList /\ samples' = <<>> /\ opportunities' = <<>>
      /\ rejections' = NoRejections /\ pairs' = pairs /\ pairs = {} /\ scanning'
  BY DEF BeginScan, ScanInvariant
<1>2. LeftAreLast'
  BY <1>1, AtTypes DEF LeftAreLast
<1>3. Scanned' = {}
  <2>1. Scanned' = 1..(Len(SymbolList) - Len(SymbolList))
    BY <1>1 DEF Scanned
  <2>. QED BY <2>1, AtTypes
<1>4. \A f : SumFunctionOnSet(f, {}) = 0
  BY SumEmpty
<1>5. {i \in Scanned' : FreshAt'[i] < 2} = {} /\ Cardinality({}) = 0
  BY <1>3, FS_EmptySet
<1>6. SumFunctionOnSet(NoRejections, Reasons) = 0 /\ SumFunctionOnSet(NoRejections, Unpriced) = 0
  <2>1. /\ \A r \in Reasons : NoRejections[r] = 0
        /\ \A r \in Unpriced : NoRejections[r] = 0
    BY ReasonsFinite DEF NoRejections
  <2>2. /\ SumFunctionOnSet(NoRejections, Reasons) = 0 * Cardinality(Reasons)
        /\ SumFunctionOnSet(NoRejections, Unpriced) = 0 * Cardinality(Unpriced)
    BY <2>1, ReasonsFinite, SumConstant
  <2>3. Cardinality(Reasons) \in Int /\ Cardinality(Unpriced) \in Int
    BY ReasonsFinite, FS_CardinalityType
  <2>. QED BY <2>2, <2>3
<1>7. /\ rejections'["missing_snapshot"] = 0 /\ rejections'["stale_snapshot"] = 0
      /\ rejections'["insufficient_fresh_markets"] = 0
  BY <1>1, ReasonsFinite DEF NoRejections
<1>8. Len(<<>>) = 0
  OBVIOUS
<1>9. Counted'
  BY <1>1, <1>3, <1>4, <1>5, <1>6, <1>7, <1>8 DEF Counted
<1>10. samples' \in Seq(Int) /\ IsFiniteSet(pairs')
  BY <1>1, FS_EmptySet
<1>. QED BY <1>1, <1>2, <1>9, <1>10 DEF AccountInvariant

\* A symbol's rows and pairs are added to the counts.
LEMMA AccountScan ==
  ASSUME ScanInvariant, OffersKnown, AccountInvariant, ScanSymbol
  PROVE  AccountInvariant'
<1>. DEFINE n == Len(SymbolList) - Len(symbols_left)
            s == Head(symbols_left)
            rows == FreshRows(s)
            m == MissingOf(s)
            o == StaleOf(s)
            f == IF Cardinality(rows) < 2 THEN 1 ELSE 0
<1>1. /\ symbols_left # <<>> /\ symbols_left \in Seq(Symbols) /\ pairs = {}
      /\ symbols_left' = Tail(symbols_left)
      /\ rejections' = CountRows(rejections, s, rows) /\ pairs' = PairsOf(s, rows)
      /\ UNCHANGED <<market, opportunities, samples, cycles, scanning>> /\ scanning
      /\ rejections \in [Reasons -> Nat]
  BY DEF ScanSymbol, ScanInvariant
<1>2. LeftAreLast /\ samples \in Seq(Int)
  BY DEF AccountInvariant
<1>3. /\ Len(symbols_left) \in Nat \ {0} /\ Len(symbols_left') = Len(symbols_left) - 1
      /\ s = symbols_left[1]
      /\ \A k \in 1..Len(symbols_left') : symbols_left'[k] = symbols_left[k + 1]
  BY <1>1, HeadTailProperties
<1>4. /\ n \in Nat /\ IsFiniteSet(Scanned) /\ Scanned \subseteq DOMAIN SymbolList
      /\ Scanned = 1..n
  BY <1>1, <1>2, ScannedIs DEF Scanned
<1>5. n + 1 \in DOMAIN SymbolList /\ s = SymbolList[n + 1]
  BY <1>2, <1>3, <1>4, AtTypes DEF LeftAreLast
<1>6. LeftAreLast'
  BY <1>2, <1>3, AtTypes DEF LeftAreLast
<1>7. n + 1 \notin Scanned /\ Scanned' = Scanned \cup {n + 1}
  <2>1. Len(SymbolList) - Len(symbols_left') = n + 1
    BY <1>3, AtTypes
  <2>2. Scanned' = 1..(n + 1)
    BY <2>1 DEF Scanned
  <2>. HIDE DEF n
  <2>. QED BY <1>4, <2>2
<1>8. /\ MissingAt' = MissingAt /\ StaleAt' = StaleAt /\ FreshAt' = FreshAt
      /\ JudgedAt' = JudgedAt
  BY <1>1 DEF MissingAt, StaleAt, FreshAt, JudgedAt, MissingOf, StaleOf, FreshOf
<1>9. /\ MissingAt[n + 1] = m /\ StaleAt[n + 1] = o
      /\ Cardinality(rows) = FreshAt[n + 1]
      /\ JudgedAt[n + 1] = FreshAt[n + 1] * (FreshAt[n + 1] - 1)
      /\ IsFiniteSet(rows)
  <2>1. /\ MissingAt[n + 1] = m /\ StaleAt[n + 1] = o
        /\ JudgedAt[n + 1] = FreshAt[n + 1] * (FreshAt[n + 1] - 1)
        /\ FreshAt[n + 1] = FreshOf(s)
    BY <1>5 DEF MissingAt, StaleAt, FreshAt, JudgedAt
  <2>. QED BY <2>1, FreshCount
<1>10. IsFiniteSet(pairs') /\ Cardinality(pairs') = JudgedAt[n + 1]
  <2>. HIDE DEF rows, n
  <2>. QED BY <1>1, <1>9, PairCount
<1>. HIDE DEF n
<1>11. \A i \in Scanned \cup {n + 1} :
         /\ MissingAt[i] \in Int /\ StaleAt[i] \in Int /\ JudgedAt[i] \in Int
         /\ FreshAt[i] \in Int
  BY <1>4, <1>5, AtTypes
<1>12. /\ SumFunctionOnSet(MissingAt, Scanned') = m + SumFunctionOnSet(MissingAt, Scanned)
       /\ SumFunctionOnSet(StaleAt, Scanned') = o + SumFunctionOnSet(StaleAt, Scanned)
       /\ SumFunctionOnSet(JudgedAt, Scanned')
            = JudgedAt[n + 1] + SumFunctionOnSet(JudgedAt, Scanned)
  <2>. HIDE DEF m, o
  <2>1. /\ SumFunctionOnSet(MissingAt, Scanned \cup {n + 1})
            = MissingAt[n + 1] + SumFunctionOnSet(MissingAt, Scanned)
        /\ SumFunctionOnSet(StaleAt, Scanned \cup {n + 1})
            = StaleAt[n + 1] + SumFunctionOnSet(StaleAt, Scanned)
        /\ SumFunctionOnSet(JudgedAt, Scanned \cup {n + 1})
            = JudgedAt[n + 1] + SumFunctionOnSet(JudgedAt, Scanned)
    BY <1>4, <1>7, <1>11, SumInsert
  <2>. QED BY <1>7, <1>9, <2>1
<1>13. /\ SumFunctionOnSet(MissingAt, Scanned) \in Int
       /\ SumFunctionOnSet(StaleAt, Scanned) \in Int
       /\ SumFunctionOnSet(JudgedAt, Scanned) \in Int
  BY <1>4, <1>11, SumType
<1>14. /\ Cardinality({i \in Scanned' : FreshAt[i] < 2})
            = Cardinality({i \in Scanned : FreshAt[i] < 2}) + f
       /\ Cardinality({i \in Scanned : FreshAt[i] < 2}) \in Nat
  <2>. DEFINE few == {i \in Scanned : FreshAt[i] < 2}
  <2>1. IsFiniteSet(few) /\ Cardinality(few) \in Nat /\ n + 1 \notin few
    <3>1. few \subseteq Scanned /\ n + 1 \notin few
      BY <1>7
    <3>. HIDE DEF few
    <3>. QED BY <1>4, <3>1, FS_Subset, FS_CardinalityType
  <2>2. CASE FreshAt[n + 1] < 2
    <3>1. {i \in Scanned' : FreshAt[i] < 2} = few \cup {n + 1}
      BY <1>7, <2>2
    <3>2. f = 1
      BY <1>9, <2>2
    <3>. HIDE DEF few, f
    <3>3. Cardinality(few \cup {n + 1}) = Cardinality(few) + 1
      BY <2>1, FS_AddElement
    <3>. QED BY <2>1, <3>1, <3>2, <3>3 DEF few
  <2>3. CASE ~ (FreshAt[n + 1] < 2)
    <3>1. {i \in Scanned' : FreshAt[i] < 2} = few
      BY <1>7, <2>3
    <3>2. f = 0
      BY <1>9, <2>3
    <3>. HIDE DEF few, f
    <3>3. Cardinality(few) = Cardinality(few) + f
      BY <2>1, <3>2
    <3>. QED BY <2>1, <3>1, <3>3 DEF few
  <2>. QED BY <2>2, <2>3
<1>15. /\ m \in Nat /\ o \in Nat
       /\ rejections'["missing_snapshot"] = rejections["missing_snapshot"] + m
       /\ rejections'["stale_snapshot"] = rejections["stale_snapshot"] + o
       /\ rejections'["insufficient_fresh_markets"]
            = rejections["insufficient_fresh_markets"] + f
       /\ SumFunctionOnSet(rejections', Unpriced) = SumFunctionOnSet(rejections, Unpriced)
       /\ SumFunctionOnSet(rejections', Reasons)
            = SumFunctionOnSet(rejections, Reasons) + m + o + f
  <2>. DEFINE new == CountRows(rejections, s, rows)
  <2>1. rejections \in [Reasons -> Nat] /\ rejections' = new
    BY <1>1
  <2>. HIDE DEF s, rows
  <2>2. /\ m \in Nat /\ o \in Nat
        /\ new["missing_snapshot"] = rejections["missing_snapshot"] + m
        /\ new["stale_snapshot"] = rejections["stale_snapshot"] + o
        /\ new["insufficient_fresh_markets"] = rejections["insufficient_fresh_markets"] + f
        /\ SumFunctionOnSet(new, Unpriced) = SumFunctionOnSet(rejections, Unpriced)
        /\ SumFunctionOnSet(new, Reasons)
             = SumFunctionOnSet(rejections, Reasons) + m + o + f
    BY <2>1, RowsCounted
  <2>. HIDE DEF m, o, f, new
  <2>. QED BY <2>1, <2>2
<1>16. /\ SumFunctionOnSet(rejections, Unpriced) \in Int
       /\ SumFunctionOnSet(rejections, Reasons) \in Int
       /\ f \in Int /\ JudgedAt[n + 1] \in Int
       /\ Len(opportunities') = Len(opportunities) /\ Len(samples') = Len(samples)
       /\ Len(samples) \in Int /\ Len(opportunities) \in Int /\ Cardinality(pairs) = 0
  <2>1. \A r \in Reasons : rejections[r] \in Int
    BY <1>1
  <2>2. /\ SumFunctionOnSet(rejections, Unpriced) \in Int
        /\ SumFunctionOnSet(rejections, Reasons) \in Int
    BY <2>1, ReasonsFinite, SumType
  <2>3. Len(opportunities) \in Int
    BY DEF OffersKnown
  <2>. QED BY <1>1, <1>2, <1>11, <2>2, <2>3, FS_EmptySet
<1>. HIDE DEF m, o, f
<1>17. cycles' > 0 => Counted'
  <2>. SUFFICES ASSUME cycles > 0 PROVE Counted'
    BY <1>1
  <2>1. Counted
    BY DEF AccountInvariant
  <2>. DEFINE M == SumFunctionOnSet(MissingAt, Scanned)
              O == SumFunctionOnSet(StaleAt, Scanned)
              J == SumFunctionOnSet(JudgedAt, Scanned)
              few == Cardinality({i \in Scanned : FreshAt[i] < 2})
              all == SumFunctionOnSet(rejections, Reasons)
              unpriced == SumFunctionOnSet(rejections, Unpriced)
              offered == Len(opportunities)
              priced == Len(samples)
              j == JudgedAt[n + 1]
  <2>2. /\ rejections["missing_snapshot"] = M /\ rejections["stale_snapshot"] = O
        /\ rejections["insufficient_fresh_markets"] = few
        /\ all + offered + 0 = J + M + O + few
        /\ priced + unpriced + 0 = J
    BY <2>1, <1>16 DEF Counted
  <2>3. /\ SumFunctionOnSet(MissingAt', Scanned') = m + M
        /\ SumFunctionOnSet(StaleAt', Scanned') = o + O
        /\ SumFunctionOnSet(JudgedAt', Scanned') = j + J
        /\ Cardinality({i \in Scanned' : FreshAt'[i] < 2}) = few + f
    BY <1>8, <1>12, <1>14
  <2>4. /\ rejections'["missing_snapshot"] = M + m /\ rejections'["stale_snapshot"] = O + o
        /\ rejections'["insufficient_fresh_markets"] = few + f
        /\ SumFunctionOnSet(rejections', Unpriced) = unpriced
        /\ SumFunctionOnSet(rejections', Reasons) = all + m + o + f
        /\ Len(opportunities') = offered /\ Len(samples') = priced
        /\ Cardinality(pairs') = j
    BY <2>2, <1>10, <1>15, <1>16
  <2>5. /\ M \in Int /\ O \in Int /\ J \in Int /\ few \in Int /\ all \in Int
        /\ unpriced \in Int /\ offered \in Int /\ priced \in Int /\ j \in Int
        /\ m \in Int /\ o \in Int /\ f \in Int
    BY <1>13, <1>14, <1>15, <1>16
  <2>. HIDE DEF M, O, J, few, all, unpriced, offered, priced, j
  <2>6. /\ M + m = m + M /\ O + o = o + O
        /\ (all + m + o + f) + offered + j = (j + J) + (M + m) + (O + o) + (few + f)
        /\ priced + unpriced + j = j + J
    BY <2>2, <2>5
  <2>. QED BY <2>3, <2>4, <2>6 DEF Counted
<1>. QED BY <1>1, <1>2, <1>6, <1>10, <1>17 DEF AccountInvariant

\* A pair is rejected for none of the reasons that are counted per symbol.
LEMMA PairReason ==
  ASSUME NEW ewma, NEW x, NEW buy, NEW y, NEW sell
  PROVE  LET reason == RejectReason(ewma, x, buy, y, sell)
         IN  /\ reason # "none" => reason \in Reasons
             /\ reason # "missing_snapshot" /\ reason # "stale_snapshot"
             /\ reason # "insufficient_fresh_markets"
BY DEF RejectReason, Reasons

\* A pair is taken from those to be judged and either offered or rejected; if it
\* got as far as a net spread, that is a sample.
LEMMA AccountBuild ==
  ASSUME ScanInvariant, OffersKnown, AccountInvariant, BuildOpportunity
  PROVE  AccountInvariant'
<1>1. PICK p \in pairs : /\ Build(p[1], Listing[p[2]], Listing[p[3]])
                         /\ pairs' = pairs \ {p}
  BY DEF BuildOpportunity
<1>. DEFINE s == p[1]
            x == Listing[p[2]]
            y == Listing[p[3]]
            buy == market[x][s]
            sell == market[y][s]
            ewma == Observe(slippage_ewma, x, buy, y, sell)
            reason == RejectReason(ewma, x, buy, y, sell)
            spread == NetSpread(Terms(ewma, x, buy, y, sell))
            new == Opportunity(ewma, s, x, buy, y, sell)
<1>2. /\ UNCHANGED <<market, symbols_left, distribution, cycles, scanning>> /\ scanning
      /\ rejections \in [Reasons -> Nat]
  BY DEF BuildOpportunity, ScanInvariant
<1>3. /\ samples' = IF reason \in Unpriced THEN samples ELSE Append(samples, spread)
      /\ \/ /\ reason = "none" /\ opportunities' = Append(opportunities, new)
            /\ rejections' = rejections
         \/ /\ reason # "none" /\ rejections' = [rejections EXCEPT ![reason] = @ + 1]
            /\ opportunities' = opportunities
  BY <1>1 DEF Build
<1>4. spread \in Int
  <2>1. /\ x \in Exchanges /\ y \in Exchanges /\ x # y /\ buy \in Rows /\ sell \in Rows
        /\ slippage_ewma \in [Exchanges -> Nat]
    BY PairIs DEF ScanInvariant
  <2>. HIDE DEF x, y, buy, sell
  <2>2. ewma \in [Exchanges -> Nat]
    BY <2>1, ObserveIs
  <2>. HIDE DEF ewma
  <2>. QED BY <2>1, <2>2, SpreadType
<1>5. /\ reason # "none" => reason \in Reasons
      /\ reason # "missing_snapshot" /\ reason # "stale_snapshot"
      /\ reason # "insufficient_fresh_markets"
  BY PairReason
<1>6. samples \in Seq(Int) /\ IsFiniteSet(pairs)
  BY DEF AccountInvariant
<1>. HIDE DEF reason, spread, new
<1>7. /\ IsFiniteSet(pairs') /\ Cardinality(pairs') = Cardinality(pairs) - 1
      /\ Cardinality(pairs) \in Nat
  BY <1>1, <1>6, FS_RemoveElement, FS_CardinalityType
<1>8. /\ samples' \in Seq(Int) /\ Len(samples) \in Nat
      /\ Len(samples') = Len(samples) + (IF reason \in Unpriced THEN 0 ELSE 1)
  BY <1>3, <1>4, <1>6, AppendProperties
<1>9. /\ Len(opportunities) \in Nat
      /\ Len(opportunities') = Len(opportunities) + (IF reason = "none" THEN 1 ELSE 0)
  <2>1. PICK S : opportunities \in Seq(S)
    BY DEF OffersKnown
  <2>. DEFINE T == S \cup {new}
  <2>2. opportunities \in Seq(T) /\ new \in T
    BY <2>1
  <2>. HIDE DEF T
  <2>3. Len(opportunities) \in Nat /\ Len(Append(opportunities, new)) = Len(opportunities) + 1
    BY <2>2, AppendProperties
  <2>. QED BY <1>3, <2>3
<1>10. /\ SumFunctionOnSet(rejections, Reasons) \in Int
       /\ SumFunctionOnSet(rejections, Unpriced) \in Int
       /\ SumFunctionOnSet(rejections', Reasons)
            = SumFunctionOnSet(rejections, Reasons) + (IF reason = "none" THEN 0 ELSE 1)
       /\ SumFunctionOnSet(rejections', Unpriced)
            = SumFunctionOnSet(rejections, Unpriced) + (IF reason \in Unpriced THEN 1 ELSE 0)
  <2>1. \A r \in Reasons : rejections[r] \in Int
    BY <1>2
  <2>2. /\ SumFunctionOnSet(rejections, Reasons) \in Int
        /\ SumFunctionOnSet(rejections, Unpriced) \in Int
    BY <2>1, ReasonsFinite, SumType
  <2>3. CASE reason = "none"
    <3>1. reason \notin Unpriced
      BY <2>3 DEF Unpriced
    <3>. QED BY <1>3, <2>2, <2>3, <3>1
  <2>4. CASE reason # "none"
    <3>1. /\ reason \in Reasons /\ rejections'[reason] = rejections[reason] + 1
          /\ \A r \in Reasons \ {reason} : rejections'[r] = rejections[r]
      BY <1>2, <1>3, <1>5, <2>4
    <3>2. Unpriced \in SUBSET Reasons /\ Reasons \in SUBSET Reasons
      BY ReasonsFinite
    <3>3. \A S \in SUBSET Reasons :
            /\ reason \in S =>
                 SumFunctionOnSet(rejections', S) = SumFunctionOnSet(rejections, S) + 1
            /\ reason \notin S =>
                 SumFunctionOnSet(rejections', S) = SumFunctionOnSet(rejections, S)
      BY <2>1, <3>1, OneMore
    <3>. QED BY <2>2, <2>4, <3>1, <3>2, <3>3
  <2>. QED BY <2>3, <2>4
<1>11. /\ rejections'["missing_snapshot"] = rejections["missing_snapshot"]
       /\ rejections'["stale_snapshot"] = rejections["stale_snapshot"]
       /\ rejections'["insufficient_fresh_markets"] = rejections["insufficient_fresh_markets"]
  BY <1>2, <1>3, <1>5, ReasonsFinite
<1>12. LeftAreLast'
  BY <1>2 DEF AccountInvariant, LeftAreLast
<1>13. cycles' > 0 => Counted'
  <2>. SUFFICES ASSUME cycles > 0 PROVE Counted'
    BY <1>2
  <2>1. Counted
    BY DEF AccountInvariant
  <2>2. /\ MissingAt' = MissingAt /\ StaleAt' = StaleAt /\ FreshAt' = FreshAt
        /\ JudgedAt' = JudgedAt /\ Scanned' = Scanned
    BY <1>2 DEF MissingAt, StaleAt, FreshAt, JudgedAt, MissingOf, StaleOf, FreshOf, Scanned
  <2>3. /\ SumFunctionOnSet(rejections', Reasons) + Len(opportunities') + Cardinality(pairs')
             = SumFunctionOnSet(rejections, Reasons) + Len(opportunities) + Cardinality(pairs)
        /\ Len(samples') + SumFunctionOnSet(rejections', Unpriced) + Cardinality(pairs')
             = Len(samples) + SumFunctionOnSet(rejections, Unpriced) + Cardinality(pairs)
    <3>1. SumFunctionOnSet(rejections', Reasons) + Len(opportunities')
            = SumFunctionOnSet(rejections, Reasons) + Len(opportunities) + 1
      BY <1>9, <1>10
    <3>2. Len(samples') + SumFunctionOnSet(rejections', Unpriced)
            = Len(samples) + SumFunctionOnSet(rejections, Unpriced) + 1
      BY <1>8, <1>10
    <3>. DEFINE a == SumFunctionOnSet(rejections, Reasons) + Len(opportunities)
                b == Len(samples) + SumFunctionOnSet(rejections, Unpriced)
                c == Cardinality(pairs)
    <3>3. a \in Int /\ b \in Int /\ c \in Int
      BY <1>7, <1>8, <1>9, <1>10
    <3>4. /\ SumFunctionOnSet(rejections', Reasons) + Len(opportunities') = a + 1
          /\ Len(samples') + SumFunctionOnSet(rejections', Unpriced) = b + 1
          /\ Cardinality(pairs') = c - 1
      BY <1>7, <3>1, <3>2
    <3>. HIDE DEF a, b, c
    <3>5. (a + 1) + (c - 1) = a + c /\ (b + 1) + (c - 1) = b + c
      BY <3>3
    <3>. QED BY <3>4, <3>5 DEF a, b, c
  <2>. QED BY <1>11, <2>1, <2>2, <2>3 DEF Counted
<1>. QED BY <1>2, <1>7, <1>8, <1>12, <1>13 DEF AccountInvariant

\* Every step of the scan keeps the account.
LEMMA AccountStep ==
  ScanInvariant /\ OffersKnown /\ AccountInvariant /\ [Next]_vars => AccountInvariant'
<1>. SUFFICES ASSUME ScanInvariant, OffersKnown, AccountInvariant, [Next]_vars
              PROVE  AccountInvariant'
  OBVIOUS
<1>1. CASE BeginScan
  BY <1>1, AccountBegin
<1>2. CASE ScanSymbol
  BY <1>2, AccountScan
<1>3. CASE BuildOpportunity
  BY <1>3, AccountBuild
<1>4. CASE EndScan
  <2>1. /\ UNCHANGED <<market, symbols_left, pairs, rejections, samples, cycles>>
        /\ symbols_left = <<>> /\ distribution' = Distribution(samples)
        /\ opportunities' = Ranked(opportunities)
    BY <1>4 DEF EndScan
  <2>2. Len(opportunities') = Len(opportunities)
    <3>1. PICK S : opportunities \in Seq(S) /\ \A o \in S : Offer(o)
      BY DEF OffersKnown
    <3>2. \A o \in S : o.expected_profit \in Int
      BY <3>1 DEF Offer
    <3>. QED BY <2>1, <3>1, <3>2, RankedIsSorted
  <2>3. Counted => Counted'
    <3>1. /\ MissingAt' = MissingAt /\ StaleAt' = StaleAt /\ FreshAt' = FreshAt
          /\ JudgedAt' = JudgedAt /\ Scanned' = Scanned
      BY <2>1 DEF MissingAt, StaleAt, FreshAt, JudgedAt, MissingOf, StaleOf, FreshOf, Scanned
    <3>. QED BY <2>1, <2>2, <3>1 DEF Counted
  <2>4. LeftAreLast'
    BY <2>1 DEF AccountInvariant, LeftAreLast
  <2>. QED BY <2>1, <2>3, <2>4 DEF AccountInvariant
<1>5. CASE UNCHANGED vars
  <2>1. Counted => Counted'
    BY <1>5 DEF vars, Counted, MissingAt, StaleAt, FreshAt, JudgedAt, MissingOf, StaleOf,
                FreshOf, Scanned
  <2>2. LeftAreLast'
    BY <1>5 DEF vars, AccountInvariant, LeftAreLast
  <2>. QED BY <1>5, <2>1, <2>2 DEF vars, AccountInvariant
<1>. QED BY <1>1, <1>2, <1>3, <1>4, <1>5 DEF Next

\* The account in every state.
LEMMA AccountHolds == Spec => []AccountInvariant
<1>1. Init => AccountInvariant
  <2>. SUFFICES ASSUME Init PROVE AccountInvariant
    OBVIOUS
  <2>1. /\ symbols_left = <<>> /\ samples = <<>> /\ pairs = {} /\ cycles = 0
        /\ scanning = FALSE
    BY DEF Init
  <2>2. LeftAreLast
    BY <2>1, AtTypes DEF LeftAreLast
  <2>3. samples \in Seq(Int) /\ IsFiniteSet(pairs) /\ ~ (cycles > 0)
    BY <2>1, FS_EmptySet
  <2>. QED BY <2>1, <2>2, <2>3 DEF AccountInvariant
<1>. QED BY <1>1, AccountStep, ScanHolds, OffersHold, PTL DEF Spec

\* opportunity.py:77-131 and 257-298: the statistics of a scan add up, for every
\* number of exchanges and symbols and whatever snapshots they have.
THEOREM ScanAddsUp == Spec => []ScanAccounted
<1>1. ScanInvariant /\ OffersKnown /\ AccountInvariant => ScanAccounted
  <2>. SUFFICES ASSUME ScanInvariant, OffersKnown, AccountInvariant, ~ scanning, cycles > 0
                PROVE  ScanAccounted
    BY DEF ScanAccounted
  <2>1. /\ Counted /\ symbols_left = <<>> /\ pairs = {} /\ samples \in Seq(Int)
        /\ distribution = Distribution(samples)
    BY DEF ScanInvariant, AccountInvariant
  <2>2. Scanned = DOMAIN SymbolList
    BY <2>1, AtTypes DEF Scanned
  <2>3. /\ distribution.count = Len(samples)
        /\ distribution.min <= distribution.p50 /\ distribution.p50 <= distribution.p90
        /\ distribution.p90 <= distribution.max
    BY <2>1, DistributionOrdered
  <2>4. /\ MissingAt = [i \in DOMAIN SymbolList |->
               Cardinality({x \in Exchanges : ~ market[x][SymbolList[i]].present})]
        /\ StaleAt = [i \in DOMAIN SymbolList |->
               Cardinality({x \in Exchanges : /\ market[x][SymbolList[i]].present
                                              /\ market[x][SymbolList[i]].stale})]
        /\ FreshAt = [i \in DOMAIN SymbolList |->
               Cardinality({x \in Exchanges : /\ market[x][SymbolList[i]].present
                                              /\ ~ market[x][SymbolList[i]].stale})]
    BY DEF MissingAt, StaleAt, FreshAt, MissingOf, StaleOf, FreshOf
  <2>5. /\ SumFunction(MissingAt) = SumFunctionOnSet(MissingAt, Scanned)
        /\ SumFunction(StaleAt) = SumFunctionOnSet(StaleAt, Scanned)
        /\ SumFunction(JudgedAt) = SumFunctionOnSet(JudgedAt, Scanned)
        /\ SumFunction(rejections) = SumFunctionOnSet(rejections, Reasons)
    BY <2>2 DEF SumFunction, MissingAt, StaleAt, JudgedAt, ScanInvariant
  <2>6. /\ SumFunction(rejections) + Len(opportunities)
             = SumFunction(JudgedAt) + rejections["missing_snapshot"]
                 + rejections["stale_snapshot"] + rejections["insufficient_fresh_markets"]
        /\ Len(samples) = SumFunction(JudgedAt) - SumFunctionOnSet(rejections, Unpriced)
    <3>. DEFINE j == SumFunction(JudgedAt)
                u == SumFunctionOnSet(rejections, Unpriced)
                all == SumFunction(rejections)
    <3>1. /\ j \in Int /\ u \in Int /\ all \in Int
      <4>1. \A i \in DOMAIN SymbolList : JudgedAt[i] \in Int
        BY AtTypes
      <4>2. \A r \in Reasons : rejections[r] \in Int
        BY DEF ScanInvariant
      <4>3. IsFiniteSet(DOMAIN SymbolList)
        BY AtTypes, FS_Interval
      <4>. QED BY <2>2, <2>5, <4>1, <4>2, <4>3, ReasonsFinite, SumType
    <3>2. Len(samples) \in Int /\ Len(opportunities) \in Int /\ Cardinality({}) = 0
      BY <2>1, FS_EmptySet DEF OffersKnown
    <3>3. /\ all + Len(opportunities) + 0
               = j + rejections["missing_snapshot"] + rejections["stale_snapshot"]
                   + rejections["insufficient_fresh_markets"]
          /\ Len(samples) + u + 0 = j
      BY <2>1, <2>5, <3>2 DEF Counted
    <3>. HIDE DEF j, u, all
    <3>. QED BY <3>1, <3>2, <3>3 DEF j, u, all
  <2>. QED BY <2>1, <2>2, <2>3, <2>4, <2>5, <2>6 DEF ScanAccounted, Counted, JudgedAt
<1>. QED BY <1>1, ScanHolds, OffersHold, AccountHolds, PTL

=============================================================================

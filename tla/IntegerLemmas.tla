--------------------------- MODULE IntegerLemmas ---------------------------
(***************************************************************************)
(* What the operators on integers the modules are built from return: the   *)
(* maximum, the minimum and the clamp, quotients and means, and the sum    *)
(* over a finite set (SumFunctionOnSet of the community modules). The fold *)
(* behind the sum is a recursive function, so its defining equation is     *)
(* proved first, by taking a smallest size of subset at which it would     *)
(* fail.                                                                   *)
(***************************************************************************)
EXTENDS Integers, FiniteSetsExt, Functions, FiniteSetTheorems, WellFoundedInduction, TLAPS

----------------------------------------------------------------------------
(* Maximum, minimum and clamp *)

\* The larger of two integers.
LEMMA MaxPair ==
  ASSUME NEW x \in Int, NEW y \in Int
  PROVE  Max({x, y}) = IF x >= y THEN x ELSE y
<1> DEFINE m == IF x >= y THEN x ELSE y
<1>1. m \in {x, y} /\ \A z \in {x, y} : m >= z
  OBVIOUS
<1>2. ASSUME NEW n \in {x, y}, \A z \in {x, y} : n >= z
      PROVE  n = m
  BY <1>2
<1>3. QED
  BY <1>1, <1>2 DEF Max

\* The smaller of two integers.
LEMMA MinPair ==
  ASSUME NEW x \in Int, NEW y \in Int
  PROVE  Min({x, y}) = IF x <= y THEN x ELSE y
<1> DEFINE m == IF x <= y THEN x ELSE y
<1>1. m \in {x, y} /\ \A z \in {x, y} : m <= z
  OBVIOUS
<1>2. ASSUME NEW n \in {x, y}, \A z \in {x, y} : n <= z
      PROVE  n = m
  BY <1>2
<1>3. QED
  BY <1>1, <1>2 DEF Min

\* Min of a set of integers is the element that is below all others, if any.
LEMMA MinIs ==
  ASSUME NEW S, S \subseteq Int, NEW m \in S, \A z \in S : m <= z
  PROVE  Min(S) = m
<1>1. ASSUME NEW n \in S, \A z \in S : n <= z
      PROVE  n = m
  <2>1. n <= m /\ m <= n
    BY <1>1
  <2>2. QED
    BY <2>1
<1>2. QED
  BY <1>1 DEF Min

\* A clamped value, by cases (executor.py:468-469).
LEMMA ClampIs ==
  ASSUME NEW v \in Int, NEW low \in Int, NEW high \in Int, low <= high
  PROVE  Max({low, Min({high, v})}) = IF v < low THEN low ELSE IF v > high THEN high ELSE v
<1>1. Min({high, v}) = IF high <= v THEN high ELSE v
  BY MinPair
<1>2. Min({high, v}) \in Int
  BY <1>1
<1>3. Max({low, Min({high, v})})
        = IF low >= Min({high, v}) THEN low ELSE Min({high, v})
  BY <1>2, MaxPair
<1>4. QED
  BY <1>1, <1>3

----------------------------------------------------------------------------
(* Quotients *)

\* What the quotient of naturals is.
LEMMA QuotientIs ==
  ASSUME NEW u \in Nat, NEW p \in Nat \ {0}
  PROVE  /\ u \div p \in Nat
         /\ p * (u \div p) <= u
         /\ u < p * ((u \div p) + 1)
  OBVIOUS

\* It is at most what is divided.
LEMMA QuotientBelow ==
  ASSUME NEW u \in Nat, NEW p \in Nat \ {0}
  PROVE  u \div p \in 0..u
<1>1. u \div p \in Nat /\ p * (u \div p) <= u
  BY QuotientIs
<1>2. \A d \in Nat : d <= p * d
  OBVIOUS
<1>. QED BY <1>1, <1>2

\* The larger the divisor, the smaller the quotient.
LEMMA QuotientAntitone ==
  ASSUME NEW u \in Nat, NEW p \in Nat \ {0}, NEW q \in Nat \ {0}, p <= q
  PROVE  u \div p >= u \div q
<1>. DEFINE d == u \div p
            e == u \div q
<1>1. d \in Nat /\ e \in Nat /\ q * e <= u /\ u < p * (d + 1)
  BY QuotientIs
<1>. HIDE DEF d, e
<1>2. p * e <= q * e
  BY <1>1
<1>3. p * e < p * (d + 1)
  BY <1>1, <1>2
<1>4. ASSUME e >= d + 1 PROVE FALSE
  <2>1. p * e >= p * (d + 1)
    BY <1>1, <1>4
  <2>. QED BY <1>1, <1>3, <2>1
<1>5. d >= e
  BY <1>1, <1>4
<1>. QED BY <1>5 DEF d, e

----------------------------------------------------------------------------
(* Sums *)

Pick(s) == CHOOSE x \in s : TRUE

IsSum(f, S, g) ==
  g = [s \in SUBSET S |-> IF s = {} THEN 0 ELSE f[Pick(s)] + g[s \ {Pick(s)}]]

FoldOf(f, S) == CHOOSE g : IsSum(f, S, g)

\* The fold of the community modules is the recursion written above.
LEMMA SumIsFold ==
  ASSUME NEW f, NEW S
  PROVE  SumFunctionOnSet(f, S) = FoldOf(f, S)[S]
  BY DEF SumFunctionOnSet, FoldFunctionOnSet, MapThenFoldSet, FoldOf, IsSum, Pick

\* Every non-empty set of naturals has a smallest element.
LEMMA SmallestOf ==
  ASSUME NEW T, T \subseteq Nat, T # {}
  PROVE  \E m \in T : \A n \in T : m <= n
<1> DEFINE R == {ss \in Nat \X Nat : ss[1] < ss[2]}
<1>1. IsWellFoundedOn(R, Nat)
  BY NatLessThanWellFounded DEF OpToRel
<1>2. \E m \in T : \A n \in T : ~ (<<n, m>> \in R)
  <2> HIDE DEF R
  <2> QED
    BY <1>1, WFMin
<1>3. PICK m \in T : \A n \in T : ~ (<<n, m>> \in R)
  BY <1>2
<1>4. ASSUME NEW n \in T PROVE m <= n
  <2>1. m \in Nat /\ n \in Nat
    OBVIOUS
  <2>2. ~ (n < m)
    BY <1>3, <2>1
  <2>3. QED
    BY <2>1, <2>2
<1>5. QED
  BY <1>4

\* Induction over the subsets of a finite set, one picked element at a time:
\* the property is given as the set Q of the subsets that have it.
LEMMA SubsetInduction ==
  ASSUME NEW S, IsFiniteSet(S), NEW Q, {} \in Q,
         \A s \in SUBSET S : s # {} /\ s \ {Pick(s)} \in Q => s \in Q
  PROVE  \A s \in SUBSET S : s \in Q
<1> DEFINE Sizes == {Cardinality(s) : s \in (SUBSET S) \ Q}
<1>1. \A s \in SUBSET S : IsFiniteSet(s) /\ Cardinality(s) \in Nat
  BY FS_Subset, FS_CardinalityType
<1>2. SUFFICES ASSUME (SUBSET S) \ Q # {}
               PROVE  FALSE
  OBVIOUS
<1>3. Sizes \subseteq Nat /\ Sizes # {}
  BY <1>1, <1>2
<1>4. PICK m \in Sizes : \A n \in Sizes : m <= n
  <2> HIDE DEF Sizes
  <2> QED BY <1>3, SmallestOf
<1>5. PICK s \in (SUBSET S) \ Q : m = Cardinality(s)
  BY <1>4
<1>6. s # {} /\ Pick(s) \in s
  BY <1>5 DEF Pick
<1>7. Cardinality(s \ {Pick(s)}) = Cardinality(s) - 1
  BY <1>1, <1>5, <1>6, FS_RemoveElement
<1>8. s \ {Pick(s)} \in Q
  <2>1. SUFFICES ASSUME s \ {Pick(s)} \notin Q
                 PROVE  FALSE
    OBVIOUS
  <2>2. s \ {Pick(s)} \in (SUBSET S) \ Q
    BY <1>5, <2>1
  <2>3. Cardinality(s \ {Pick(s)}) \in Sizes
    BY <2>2
  <2>4. m <= Cardinality(s) - 1
    BY <2>3, <1>4, <1>7
  <2>5. QED
    BY <2>4, <1>1, <1>5
<1>9. QED
  BY <1>5, <1>6, <1>8

\* A function defined on the subsets of at most n elements satisfies the
\* equation of the fold there.
FoldsUpTo(f, S, n, g) ==
  \A s \in {t \in SUBSET S : Cardinality(t) <= n} :
    g[s] = IF s = {} THEN 0 ELSE f[Pick(s)] + g[s \ {Pick(s)}]

\* On a finite set the fold exists.
LEMMA FoldExists ==
  ASSUME NEW S, IsFiniteSet(S), NEW f, NEW n \in Nat
  PROVE  \E g : FoldsUpTo(f, S, n, g)
<1> DEFINE Bad == {k \in Nat : ~ \E g : FoldsUpTo(f, S, k, g)}
<1>1. \A s \in SUBSET S : IsFiniteSet(s) /\ Cardinality(s) \in Nat
  BY FS_Subset, FS_CardinalityType
<1>2. SUFFICES ASSUME Bad # {}
               PROVE  FALSE
  OBVIOUS
<1>3. PICK m \in Bad : \A k \in Bad : m <= k
  <2>1. Bad \subseteq Nat
    OBVIOUS
  <2> HIDE DEF Bad
  <2> QED BY <1>2, <2>1, SmallestOf
<1>4. CASE m = 0
  <2> DEFINE g == [s \in SUBSET S |-> 0]
  <2>1. \A s \in SUBSET S : Cardinality(s) <= 0 => s = {}
    BY <1>1, FS_EmptySet
  <2>2. FoldsUpTo(f, S, 0, g)
    BY <2>1 DEF FoldsUpTo
  <2>3. QED
    BY <2>2, <1>3, <1>4
<1>5. CASE m # 0
  <2>1. m \in Nat /\ m - 1 \in Nat /\ m - 1 \notin Bad
    BY <1>3, <1>5
  <2>2. PICK g : FoldsUpTo(f, S, m - 1, g)
    BY <2>1
  <2> DEFINE h == [s \in SUBSET S |-> IF s = {} THEN 0 ELSE f[Pick(s)] + g[s \ {Pick(s)}]]
  <2>3. ASSUME NEW s \in SUBSET S, Cardinality(s) <= m - 1
        PROVE  h[s] = g[s]
    BY <2>2, <2>3 DEF FoldsUpTo
  <2>4. ASSUME NEW s \in SUBSET S, Cardinality(s) <= m, s # {}
        PROVE  h[s] = f[Pick(s)] + h[s \ {Pick(s)}]
    <3>1. Pick(s) \in s /\ s \ {Pick(s)} \in SUBSET S
      BY <2>4 DEF Pick
    <3>2. Cardinality(s \ {Pick(s)}) = Cardinality(s) - 1
      BY <3>1, <1>1, FS_RemoveElement
    <3>3. Cardinality(s \ {Pick(s)}) <= m - 1
      BY <3>2, <1>1, <2>1, <2>4
    <3>4. h[s \ {Pick(s)}] = g[s \ {Pick(s)}]
      BY <3>1, <3>3, <2>3
    <3>5. QED
      BY <3>4, <2>4
  <2>5. FoldsUpTo(f, S, m, h)
    BY <2>4 DEF FoldsUpTo
  <2>6. QED
    BY <2>5, <1>3
<1>6. QED
  BY <1>4, <1>5

\* The equation of the fold, on all the subsets of a finite set.
LEMMA FoldEquation ==
  ASSUME NEW S, IsFiniteSet(S), NEW f
  PROVE  IsSum(f, S, FoldOf(f, S))
<1>1. PICK g : FoldsUpTo(f, S, Cardinality(S), g)
  BY FoldExists, FS_CardinalityType
<1>2. \A s \in SUBSET S : Cardinality(s) <= Cardinality(S)
  BY FS_Subset
<1> DEFINE h == [s \in SUBSET S |-> g[s]]
<1>3. \A s \in SUBSET S : h[s] = IF s = {} THEN 0 ELSE f[Pick(s)] + h[s \ {Pick(s)}]
  BY <1>1, <1>2 DEF FoldsUpTo
<1>4. h = [s \in SUBSET S |-> IF s = {} THEN 0 ELSE f[Pick(s)] + h[s \ {Pick(s)}]]
  <2>1. h = [s \in SUBSET S |-> h[s]]
    OBVIOUS
  <2> HIDE DEF h
  <2> QED BY <1>3, <2>1
<1>5. IsSum(f, S, h)
  <2> HIDE DEF h
  <2> QED BY <1>4 DEF IsSum
<1>6. QED
  BY <1>5 DEF FoldOf

\* The two cases of the equation, as the lemmas below use them.
LEMMA FoldSteps ==
  ASSUME NEW S, IsFiniteSet(S), NEW f
  PROVE  /\ FoldOf(f, S)[{}] = 0
         /\ \A s \in SUBSET S : s # {} =>
              /\ Pick(s) \in s
              /\ FoldOf(f, S)[s] = f[Pick(s)] + FoldOf(f, S)[s \ {Pick(s)}]
<1> DEFINE g == FoldOf(f, S)
<1>1. g = [s \in SUBSET S |-> IF s = {} THEN 0 ELSE f[Pick(s)] + g[s \ {Pick(s)}]]
  BY FoldEquation DEF IsSum
<1>2. \A s \in SUBSET S : s # {} => Pick(s) \in s
  BY DEF Pick
<1> HIDE DEF g
<1>3. /\ g[{}] = 0
      /\ \A s \in SUBSET S : s # {} => g[s] = f[Pick(s)] + g[s \ {Pick(s)}]
  BY <1>1
<1>4. QED
  BY <1>2, <1>3 DEF g

\* A sum of integers is an integer.
LEMMA SumType ==
  ASSUME NEW S, IsFiniteSet(S), NEW f, \A x \in S : f[x] \in Int
  PROVE  SumFunctionOnSet(f, S) \in Int
<1> DEFINE g == FoldOf(f, S)
           Q == {s \in SUBSET S : g[s] \in Int}
<1>1. {} \in Q
  BY FoldSteps
<1>2. ASSUME NEW s \in SUBSET S, s # {}, s \ {Pick(s)} \in Q
      PROVE  s \in Q
  <2>1. Pick(s) \in S /\ g[s] = f[Pick(s)] + g[s \ {Pick(s)}]
    BY <1>2, FoldSteps
  <2>2. QED
    BY <2>1, <1>2
<1>3. S \in Q
  <2> HIDE DEF Q
  <2> QED BY <1>1, <1>2, SubsetInduction
<1>4. QED
  BY <1>3, SumIsFold

\* A sum of naturals is a natural.
LEMMA SumNat ==
  ASSUME NEW S, IsFiniteSet(S), NEW f, \A x \in S : f[x] \in Nat
  PROVE  SumFunctionOnSet(f, S) \in Nat
<1> DEFINE g == FoldOf(f, S)
           Q == {s \in SUBSET S : g[s] \in Nat}
<1>1. {} \in Q
  BY FoldSteps
<1>2. ASSUME NEW s \in SUBSET S, s # {}, s \ {Pick(s)} \in Q
      PROVE  s \in Q
  <2>1. Pick(s) \in S /\ g[s] = f[Pick(s)] + g[s \ {Pick(s)}]
    BY <1>2, FoldSteps
  <2>2. QED
    BY <2>1, <1>2
<1>3. S \in Q
  <2> HIDE DEF Q
  <2> QED BY <1>1, <1>2, SubsetInduction
<1>4. QED
  BY <1>3, SumIsFold

\* Changing one summand by d changes the sum by d.
LEMMA SumShift ==
  ASSUME NEW S, IsFiniteSet(S), NEW f, NEW h, NEW e \in S, NEW d \in Int,
         \A x \in S : f[x] \in Int,
         h[e] = f[e] + d,
         \A x \in S \ {e} : h[x] = f[x]
  PROVE  SumFunctionOnSet(h, S) = SumFunctionOnSet(f, S) + d
<1> DEFINE a == FoldOf(f, S)
           b == FoldOf(h, S)
           Q == {s \in SUBSET S : /\ a[s] \in Int
                                  /\ b[s] = a[s] + (IF e \in s THEN d ELSE 0)}
<1>1. {} \in Q
  BY FoldSteps
<1>2. ASSUME NEW s \in SUBSET S, s # {}, s \ {Pick(s)} \in Q
      PROVE  s \in Q
  <2>1. /\ Pick(s) \in s
        /\ a[s] = f[Pick(s)] + a[s \ {Pick(s)}]
        /\ b[s] = h[Pick(s)] + b[s \ {Pick(s)}]
    BY <1>2, FoldSteps
  <2>2. /\ a[s \ {Pick(s)}] \in Int
        /\ b[s \ {Pick(s)}] = a[s \ {Pick(s)}] + (IF e \in s \ {Pick(s)} THEN d ELSE 0)
    BY <1>2
  <2> HIDE DEF a, b
  <2>3. CASE e = Pick(s)
    BY <2>1, <2>2, <2>3
  <2>4. CASE e # Pick(s)
    BY <2>1, <2>2, <2>4
  <2>5. QED
    BY <2>3, <2>4
<1>3. S \in Q
  <2> HIDE DEF Q
  <2> QED BY <1>1, <1>2, SubsetInduction
<1>4. QED
  BY <1>3, SumIsFold

\* Changing one summand changes the sum by as much.
LEMMA SumChange ==
  ASSUME NEW S, IsFiniteSet(S), NEW f, NEW h, NEW e \in S,
         \A x \in S : f[x] \in Int,
         h[e] \in Int,
         \A x \in S \ {e} : h[x] = f[x]
  PROVE  SumFunctionOnSet(h, S) = SumFunctionOnSet(f, S) + (h[e] - f[e])
<1> DEFINE d == h[e] - f[e]
<1>1. d \in Int /\ h[e] = f[e] + d
  OBVIOUS
<1> HIDE DEF d
<1>2. SumFunctionOnSet(h, S) = SumFunctionOnSet(f, S) + d
  BY <1>1, SumShift
<1>3. QED
  BY <1>2 DEF d

\* A sum of equal summands is their number times the summand.
LEMMA SumConstant ==
  ASSUME NEW S, IsFiniteSet(S), NEW f, NEW c \in Int, \A x \in S : f[x] = c
  PROVE  SumFunctionOnSet(f, S) = c * Cardinality(S)
<1> DEFINE g == FoldOf(f, S)
           Q == {s \in SUBSET S : g[s] = c * Cardinality(s)}
<1>1. {} \in Q
  <2>1. g[{}] = 0
    BY FoldSteps
  <2>2. c * Cardinality({}) = 0
    BY FS_EmptySet
  <2>3. QED
    BY <2>1, <2>2
<1>2. ASSUME NEW s \in SUBSET S, s # {}, s \ {Pick(s)} \in Q
      PROVE  s \in Q
  <2>1. Pick(s) \in s /\ g[s] = c + g[s \ {Pick(s)}]
    BY <1>2, FoldSteps
  <2>2. g[s \ {Pick(s)}] = c * Cardinality(s \ {Pick(s)})
    BY <1>2
  <2>3. IsFiniteSet(s) /\ Cardinality(s) \in Nat
    BY FS_Subset, FS_CardinalityType
  <2>4. Cardinality(s \ {Pick(s)}) = Cardinality(s) - 1
    BY <2>1, <2>3, FS_RemoveElement
  <2>5. \A n \in Nat : c + c * (n - 1) = c * n
    OBVIOUS
  <2>6. QED
    BY <2>1, <2>2, <2>3, <2>4, <2>5
<1>3. S \in Q
  <2> HIDE DEF Q
  <2> QED BY <1>1, <1>2, SubsetInduction
<1>4. QED
  BY <1>3, SumIsFold

\* The order in which a finite set is summed up does not matter.
LEMMA FoldAny ==
  ASSUME NEW S, IsFiniteSet(S), NEW f, \A x \in S : f[x] \in Int
  PROVE  \A s \in SUBSET S :
           /\ FoldOf(f, S)[s] \in Int
           /\ \A e \in s : FoldOf(f, S)[s] = f[e] + FoldOf(f, S)[s \ {e}]
<1> DEFINE g == FoldOf(f, S)
           Typed == {s \in SUBSET S : g[s] \in Int}
           Bad == {s \in SUBSET S : \E e \in s : g[s] # f[e] + g[s \ {e}]}
           Sizes == {Cardinality(s) : s \in Bad}
<1>1. \A s \in SUBSET S : g[s] \in Int
  <2>1. {} \in Typed
    BY FoldSteps
  <2>2. ASSUME NEW s \in SUBSET S, s # {}, s \ {Pick(s)} \in Typed
        PROVE  s \in Typed
    <3>1. Pick(s) \in S /\ g[s] = f[Pick(s)] + g[s \ {Pick(s)}]
      BY <2>2, FoldSteps
    <3>. QED BY <3>1, <2>2
  <2>3. \A s \in SUBSET S : s \in Typed
    <3>. HIDE DEF Typed
    <3>. QED BY <2>1, <2>2, SubsetInduction
  <2>. QED BY <2>3
<1>2. \A s \in SUBSET S : IsFiniteSet(s) /\ Cardinality(s) \in Nat
  BY FS_Subset, FS_CardinalityType
<1>3. SUFFICES ASSUME Bad # {} PROVE FALSE
  BY <1>1
<1>4. Sizes \subseteq Nat /\ Sizes # {}
  BY <1>2, <1>3
<1>5. PICK n \in Sizes : \A m \in Sizes : n <= m
  <2>. HIDE DEF Sizes
  <2>. QED BY <1>4, SmallestOf
<1>6. PICK s \in Bad : Cardinality(s) = n
  BY <1>5
<1>7. PICK e \in s : g[s] # f[e] + g[s \ {e}]
  BY <1>6
<1> DEFINE p == Pick(s)
<1>8. p \in s /\ g[s] = f[p] + g[s \ {p}]
  BY <1>7, FoldSteps
<1>9. e # p
  BY <1>7, <1>8
<1>10. ASSUME NEW x \in s
       PROVE  s \ {x} \in SUBSET S /\ s \ {x} \notin Bad
  <2>1. s \ {x} \in SUBSET S /\ IsFiniteSet(s) /\ Cardinality(s \ {x}) = Cardinality(s) - 1
    BY <1>2, FS_RemoveElement
  <2>2. Cardinality(s) \in Nat
    BY <1>2
  <2>3. ASSUME s \ {x} \in Bad PROVE FALSE
    <3>1. Cardinality(s \ {x}) \in Sizes
      BY <2>3
    <3>2. n <= Cardinality(s \ {x})
      BY <1>5, <3>1
    <3>. QED BY <2>1, <2>2, <3>2, <1>6
  <2>. QED BY <2>1, <2>3
<1> HIDE DEF p, g
<1>11. e \in s \ {p} /\ p \in s \ {e}
  BY <1>7, <1>8, <1>9
<1>12. g[s \ {p}] = f[e] + g[(s \ {p}) \ {e}]
  BY <1>8, <1>10, <1>11
<1>13. g[s \ {e}] = f[p] + g[(s \ {e}) \ {p}]
  BY <1>7, <1>10, <1>11
<1>14. (s \ {p}) \ {e} = (s \ {e}) \ {p}
  OBVIOUS
<1>15. /\ f[e] \in Int /\ f[p] \in Int
       /\ g[(s \ {p}) \ {e}] \in Int
  BY <1>1, <1>7, <1>8
<1> DEFINE rest == g[(s \ {p}) \ {e}]
<1>16. rest \in Int /\ g[s \ {p}] = f[e] + rest /\ g[s \ {e}] = f[p] + rest
  BY <1>12, <1>13, <1>14, <1>15
<1> HIDE DEF rest
<1>17. f[p] + (f[e] + rest) = f[e] + (f[p] + rest)
  BY <1>15, <1>16
<1> QED BY <1>7, <1>8, <1>16, <1>17

\* A part of a set is summed up in the same way within the whole.
LEMMA FoldRestrict ==
  ASSUME NEW S, IsFiniteSet(S), NEW f, NEW T \in SUBSET S
  PROVE  FoldOf(f, S)[T] = SumFunctionOnSet(f, T)
<1> DEFINE g == FoldOf(f, S)
           h == FoldOf(f, T)
           Q == {s \in SUBSET T : g[s] = h[s]}
<1>0. IsFiniteSet(T)
  BY FS_Subset
<1>1. {} \in Q
  BY <1>0, FoldSteps
<1>2. ASSUME NEW s \in SUBSET T, s # {}, s \ {Pick(s)} \in Q
      PROVE  s \in Q
  <2>1. g[s] = f[Pick(s)] + g[s \ {Pick(s)}]
    BY <1>2, FoldSteps
  <2>2. h[s] = f[Pick(s)] + h[s \ {Pick(s)}]
    BY <1>0, <1>2, FoldSteps
  <2>3. g[s \ {Pick(s)}] = h[s \ {Pick(s)}]
    BY <1>2
  <2>4. g[s] = h[s]
    <3> HIDE DEF g, h
    <3> QED BY <2>1, <2>2, <2>3
  <2> QED BY <2>4
<1>3. T \in Q
  <2> HIDE DEF Q
  <2> QED BY <1>0, <1>1, <1>2, SubsetInduction
<1> QED BY <1>3, SumIsFold

\* There is nothing to sum up in the empty set.
LEMMA SumEmpty ==
  ASSUME NEW f
  PROVE  SumFunctionOnSet(f, {}) = 0
  BY FS_EmptySet, FoldSteps, SumIsFold

\* Any summand may be taken out.
LEMMA SumRemove ==
  ASSUME NEW S, IsFiniteSet(S), NEW f, \A x \in S : f[x] \in Int, NEW e \in S
  PROVE  SumFunctionOnSet(f, S) = f[e] + SumFunctionOnSet(f, S \ {e})
<1>1. FoldOf(f, S)[S] = f[e] + FoldOf(f, S)[S \ {e}]
  BY FoldAny
<1>2. FoldOf(f, S)[S \ {e}] = SumFunctionOnSet(f, S \ {e})
  BY FoldRestrict
<1> QED BY <1>1, <1>2, SumIsFold

\* A summand may be added.
LEMMA SumInsert ==
  ASSUME NEW S, IsFiniteSet(S), NEW f, NEW e, e \notin S,
         \A x \in S \cup {e} : f[x] \in Int
  PROVE  SumFunctionOnSet(f, S \cup {e}) = f[e] + SumFunctionOnSet(f, S)
<1>1. IsFiniteSet(S \cup {e}) /\ (S \cup {e}) \ {e} = S
  BY FS_AddElement
<1> DEFINE T == S \cup {e}
<1>2. SumFunctionOnSet(f, T) = f[e] + SumFunctionOnSet(f, T \ {e})
  <2>1. IsFiniteSet(T) /\ e \in T /\ \A x \in T : f[x] \in Int
    BY <1>1
  <2> HIDE DEF T
  <2> QED BY <2>1, SumRemove
<1> QED BY <1>1, <1>2

\* Larger summands, larger sum.
LEMMA SumMonotone ==
  ASSUME NEW S, IsFiniteSet(S), NEW f, NEW h,
         \A x \in S : f[x] \in Int /\ h[x] \in Int /\ f[x] <= h[x]
  PROVE  SumFunctionOnSet(f, S) <= SumFunctionOnSet(h, S)
<1> DEFINE a == FoldOf(f, S)
           b == FoldOf(h, S)
           Q == {s \in SUBSET S : a[s] \in Int /\ b[s] \in Int /\ a[s] <= b[s]}
<1>1. {} \in Q
  BY FoldSteps
<1>2. ASSUME NEW s \in SUBSET S, s # {}, s \ {Pick(s)} \in Q
      PROVE  s \in Q
  <2>1. /\ Pick(s) \in S
        /\ a[s] = f[Pick(s)] + a[s \ {Pick(s)}]
        /\ b[s] = h[Pick(s)] + b[s \ {Pick(s)}]
    BY <1>2, FoldSteps
  <2> QED BY <1>2, <2>1
<1>3. S \in Q
  <2> HIDE DEF Q
  <2> QED BY <1>1, <1>2, SubsetInduction
<1> QED BY <1>3, SumIsFold

\* Equal summands, equal sum.
LEMMA SumSame ==
  ASSUME NEW S, IsFiniteSet(S), NEW f, NEW h, \A x \in S : f[x] = h[x]
  PROVE  SumFunctionOnSet(f, S) = SumFunctionOnSet(h, S)
<1> DEFINE a == FoldOf(f, S)
           b == FoldOf(h, S)
           Q == {s \in SUBSET S : a[s] = b[s]}
<1>1. {} \in Q
  BY FoldSteps
<1>2. ASSUME NEW s \in SUBSET S, s # {}, s \ {Pick(s)} \in Q
      PROVE  s \in Q
  <2>1. /\ Pick(s) \in S
        /\ a[s] = f[Pick(s)] + a[s \ {Pick(s)}]
        /\ b[s] = h[Pick(s)] + b[s \ {Pick(s)}]
    BY <1>2, FoldSteps
  <2> QED BY <1>2, <2>1
<1>3. S \in Q
  <2> HIDE DEF Q
  <2> QED BY <1>1, <1>2, SubsetInduction
<1> QED BY <1>3, SumIsFold

\* Two ways f and g to spread one sum, with weights that make w and v of them:
\* where every share that g has more than f weighs at least rate, and every
\* share it has less at most rate, g weighs no less in all.
LEMMA SumExchange ==
  ASSUME NEW S, IsFiniteSet(S), NEW f, NEW g, NEW v, NEW w, NEW rate \in Int,
         \A x \in S : /\ f[x] \in Int /\ g[x] \in Int
                      /\ v[x] \in Int /\ w[x] \in Int
                      /\ w[x] - v[x] >= rate * (g[x] - f[x]),
         SumFunctionOnSet(f, S) = SumFunctionOnSet(g, S)
  PROVE  SumFunctionOnSet(v, S) <= SumFunctionOnSet(w, S)
<1> DEFINE F == FoldOf(f, S)
           G == FoldOf(g, S)
           V == FoldOf(v, S)
           W == FoldOf(w, S)
           Q == {s \in SUBSET S : /\ F[s] \in Int /\ G[s] \in Int
                                  /\ V[s] \in Int /\ W[s] \in Int
                                  /\ W[s] - V[s] >= rate * (G[s] - F[s])}
<1>1. {} \in Q
  <2>1. F[{}] = 0 /\ G[{}] = 0 /\ V[{}] = 0 /\ W[{}] = 0
    BY FoldSteps
  <2>2. rate * (0 - 0) = 0
    OBVIOUS
  <2> QED BY <2>1, <2>2
<1>2. ASSUME NEW s \in SUBSET S, s # {}, s \ {Pick(s)} \in Q
      PROVE  s \in Q
  <2> DEFINE x == Pick(s)
             r == s \ {x}
  <2>1. /\ x \in S
        /\ F[s] = f[x] + F[r] /\ G[s] = g[x] + G[r]
        /\ V[s] = v[x] + V[r] /\ W[s] = w[x] + W[r]
    BY <1>2, FoldSteps
  <2>2. /\ F[r] \in Int /\ G[r] \in Int /\ V[r] \in Int /\ W[r] \in Int
        /\ W[r] - V[r] >= rate * (G[r] - F[r])
    BY <1>2
  <2>3. /\ f[x] \in Int /\ g[x] \in Int /\ v[x] \in Int /\ w[x] \in Int
        /\ w[x] - v[x] >= rate * (g[x] - f[x])
    BY <2>1
  <2>4. \A a, b \in Int : /\ rate * (a + b) = rate * a + rate * b
                         /\ rate * a \in Int
    OBVIOUS
  <2> HIDE DEF x, r, F, G, V, W
  <2>5. rate * ((g[x] - f[x]) + (G[r] - F[r])) = rate * (g[x] - f[x]) + rate * (G[r] - F[r])
    BY <2>2, <2>3, <2>4
  <2>6. (g[x] - f[x]) + (G[r] - F[r]) = G[s] - F[s]
    BY <2>1, <2>2, <2>3
  <2>7. rate * (g[x] - f[x]) \in Int /\ rate * (G[r] - F[r]) \in Int
    BY <2>2, <2>3, <2>4
  <2>8. W[s] - V[s] >= rate * (G[s] - F[s])
    BY <2>1, <2>2, <2>3, <2>5, <2>6, <2>7
  <2> QED BY <2>1, <2>2, <2>3, <2>8
<1>3. S \in Q
  <2> HIDE DEF Q
  <2> QED BY <1>1, <1>2, SubsetInduction
<1>4. F[S] = G[S]
  BY SumIsFold
<1>5. rate * (G[S] - F[S]) = 0
  <2>1. G[S] - F[S] = 0
    BY <1>3, <1>4
  <2> QED BY <2>1
<1>6. V[S] <= W[S]
  BY <1>3, <1>5
<1> QED BY <1>6, SumIsFold

\* The mean of naturals, rounded down, is not outside their bounds.
LEMMA MeanBetween ==
  ASSUME NEW S, IsFiniteSet(S), S # {}, NEW f, NEW low \in Nat, NEW high \in Nat,
         \A x \in S : f[x] \in Nat /\ low <= f[x] /\ f[x] <= high
  PROVE  LET mean == SumFunctionOnSet(f, S) \div Cardinality(S)
         IN  mean \in Nat /\ low <= mean /\ mean <= high
<1>. DEFINE n == Cardinality(S)
            sum == SumFunctionOnSet(f, S)
            lows == [x \in S |-> low]
            highs == [x \in S |-> high]
<1>1. n \in Nat \ {0}
  BY FS_CardinalityType, FS_EmptySet
<1>2. sum \in Nat
  BY SumNat
<1>3. SumFunctionOnSet(lows, S) = low * n
  <2>1. \A x \in S : lows[x] = low
    OBVIOUS
  <2>. HIDE DEF lows
  <2>. QED BY <2>1, SumConstant
<1>4. SumFunctionOnSet(highs, S) = high * n
  <2>1. \A x \in S : highs[x] = high
    OBVIOUS
  <2>. HIDE DEF highs
  <2>. QED BY <2>1, SumConstant
<1>5. SumFunctionOnSet(lows, S) <= sum
  <2>1. \A x \in S : lows[x] \in Int /\ f[x] \in Int /\ lows[x] <= f[x]
    OBVIOUS
  <2>. HIDE DEF lows
  <2>. QED BY <2>1, SumMonotone
<1>6. sum <= SumFunctionOnSet(highs, S)
  <2>1. \A x \in S : f[x] \in Int /\ highs[x] \in Int /\ f[x] <= highs[x]
    OBVIOUS
  <2>. HIDE DEF highs
  <2>. QED BY <2>1, SumMonotone
<1>7. low * n <= sum /\ sum <= high * n
  BY <1>3, <1>4, <1>5, <1>6
<1>. DEFINE mean == sum \div n
<1>. HIDE DEF n, sum, lows, highs
<1>8. mean \in Nat /\ n * mean <= sum /\ sum < n * (mean + 1)
  BY <1>1, <1>2, QuotientIs
<1>. HIDE DEF mean
<1>9. ASSUME NEW i \in Nat, NEW j \in Nat, i < j
      PROVE  n * (i + 1) <= n * j
  BY <1>1, <1>9
<1>10. \A i, j \in Nat : n * i = i * n /\ n * i \in Nat /\ n * (i + 1) = n * i + n
  BY <1>1
<1>11. low <= mean
  <2>1. SUFFICES ASSUME mean < low PROVE FALSE
    BY <1>8
  <2>2. n * (mean + 1) <= n * low
    BY <1>8, <1>9, <2>1
  <2>. QED BY <1>1, <1>2, <1>7, <1>8, <1>10, <2>2
<1>12. mean <= high
  <2>1. SUFFICES ASSUME high < mean PROVE FALSE
    BY <1>8
  <2>2. n * (high + 1) <= n * mean
    BY <1>8, <1>9, <2>1
  <2>. QED BY <1>1, <1>2, <1>7, <1>8, <1>10, <2>2
<1>. QED BY <1>8, <1>11, <1>12 DEF mean, sum, n

----------------------------------------------------------------------------
(* Finite sets *)

\* A function has finitely many values on a finite set.
LEMMA ImageFinite ==
  ASSUME NEW S, IsFiniteSet(S), NEW f
  PROVE  IsFiniteSet({f[x] : x \in S})
<1>. DEFINE T == {f[x] : x \in S}
            g == [x \in S |-> f[x]]
<1>1. g \in Surjection(S, T)
  BY DEF Surjection
<1>. HIDE DEF g, T
<1>2. IsFiniteSet(T)
  BY <1>1, FS_Surjection
<1>. QED BY <1>2 DEF T

----------------------------------------------------------------------------
(* The largest and the smallest of a finite set *)

\* A finite set of integers has a largest element, and Max returns it.
LEMMA MaxOfSet ==
  ASSUME NEW S, S \subseteq Int, IsFiniteSet(S), S # {}
  PROVE  Max(S) \in S /\ \A x \in S : x <= Max(S)
<1>. DEFINE Q == {s \in SUBSET S : s # {} => \E m \in s : \A x \in s : x <= m}
<1>1. {} \in Q
  OBVIOUS
<1>2. ASSUME NEW s \in SUBSET S, s # {}, s \ {Pick(s)} \in Q
      PROVE  s \in Q
  <2>1. Pick(s) \in s
    BY <1>2 DEF Pick
  <2>2. CASE s \ {Pick(s)} = {}
    <3>1. \A x \in s : x <= Pick(s)
      BY <2>1, <2>2
    <3>. QED BY <2>1, <3>1
  <2>3. CASE s \ {Pick(s)} # {}
    <3>1. PICK m \in s \ {Pick(s)} : \A x \in s \ {Pick(s)} : x <= m
      BY <1>2, <2>3
    <3>2. \E k \in {m, Pick(s)} : \A x \in s : x <= k
      <4>1. m \in Int /\ Pick(s) \in Int
        BY <2>1
      <4>2. CASE m <= Pick(s)
        BY <3>1, <4>1, <4>2
      <4>3. CASE Pick(s) < m
        BY <3>1, <4>1, <4>3
      <4>. QED BY <4>1, <4>2, <4>3
    <3>. QED BY <2>1, <3>2
  <2>. QED BY <2>2, <2>3
<1>3. S \in Q
  <2>. HIDE DEF Q
  <2>. QED BY <1>1, <1>2, SubsetInduction
<1>4. \E m \in S : \A x \in S : x <= m
  BY <1>3
<1>5. \E m \in S : \A x \in S : m >= x
  BY <1>4
<1>6. Max(S) \in S /\ \A x \in S : Max(S) >= x
  BY <1>5 DEF Max
<1>. QED BY <1>6

\* And a smallest one.
LEMMA MinOfSet ==
  ASSUME NEW S, S \subseteq Nat, S # {}
  PROVE  Min(S) \in S /\ \A x \in S : Min(S) <= x
<1>1. \E m \in S : \A x \in S : m <= x
  BY SmallestOf
<1>. QED BY <1>1 DEF Min
=============================================================================

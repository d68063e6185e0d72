----------------------------- MODULE LifeProofs -----------------------------
(***************************************************************************)
(* The start-up of the program and its life under systemd, for all values  *)
(* of their constants: the fees the loop begins with are backed by what    *)
(* the exchanges answered; systemd does not give up on the bot; and a stop *)
(* takes no longer than one cycle.                                         *)
(***************************************************************************)
EXTENDS Startup, Service, IntegerLemmas

----------------------------------------------------------------------------
(* The taker fees *)

\* Up to the end of resolve_taker_fees, the fees resolved are those of the
\* clients passed, and backed by their answers; the others are configured.
StartupInvariant ==
  /\ fee_setting \in [Exchanges -> FeeSettings]
  /\ clients \subseteq Exchanges
  /\ stage \in {"settings", "gateway", "fees"} =>
       fees_taker = [x \in Exchanges |-> _float_env(fee_setting[x], DefaultFee)]
  /\ stage \in {"config", "settings", "gateway"} => DOMAIN resolved = {}
  /\ stage \in {"config", "settings", "gateway", "fees"} =>
       /\ DOMAIN resolved \subseteq clients
       /\ DOMAIN sources = DOMAIN resolved /\ DOMAIN reported = DOMAIN resolved
       /\ \A x \in DOMAIN resolved :
            /\ resolved[x] \in Nat /\ sources[x] \in Sources
            /\ Backs(x, reported[x].market, reported[x].account, sources[x], resolved[x])
  /\ stage \in {"dashboard", "loop", "running", "stopped", "crashed"} =>
       /\ fees_taker \in [Exchanges -> Nat] /\ sources \in [Exchanges -> Sources]
       /\ \A x \in Exchanges :
            Backs(x, IF x \in clients THEN reported[x].market ELSE NoFees,
                  IF x \in clients THEN reported[x].account ELSE NoFees, sources[x], fees_taker[x])

\* The setting of an exchange is a fee.
LEMMA SettingType ==
  ASSUME NEW f \in FeeSettings
  PROVE  _float_env(f, DefaultFee) \in Nat
  BY StartupAssumption DEF _float_env

\* There are finitely many symbols.
LEMMA SymbolsFinite == IsFiniteSet(Symbols)
<1>1. SymbolList \in Seq(Symbols)
  BY StartupAssumption
<1>. DEFINE D == 1..Len(SymbolList)
<1>2. DOMAIN SymbolList = D /\ IsFiniteSet(D)
  BY <1>1, FS_Interval
<1>3. Symbols = {SymbolList[i] : i \in D}
  BY <1>2 DEF Symbols, Range
<1>. HIDE DEF D
<1>4. IsFiniteSet({SymbolList[i] : i \in D})
  BY <1>2, ImageFinite
<1>. QED BY <1>3, <1>4

\* A report that names no symbol is no report.
LEMMA NamedIsEmpty ==
  ASSUME NEW report \in [Symbols -> Nat]
  PROVE  Named(report) = {} <=> report = NoFees
<1>1. ASSUME Named(report) = {} PROVE report = NoFees
  <2>1. \A s \in Symbols : report[s] = 0
    BY <1>1 DEF Named
  <2>. QED BY <2>1 DEF NoFees
<1>2. ASSUME report = NoFees PROVE Named(report) = {}
  BY <1>2 DEF Named, NoFees
<1>. QED BY <1>1, <1>2

\* The mean of the fees named is between the lowest and the highest.
LEMMA MeanIsBacked ==
  ASSUME NEW report \in [Symbols -> Nat], report # NoFees
  PROVE  LET named == {report[s] : s \in Symbols} \ {0}
         IN  /\ named # {} /\ Mean(report) \in Nat
             /\ Min(named) <= Mean(report) /\ Mean(report) <= Max(named)
<1>. DEFINE named == {report[s] : s \in Symbols} \ {0}
            S == Named(report)
            low == Min(named)
            high == Max(named)
<1>1. IsFiniteSet(S) /\ S # {} /\ S \subseteq Symbols
  BY SymbolsFinite, NamedIsEmpty, FS_Subset DEF Named
<1>2. \A s \in S : report[s] \in named
  BY DEF Named
<1>3. named \subseteq Nat /\ named # {}
  BY <1>1, <1>2
<1>4. IsFiniteSet(named)
  <2>1. IsFiniteSet({report[s] : s \in Symbols})
    BY SymbolsFinite, ImageFinite
  <2>2. named \subseteq {report[s] : s \in Symbols}
    OBVIOUS
  <2>. HIDE DEF named
  <2>. QED BY <2>1, <2>2, FS_Subset
<1>5. low \in named /\ \A x \in named : low <= x
  <2>. HIDE DEF named
  <2>. QED BY <1>3, MinOfSet
<1>6. high \in named /\ \A x \in named : x <= high
  <2>. HIDE DEF named
  <2>1. named \subseteq Int
    BY <1>3
  <2>. QED BY <1>3, <1>4, <2>1, MaxOfSet
<1>. HIDE DEF named, S, low, high
<1>7. low \in Nat /\ high \in Nat
  BY <1>3, <1>5, <1>6
<1>8. \A s \in S : report[s] \in Nat /\ low <= report[s] /\ report[s] <= high
  BY <1>1, <1>2, <1>5, <1>6
<1>9. LET mean == SumFunctionOnSet(report, S) \div Cardinality(S)
      IN  mean \in Nat /\ low <= mean /\ mean <= high
  BY <1>1, <1>7, <1>8, MeanBetween
<1>. QED BY <1>3, <1>9 DEF Mean, S, low, high, named

\* So it lies within them.
LEMMA MeanIsWithin ==
  ASSUME NEW report \in [Symbols -> Nat], report # NoFees
  PROVE  Mean(report) \in Nat /\ Within(Mean(report), report)
BY MeanIsBacked DEF Within

\* Without an answer the fee is the configured one.
LEMMA NothingBacks ==
  ASSUME NEW x
  PROVE  Backs(x, NoFees, NoFees, "env_fallback", _float_env(fee_setting[x], DefaultFee))
BY DEF Backs

\* The fee taken from the answers of an exchange is backed by them.
LEMMA FeeIsBacked ==
  ASSUME NEW x \in Exchanges, NEW market \in [Symbols -> Nat], NEW account \in [Symbols -> Nat],
         fee_setting \in [Exchanges -> FeeSettings],
         fees_taker = [y \in Exchanges |-> _float_env(fee_setting[y], DefaultFee)]
  PROVE  /\ FeeOf(x, market, account) \in Nat
         /\ Backs(x, market, account, Source(market, account), FeeOf(x, market, account))
         /\ Source(market, account) \in Sources
<1>1. /\ fees_taker[x] = _float_env(fee_setting[x], DefaultFee)
      /\ fees_taker[x] \in Nat
  BY SettingType
<1>2. CASE account # NoFees
  <2>1. Source(market, account) = "api_trading_fees"
    BY <1>2, NamedIsEmpty DEF Source
  <2>2. FeeOf(x, market, account) = Mean(account)
    BY <2>1 DEF FeeOf
  <2>3. Mean(account) \in Nat /\ Within(Mean(account), account)
    BY <1>2, MeanIsWithin
  <2>. QED BY <2>1, <2>2, <2>3 DEF Backs, Sources
<1>3. CASE account = NoFees /\ market # NoFees
  <2>1. Source(market, account) = "markets_taker"
    BY <1>3, NamedIsEmpty DEF Source
  <2>2. FeeOf(x, market, account) = Mean(market)
    BY <2>1 DEF FeeOf
  <2>3. Mean(market) \in Nat /\ Within(Mean(market), market)
    BY <1>3, MeanIsWithin
  <2>. QED BY <1>3, <2>1, <2>2, <2>3 DEF Backs, Sources
<1>4. CASE account = NoFees /\ market = NoFees
  <2>1. Source(market, account) = "env_fallback"
    BY <1>4, NamedIsEmpty DEF Source
  <2>2. FeeOf(x, market, account) = fees_taker[x]
    BY <2>1 DEF FeeOf
  <2>. QED BY <1>1, <1>4, <2>1, <2>2 DEF Backs, Sources
<1>. QED BY <1>2, <1>3, <1>4

\* The fees of the clients passed stay, and the next one is added.
LEMMA FeeAdded ==
  ASSUME StartupInvariant, stage = "fees",
         UNCHANGED <<stage, fee_setting, fees_taker, clients>>,
         NEW x \in clients, x \notin DOMAIN resolved,
         NEW fee \in Nat, NEW source \in Sources, NEW answer,
         Backs(x, answer.market, answer.account, source, fee),
         resolved' = With(resolved, x, fee), sources' = With(sources, x, source),
         reported' = With(reported, x, answer)
  PROVE  StartupInvariant'
<1>1. /\ fee_setting \in [Exchanges -> FeeSettings]
      /\ fees_taker = [y \in Exchanges |-> _float_env(fee_setting[y], DefaultFee)]
      /\ clients \subseteq Exchanges
      /\ DOMAIN resolved \subseteq clients
      /\ DOMAIN sources = DOMAIN resolved /\ DOMAIN reported = DOMAIN resolved
      /\ \A y \in DOMAIN resolved :
            /\ resolved[y] \in Nat /\ sources[y] \in Sources
            /\ Backs(y, reported[y].market, reported[y].account, sources[y], resolved[y])
  BY DEF StartupInvariant
<1>2. /\ DOMAIN resolved' = DOMAIN resolved \cup {x}
      /\ resolved'[x] = fee /\ \A y \in DOMAIN resolved : resolved'[y] = resolved[y]
  BY DEF With
<1>3. /\ DOMAIN sources' = DOMAIN resolved \cup {x}
      /\ sources'[x] = source /\ \A y \in DOMAIN resolved : sources'[y] = sources[y]
  BY <1>1 DEF With
<1>4. /\ DOMAIN reported' = DOMAIN resolved \cup {x}
      /\ reported'[x] = answer /\ \A y \in DOMAIN resolved : reported'[y] = reported[y]
  BY <1>1 DEF With
<1>5. ASSUME NEW y, NEW m, NEW a, NEW t, NEW f, Backs(y, m, a, t, f)
      PROVE  Backs(y, m, a, t, f)'
  BY <1>5 DEF Backs
<1>6. ASSUME NEW y \in DOMAIN resolved'
      PROVE  /\ resolved'[y] \in Nat /\ sources'[y] \in Sources
             /\ Backs(y, reported[y].market, reported[y].account, sources[y], resolved[y])'
  <2>1. CASE y = x
    <3>1. Backs(x, answer.market, answer.account, source, fee)'
      BY <1>5
    <3>2. Backs(x, reported[x].market, reported[x].account, sources[x], resolved[x])'
      BY <1>2, <1>3, <1>4, <3>1 DEF Backs
    <3>. QED BY <1>2, <1>3, <2>1, <3>2
  <2>2. CASE y \in DOMAIN resolved
    <3>1. /\ resolved'[y] = resolved[y] /\ sources'[y] = sources[y]
          /\ reported'[y] = reported[y]
      BY <1>2, <1>3, <1>4, <2>2
    <3>2. Backs(y, reported[y].market, reported[y].account, sources[y], resolved[y])
      BY <1>1, <2>2
    <3>3. Backs(y, reported[y].market, reported[y].account, sources[y], resolved[y])'
      BY <3>1, <3>2 DEF Backs
    <3>. QED BY <1>1, <2>2, <3>1, <3>3
  <2>. QED BY <1>2, <2>1, <2>2
<1>. QED BY <1>1, <1>2, <1>3, <1>4, <1>6 DEF StartupInvariant

\* One turn of the loop over the clients keeps the invariant.
LEMMA ResolveFeeInvariant ==
  StartupInvariant /\ ResolveFee => StartupInvariant'
<1>. SUFFICES ASSUME StartupInvariant, ResolveFee PROVE StartupInvariant'
  OBVIOUS
<1>1. PICK k \in DOMAIN Listing, market \in MarketReports, account \in AccountReports :
        /\ Listing[k] \in Left
        /\ resolved' = With(resolved, Listing[k], FeeOf(Listing[k], market, account))
        /\ sources' = With(sources, Listing[k], Source(market, account))
        /\ reported' = With(reported, Listing[k], [market |-> market, account |-> account])
  BY DEF ResolveFee
<1>2. /\ stage = "fees"
      /\ UNCHANGED <<stage, fee_setting, fees_taker, clients>>
  BY DEF ResolveFee
<1>3. PICK x : x = Listing[k]
  OBVIOUS
<1>4. /\ x \in clients /\ x \notin DOMAIN resolved /\ x \in Exchanges
      /\ market \in [Symbols -> Nat] /\ account \in [Symbols -> Nat]
  BY <1>1, <1>3, StartupAssumption DEF Left, StartupInvariant
<1>5. /\ FeeOf(x, market, account) \in Nat
      /\ Backs(x, market, account, Source(market, account), FeeOf(x, market, account))
      /\ Source(market, account) \in Sources
  <2>1. /\ fee_setting \in [Exchanges -> FeeSettings]
        /\ fees_taker = [y \in Exchanges |-> _float_env(fee_setting[y], DefaultFee)]
    BY <1>2 DEF StartupInvariant
  <2>. QED BY <1>4, <2>1, FeeIsBacked
<1>6. PICK fee \in Nat : fee = FeeOf(x, market, account)
  BY <1>5
<1>7. PICK source \in Sources : source = Source(market, account)
  BY <1>5
<1>8. PICK answer : answer = [market |-> market, account |-> account]
  OBVIOUS
<1>9. Backs(x, answer.market, answer.account, source, fee)
  BY <1>5, <1>6, <1>7, <1>8
<1>10. /\ resolved' = With(resolved, x, fee) /\ sources' = With(sources, x, source)
       /\ reported' = With(reported, x, answer)
  BY <1>1, <1>3, <1>6, <1>7, <1>8
<1>. QED BY <1>2, <1>4, <1>9, <1>10, FeeAdded

\* The exchanges without a client keep the fee of the configuration.
LEMMA EndFeesInvariant ==
  StartupInvariant /\ EndFees => StartupInvariant'
<1>. SUFFICES ASSUME StartupInvariant, EndFees PROVE StartupInvariant'
  OBVIOUS
<1>1. /\ stage = "fees" /\ stage' = "dashboard"
      /\ clients \subseteq DOMAIN resolved
      /\ fees_taker' = [x \in Exchanges |->
                          IF x \in DOMAIN resolved THEN resolved[x] ELSE fees_taker[x]]
      /\ sources' = [x \in Exchanges |->
                       IF x \in DOMAIN sources THEN sources[x] ELSE "env_fallback"]
      /\ UNCHANGED <<fee_setting, clients, reported>>
  BY DEF EndFees
<1>2. /\ fee_setting \in [Exchanges -> FeeSettings]
      /\ fees_taker = [x \in Exchanges |-> _float_env(fee_setting[x], DefaultFee)]
      /\ clients \subseteq Exchanges
      /\ DOMAIN resolved = clients /\ DOMAIN sources = clients
      /\ \A x \in clients :
            /\ resolved[x] \in Nat /\ sources[x] \in Sources
            /\ Backs(x, reported[x].market, reported[x].account, sources[x], resolved[x])
  BY <1>1 DEF StartupInvariant
<1>3. sources' \in [Exchanges -> Sources]
  BY <1>1, <1>2 DEF Sources
<1>4. \A x \in Exchanges : _float_env(fee_setting[x], DefaultFee) \in Nat
  BY <1>2, SettingType
<1>5. /\ fees_taker' \in [Exchanges -> Nat]
      /\ \A x \in Exchanges :
           fees_taker'[x] = IF x \in clients THEN resolved[x]
                            ELSE _float_env(fee_setting[x], DefaultFee)
  BY <1>1, <1>2, <1>4
<1>6. \A x \in Exchanges :
        sources'[x] = IF x \in clients THEN sources[x] ELSE "env_fallback"
  BY <1>1, <1>2
<1>7. ASSUME NEW x \in Exchanges
      PROVE  Backs(x, IF x \in clients THEN reported[x].market ELSE NoFees,
                   IF x \in clients THEN reported[x].account ELSE NoFees, sources'[x], fees_taker'[x])
  <2>1. CASE x \in clients
    BY <1>2, <1>5, <1>6, <2>1
  <2>2. CASE x \notin clients
    BY <1>5, <1>6, <2>2, NothingBacks
  <2>. QED BY <2>1, <2>2
<1>8. ASSUME NEW x \in Exchanges
      PROVE  Backs(x, IF x \in clients THEN reported[x].market ELSE NoFees,
                   IF x \in clients THEN reported[x].account ELSE NoFees, sources[x], fees_taker[x])'
  BY <1>1, <1>7 DEF Backs
<1>. QED BY <1>1, <1>2, <1>3, <1>5, <1>8 DEF StartupInvariant

\* The start-up begins without fees.
LEMMA StartupInitInvariant == StartupInit => StartupInvariant
  BY DEF StartupInit, StartupInvariant

\* What the invariant is about changes in these steps only.
LEMMA OtherStepInvariant ==
  ASSUME StartupInvariant,
         UNCHANGED <<fee_setting, fees_taker, clients, resolved, sources, reported>>,
         \/ UNCHANGED stage
         \/ stage = "settings" /\ stage' = "gateway"
         \/ stage \in {"dashboard", "loop"} /\ stage' \in {"loop", "running", "stopped", "crashed"}
         \/ stage' = "terminated"
  PROVE  StartupInvariant'
<1>2. fee_setting' \in [Exchanges -> FeeSettings] /\ clients' \subseteq Exchanges
  BY DEF StartupInvariant
<1>3. ASSUME stage' \in {"settings", "gateway", "fees"}
      PROVE  fees_taker' = [x \in Exchanges |-> _float_env(fee_setting'[x], DefaultFee)]
  BY <1>3 DEF StartupInvariant
<1>4. ASSUME stage' \in {"config", "settings", "gateway"}
      PROVE  DOMAIN resolved' = {}
  BY <1>4 DEF StartupInvariant
<1>5. ASSUME stage' \in {"config", "settings", "gateway", "fees"}
      PROVE  /\ DOMAIN resolved' \subseteq clients'
             /\ DOMAIN sources' = DOMAIN resolved' /\ DOMAIN reported' = DOMAIN resolved'
             /\ \A x \in DOMAIN resolved' :
                  /\ resolved'[x] \in Nat /\ sources'[x] \in Sources
                  /\ Backs(x, reported[x].market, reported[x].account, sources[x], resolved[x])'
  <2>1. stage \in {"config", "settings", "gateway", "fees"}
    BY <1>5
  <2>2. ASSUME NEW x \in DOMAIN resolved
        PROVE  Backs(x, reported[x].market, reported[x].account, sources[x], resolved[x])'
    <3>1. Backs(x, reported[x].market, reported[x].account, sources[x], resolved[x])
      BY <2>1, <2>2 DEF StartupInvariant
    <3>. QED BY <3>1 DEF Backs
  <2>. QED BY <2>1, <2>2 DEF StartupInvariant
<1>6. ASSUME stage' \in {"dashboard", "loop", "running", "stopped", "crashed"}
      PROVE  /\ fees_taker' \in [Exchanges -> Nat] /\ sources' \in [Exchanges -> Sources]
             /\ \A x \in Exchanges :
                  Backs(x, IF x \in clients THEN reported[x].market ELSE NoFees,
                        IF x \in clients THEN reported[x].account ELSE NoFees, sources[x], fees_taker[x])'
  <2>1. stage \in {"dashboard", "loop", "running", "stopped", "crashed"}
    BY <1>6
  <2>2. ASSUME NEW x \in Exchanges
        PROVE  Backs(x, IF x \in clients THEN reported[x].market ELSE NoFees,
                     IF x \in clients THEN reported[x].account ELSE NoFees, sources[x], fees_taker[x])'
    <3>1. Backs(x, IF x \in clients THEN reported[x].market ELSE NoFees,
                IF x \in clients THEN reported[x].account ELSE NoFees, sources[x], fees_taker[x])
      BY <2>1, <2>2 DEF StartupInvariant
    <3>. QED BY <3>1 DEF Backs
  <2>. QED BY <2>1, <2>2 DEF StartupInvariant
<1>. QED BY <1>2, <1>3, <1>4, <1>5, <1>6 DEF StartupInvariant

\* Every step keeps the invariant.
LEMMA StartupStepInvariant ==
  StartupInvariant /\ [StartupNext]_startupvars => StartupInvariant'
<1>. SUFFICES ASSUME StartupInvariant, [StartupNext]_startupvars PROVE StartupInvariant'
  OBVIOUS
<1>1. CASE LoadConfig
  BY <1>1 DEF LoadConfig, StartupInvariant
<1>2. CASE CheckSettings
  BY <1>2, OtherStepInvariant DEF CheckSettings
<1>3. CASE InitGateway
  BY <1>3 DEF InitGateway, StartupInvariant
<1>4. CASE ResolveFee
  BY <1>4, ResolveFeeInvariant
<1>5. CASE EndFees
  BY <1>5, EndFeesInvariant
<1>6. CASE StartDashboard
  BY <1>6, OtherStepInvariant DEF StartDashboard
<1>7. CASE EnterLoop
  BY <1>7, OtherStepInvariant DEF EnterLoop
<1>8. CASE Signal
  BY <1>8, OtherStepInvariant DEF Signal
<1>9. CASE UNCHANGED startupvars
  BY <1>9, OtherStepInvariant DEF startupvars
<1>. QED BY <1>1, <1>2, <1>3, <1>4, <1>5, <1>6, <1>7, <1>8, <1>9 DEF StartupNext, StartupStep

\* exchanges.py:75-114: whatever the exchanges answer and whichever of them
\* have a client, the loop begins with a fee for each, backed by its answers.
THEOREM FeesBacked == StartupSpec => []FeesAreBacked
<1>1. StartupInvariant => FeesAreBacked
  BY DEF StartupInvariant, FeesAreBacked, Backs
<1>. QED BY <1>1, StartupInitInvariant, StartupStepInvariant, PTL DEF StartupSpec

----------------------------------------------------------------------------
(* The start limit of the unit *)

\* The wait between two starts and the number systemd allows in a window are
\* such that they cannot come that fast.
StartsAreApart == StartLimitBurst * RestartSec > StartLimitInterval

\* The time that so many waits take.
Waits(k) == k * RestartSec

\* The starts counted in the window have all but one waited for RestartSec in
\* it, or it is over; and what is left of the wait comes on top.
LimitInvariant ==
  /\ unit # "failed"
  /\ window \in Int /\ wait \in Nat /\ counted \in 1..StartLimitBurst
  /\ unit = "active" => window > StartLimitInterval \/ window >= Waits(counted - 1)
  /\ unit = "auto-restart" => window > StartLimitInterval \/ window + wait >= Waits(counted)

\* One wait more.
LEMMA WaitsAdd ==
  /\ \A k \in Int : Waits(k) \in Int /\ Waits(k) = Waits(k - 1) + RestartSec
  /\ Waits(0) = 0
  /\ RestartSec \in Nat /\ TimeoutStopSec \in Nat
  /\ StartLimitBurst \in Nat \ {0} /\ StartLimitInterval \in Nat
<1>1. /\ RestartSec \in Nat /\ TimeoutStopSec \in Nat
      /\ StartLimitBurst \in Nat \ {0} /\ StartLimitInterval \in Nat
  BY ServiceAssumption
<1>2. \A k, r \in Int : k * r \in Int /\ k * r = (k - 1) * r + r /\ 0 * r = 0
  OBVIOUS
<1>. QED BY <1>1, <1>2 DEF Waits

\* Every step keeps the invariant of the limit.
LEMMA LimitStep ==
  ASSUME StartsAreApart
  PROVE  LimitInvariant /\ [Next]_vars => LimitInvariant'
<1>. SUFFICES ASSUME LimitInvariant, [Next]_vars PROVE LimitInvariant'
  OBVIOUS
<1>1. /\ unit # "failed"
      /\ window \in Int /\ wait \in Nat /\ counted \in 1..StartLimitBurst /\ counted \in Int
      /\ unit = "active" => window > StartLimitInterval \/ window >= Waits(counted - 1)
      /\ unit = "auto-restart" => window > StartLimitInterval \/ window + wait >= Waits(counted)
  BY DEF LimitInvariant
<1>2. ASSUME UNCHANGED <<unit, wait, window, counted>> PROVE LimitInvariant'
  BY <1>1, <1>2 DEF LimitInvariant
<1>3. ASSUME NEW clean, End(clean) PROVE LimitInvariant'
  <2>1. UNCHANGED <<window, counted>>
    BY <1>3 DEF End
  <2>2. Waits(counted) = Waits(counted - 1) + RestartSec /\ Waits(counted - 1) \in Int
        /\ RestartSec \in Nat
    BY <1>1, WaitsAdd
  <2>3. CASE unit = "active" /\ unit' = "auto-restart" /\ wait' = RestartSec
    BY <1>1, <2>1, <2>2, <2>3 DEF LimitInvariant
  <2>4. CASE unit = "stopping" /\ unit' = "inactive" /\ wait' = 0
    BY <1>1, <2>1, <2>4 DEF LimitInvariant
  <2>. QED BY <1>3, <2>3, <2>4 DEF End, AfterExit, RestartWait
<1>4. CASE ExecStart
  <2>1. unit = "auto-restart" /\ wait = 0 /\ wait' = wait
    BY <1>4 DEF ExecStart
  <2>2. Waits(counted) \in Int /\ StartLimitInterval \in Nat /\ StartLimitBurst \in Nat \ {0}
    BY <1>1, WaitsAdd
  <2>3. window > StartLimitInterval \/ window >= Waits(counted)
    BY <1>1, <2>1, <2>2
  <2>4. ASSUME ~ WindowOver, counted >= StartLimitBurst PROVE FALSE
    <3>1. counted = StartLimitBurst
      BY <1>1, <2>2, <2>4
    <3>2. Waits(counted) > StartLimitInterval
      BY <3>1 DEF Waits, StartsAreApart
    <3>. QED BY <1>1, <2>2, <2>3, <2>4, <3>2 DEF WindowOver
  <2>5. /\ WindowOver \/ counted < StartLimitBurst
        /\ unit' = "active"
        /\ window' = IF WindowOver THEN 0 ELSE window
        /\ counted' = IF WindowOver THEN 1 ELSE counted + 1
    BY <1>4, <2>4 DEF ExecStart
  <2>6. CASE WindowOver
    <3>1. window' = 0 /\ counted' = 1 /\ counted' - 1 = 0
      BY <2>5, <2>6
    <3>2. Waits(counted' - 1) = 0
      BY <3>1, WaitsAdd
    <3>. QED BY <1>1, <2>1, <2>2, <2>5, <3>1, <3>2 DEF LimitInvariant
  <2>7. CASE ~ WindowOver
    <3>1. window' = window /\ counted' = counted + 1 /\ counted < StartLimitBurst
      BY <2>5, <2>7
    <3>2. counted' - 1 = counted /\ counted' \in 1..StartLimitBurst
      BY <1>1, <2>2, <3>1
    <3>3. window' > StartLimitInterval \/ window' >= Waits(counted' - 1)
      BY <2>3, <3>1, <3>2
    <3>. QED BY <1>1, <2>1, <2>5, <3>1, <3>2, <3>3 DEF LimitInvariant
  <2>. QED BY <2>6, <2>7
<1>5. CASE Tick
  <2>1. /\ UNCHANGED <<unit, counted>>
        /\ wait' = IF wait > 0 THEN wait - 1 ELSE 0
        /\ window' = Min({window + 1, StartLimitInterval + 1})
    BY <1>5 DEF Tick, TickDown
  <2>2. StartLimitInterval \in Nat /\ Waits(counted) \in Int /\ Waits(counted - 1) \in Int
    BY <1>1, WaitsAdd
  <2>. DEFINE more == window + 1
              most == StartLimitInterval + 1
  <2>3. more \in Int /\ most \in Int
    BY <1>1, <2>2
  <2>4. window' = IF more <= most THEN more ELSE most
    <3>1. window' = Min({more, most})
      BY <2>1
    <3>. HIDE DEF more, most
    <3>. QED BY <2>3, <3>1, MinPair
  <2>5. wait' \in Nat /\ wait' >= wait - 1
    BY <1>1, <2>1
  <2>. QED BY <1>1, <2>1, <2>2, <2>4, <2>5 DEF LimitInvariant
<1>6. CASE SystemctlStop
  <2>1. /\ unit' \in {"stopping", "inactive"} /\ wait' \in {TimeoutStopSec, 0}
        /\ UNCHANGED <<window, counted>>
    BY <1>6 DEF SystemctlStop
  <2>. QED BY <1>1, <2>1, WaitsAdd DEF LimitInvariant
<1>7. CASE ProcessStep
  BY <1>2, <1>7 DEF ProcessStep, Quiet
<1>8. CASE Crash \/ Exit \/ Kill
  BY <1>3, <1>8 DEF Crash, Exit, Kill
<1>9. CASE SignalFromElsewhere
  BY <1>2, <1>9 DEF SignalFromElsewhere, Quiet
<1>10. CASE UNCHANGED vars
  BY <1>2, <1>10 DEF vars
<1>. QED BY <1>4, <1>5, <1>6, <1>7, <1>8, <1>9, <1>10 DEF Next, UnitStep

\* arbbot.service:15-16: whatever the process does and however it dies, if the
\* unit's wait and systemd's limit are as StartsAreApart says (5 times 5
\* seconds against 10), it is started again.
THEOREM SystemdNeverGivesUp ==
  ASSUME StartsAreApart
  PROVE  Spec => []NeverGivesUp
<1>1. Init => LimitInvariant
  <2>. SUFFICES ASSUME Init PROVE LimitInvariant
    OBVIOUS
  <2>1. /\ unit = "active" /\ wait = 0 /\ window = 0 /\ counted = 1 /\ counted - 1 = 0
    BY DEF Init
  <2>2. Waits(counted - 1) = 0
    BY <2>1, WaitsAdd
  <2>. QED BY <2>1, <2>2, WaitsAdd DEF LimitInvariant
<1>2. LimitInvariant /\ [Next]_vars => LimitInvariant'
  BY LimitStep
<1>3. LimitInvariant => NeverGivesUp
  BY DEF LimitInvariant, NeverGivesUp
<1>. QED BY <1>1, <1>2, <1>3, PTL DEF Spec

----------------------------------------------------------------------------
(* The time a stop takes *)

\* The longest calls of each kind, and so many messages.
LongestStart == Longest(StartTimes)
LongestScan == Longest(ScanTimes)
LongestSend == Longest(SendTimes)
Sends(k) == k * LongestSend

Calls == {"import", "start", "start_message", "top", "scan", "rebalance", "alert",
          "sleep", "close", "stop_message", "exit", "gone"}

\* The longest that a call takes.
LongestCall(call) ==
  CASE call = "start" -> LongestStart
    [] call = "scan" -> LongestScan
    [] call \in {"start_message", "rebalance", "alert", "stop_message"} -> LongestSend
    [] call = "sleep" -> PollInterval
    [] OTHER -> 0

\* The longest that a process that is to stop takes from the end of a call on,
\* with k symbols to rebalance.
After(call, k) ==
  CASE call = "start" -> LongestSend + LongestSend
    [] call \in {"start_message", "top", "sleep", "close"} -> LongestSend
    [] call = "scan" -> Sends(SymbolCount) + LongestSend + LongestSend + PollInterval + LongestSend
    [] call = "rebalance" -> Sends(k) + LongestSend + PollInterval + LongestSend
    [] call = "alert" -> PollInterval + LongestSend
    [] OTHER -> 0

\* The bound of StopTimeBounded.
StopTime(call) ==
  LongestSend + (IF call \in {"start", "start_message"} THEN StartTime ELSE CycleTime)

\* From the signal on, the time since then, the rest of the call in progress
\* and what may come after it stay within the bound of the call the signal met.
StopInvariant ==
  /\ pc \in Calls /\ left \in 0..LongestCall(pc)
  /\ symbols_left \in 0..SymbolCount
  /\ since_stop \in Nat /\ since_stop <= StopTime(asked_at)
  /\ unit \in {"active", "auto-restart", "failed"} => since_stop = 0
  /\ unit = "active" => pc # "gone"
  /\ unit = "stopping" =>
       /\ stopping /\ pc \notin {"import", "gone"}
       /\ since_stop + left + After(pc, symbols_left) <= StopTime(asked_at)

\* The longest calls are calls, and no call is longer.
LEMMA LongestIs ==
  /\ LongestStart \in Nat /\ \A t \in StartTimes : t \in 0..LongestStart
  /\ LongestScan \in Nat /\ \A t \in ScanTimes : t \in 0..LongestScan
  /\ LongestSend \in Nat /\ \A t \in SendTimes : t \in 0..LongestSend
  /\ \A t \in MessageTimes : t \in 0..LongestSend
<1>1. ASSUME NEW T \in {StartTimes, ScanTimes, SendTimes}
      PROVE  Longest(T) \in Nat /\ \A t \in T : t \in 0..Longest(T)
  <2>1. T # {} /\ IsFiniteSet(T) /\ T \subseteq Nat /\ T \subseteq Int
    BY ServiceAssumption
  <2>2. Max(T) \in T /\ \A t \in T : t <= Max(T)
    BY <2>1, MaxOfSet
  <2>. DEFINE m == Max(T)
  <2>3. m \in Nat /\ \A t \in T : t \in Nat /\ t <= m
    BY <2>1, <2>2
  <2>4. Longest(T) = m
    BY DEF Longest
  <2>. HIDE DEF m
  <2>5. \A t \in T : t \in 0..m
    BY <2>3
  <2>. QED BY <2>3, <2>4, <2>5
<1>2. LongestStart \in Nat /\ \A t \in StartTimes : t \in 0..LongestStart
  BY <1>1 DEF LongestStart
<1>3. LongestScan \in Nat /\ \A t \in ScanTimes : t \in 0..LongestScan
  BY <1>1 DEF LongestScan
<1>4. LongestSend \in Nat /\ \A t \in SendTimes : t \in 0..LongestSend
  BY <1>1 DEF LongestSend
<1>5. \A t \in MessageTimes : t \in 0..LongestSend
  BY <1>4 DEF MessageTimes
<1>. QED BY <1>2, <1>3, <1>4, <1>5

\* What messages, the start and a cycle take in all.
LEMMA TimesAre ==
  /\ PollInterval \in Nat /\ SymbolCount \in Nat
  /\ Sends(0) = 0
  /\ \A k \in 0..SymbolCount : Sends(k) \in Nat /\ Sends(k) <= Sends(SymbolCount)
  /\ \A k \in Nat : k > 0 => Sends(k) = Sends(k - 1) + LongestSend
  /\ StartTime = LongestStart + LongestSend
  /\ CycleTime = LongestScan + (Sends(SymbolCount) + LongestSend + LongestSend) + PollInterval
<1>1. PollInterval \in Nat /\ SymbolCount \in Nat /\ LongestSend \in Nat
  BY ServiceAssumption, LongestIs
<1>2. \A s \in Nat : 0 * s = 0
  OBVIOUS
<1>3. \A k, n, s \in Nat : k <= n => k * s \in Nat /\ k * s <= n * s
  OBVIOUS
<1>4. \A k, s \in Nat : k > 0 => k * s = (k - 1) * s + s
  OBVIOUS
<1>5. \A k, s \in Nat : (k + 2) * s = k * s + s + s
  OBVIOUS
<1>6. CycleTime = LongestScan + (Sends(SymbolCount) + LongestSend + LongestSend) + PollInterval
  BY <1>1, <1>5 DEF CycleTime, LongestScan, LongestSend, Sends
<1>7. StartTime = LongestStart + LongestSend
  BY DEF StartTime, LongestStart, LongestSend
<1>8. \A k \in 0..SymbolCount : Sends(k) \in Nat /\ Sends(k) <= Sends(SymbolCount)
  BY <1>1, <1>3 DEF Sends
<1>9. \A k \in Nat : k > 0 => Sends(k) = Sends(k - 1) + LongestSend
  BY <1>1, <1>4 DEF Sends
<1>10. Sends(0) = 0
  BY <1>1, <1>2 DEF Sends
<1>. QED BY <1>1, <1>6, <1>7, <1>8, <1>9, <1>10

\* Calls take between no time and the longest.
LEMMA CallTimes ==
  ASSUME NEW call \in Calls, NEW k \in 0..SymbolCount
  PROVE  /\ LongestCall(call) \in Nat /\ After(call, k) \in Nat
         /\ call \notin {"import", "gone"} => LongestCall(call) + After(call, k) <= StopTime(call)
<1>1. /\ LongestStart \in Nat /\ LongestScan \in Nat /\ LongestSend \in Nat
      /\ PollInterval \in Nat /\ Sends(k) \in Nat /\ Sends(SymbolCount) \in Nat
      /\ Sends(k) <= Sends(SymbolCount)
  BY LongestIs, TimesAre
<1>. QED BY <1>1, TimesAre DEF LongestCall, After, StopTime, Calls

\* A step of the process goes on to a call that is no longer than it may be;
\* and once it is to stop, what it may still take does not grow.
LEMMA ProcessTakesNoLonger ==
  ASSUME StopInvariant, ProcessStep
  PROVE  /\ pc' \in Calls \ {"import", "gone"} /\ left' \in 0..LongestCall(pc')
         /\ symbols_left' \in 0..SymbolCount
         /\ stopping' = stopping
         /\ stopping /\ pc # "import" =>
              left' + After(pc', symbols_left') <= After(pc, symbols_left)
<1>1. /\ pc \in Calls /\ left = 0 /\ symbols_left \in 0..SymbolCount
  BY DEF StopInvariant, ProcessStep
<1>2. /\ LongestStart \in Nat /\ LongestScan \in Nat /\ LongestSend \in Nat
      /\ PollInterval \in Nat /\ SymbolCount \in Nat
      /\ Sends(symbols_left) \in Nat /\ Sends(SymbolCount) \in Nat /\ Sends(0) = 0
  BY <1>1, LongestIs, TimesAre
<1>3. CASE Prepare
  BY <1>1, <1>2, <1>3, LongestIs DEF Prepare, Go, Calls, LongestCall
<1>4. CASE AnnounceStart
  BY <1>1, <1>2, <1>4, LongestIs DEF AnnounceStart, Go, Calls, LongestCall, After
<1>5. CASE EndMessage
  BY <1>1, <1>2, <1>5 DEF EndMessage, Go, Calls, LongestCall, After
<1>6. CASE Top
  <2>1. CASE ~ KeepRunning /\ Go("close", 0)
    BY <1>1, <1>2, <1>6, <2>1 DEF Top, Go, Calls, LongestCall, After
  <2>2. CASE KeepRunning /\ \E t \in ScanTimes : Go("scan", t)
    BY <1>1, <1>2, <1>6, <2>2, LongestIs DEF Top, KeepRunning, Go, Calls, LongestCall
  <2>. QED BY <1>6, <2>1, <2>2 DEF Top
<1>7. CASE Trade
  <2>1. /\ pc = "scan" /\ pc' = "rebalance" /\ left' \in 0..LongestSend
        /\ symbols_left' = SymbolCount /\ stopping' = stopping
    BY <1>2, <1>7, LongestIs DEF Trade, Go
  <2>. QED BY <1>1, <1>2, <2>1 DEF Calls, LongestCall, After
<1>8. CASE RebalanceSymbol
  <2>1. /\ pc = "rebalance" /\ pc' = "rebalance" /\ left' \in 0..LongestSend
        /\ symbols_left > 0 /\ symbols_left' = symbols_left - 1 /\ stopping' = stopping
    BY <1>2, <1>8, LongestIs DEF RebalanceSymbol, Go
  <2>2. /\ symbols_left' \in 0..SymbolCount
        /\ Sends(symbols_left) = Sends(symbols_left') + LongestSend
        /\ Sends(symbols_left') \in Nat
    BY <1>1, <1>2, <2>1, TimesAre
  <2>. QED BY <1>1, <1>2, <2>1, <2>2 DEF Calls, LongestCall, After
<1>9. CASE Alert
  <2>1. /\ pc = "rebalance" /\ symbols_left = 0 /\ pc' = "alert" /\ left' \in 0..LongestSend
        /\ symbols_left' = symbols_left /\ stopping' = stopping
    BY <1>2, <1>9, LongestIs DEF Alert, Go
  <2>. QED BY <1>1, <1>2, <2>1 DEF Calls, LongestCall, After
<1>10. CASE Pause
  BY <1>1, <1>2, <1>10 DEF Pause, Go, Calls, LongestCall, After
<1>11. CASE EndPause
  BY <1>1, <1>2, <1>11 DEF EndPause, Go, Calls, LongestCall, After
<1>12. CASE Exception
  BY <1>1, <1>2, <1>12 DEF Exception, Go, Calls, LongestCall, After
<1>13. CASE Close
  BY <1>1, <1>2, <1>13, LongestIs DEF Close, Go, Calls, LongestCall, After
<1>14. CASE AnnounceStop
  BY <1>1, <1>2, <1>14 DEF AnnounceStop, Go, Calls, LongestCall, After
<1>. QED
  BY <1>3, <1>4, <1>5, <1>6, <1>7, <1>8, <1>9, <1>10, <1>11, <1>12, <1>13, <1>14 DEF ProcessStep

\* Every step keeps the invariant of the stop.
LEMMA StopStep == StopInvariant /\ [Next]_vars => StopInvariant'
<1>. SUFFICES ASSUME StopInvariant, [Next]_vars PROVE StopInvariant'
  OBVIOUS
<1>. DEFINE spare == StopTime(asked_at)
            rest == After(pc, symbols_left)
<1>1. /\ pc \in Calls /\ left \in Nat /\ left <= LongestCall(pc)
      /\ symbols_left \in 0..SymbolCount
      /\ since_stop \in Nat /\ since_stop <= spare
      /\ unit \in {"active", "auto-restart", "failed"} => since_stop = 0
      /\ unit = "active" => pc # "gone"
      /\ unit = "stopping" =>
           stopping /\ pc \notin {"import", "gone"} /\ since_stop + left + rest <= spare
      /\ rest \in Nat /\ LongestCall(pc) \in Nat
  BY CallTimes DEF StopInvariant
<1>2. \A c : StopTime(c) \in Nat
  <2>1. /\ LongestStart \in Nat /\ LongestScan \in Nat /\ LongestSend \in Nat
        /\ PollInterval \in Nat /\ Sends(SymbolCount) \in Nat
    BY LongestIs, TimesAre
  <2>. QED BY <2>1, TimesAre DEF StopTime
<1>3. CASE ProcessStep
  <2>1. /\ left = 0 /\ UNCHANGED <<unit, asked_at, since_stop>>
    BY <1>3 DEF ProcessStep, Quiet
  <2>. DEFINE after == After(pc', symbols_left')
  <2>2. /\ pc' \in Calls /\ pc' \notin {"import", "gone"} /\ left' \in 0..LongestCall(pc')
        /\ symbols_left' \in 0..SymbolCount
        /\ stopping' = stopping
        /\ stopping /\ pc # "import" => left' + after <= rest
    BY <1>3, ProcessTakesNoLonger
  <2>3. after \in Nat /\ LongestCall(pc') \in Nat
    BY <2>2, CallTimes
  <2>5. spare \in Nat
    BY <1>2
  <2>. HIDE DEF after, rest, spare
  <2>4. ASSUME unit = "stopping" PROVE since_stop + left' + after <= spare
    <3>1. stopping /\ pc # "import" /\ since_stop + left + rest <= spare
      BY <1>1, <2>4
    <3>2. left' + after <= rest
      BY <2>2, <3>1
    <3>3. left = 0 /\ left' \in Nat /\ since_stop \in Nat /\ rest \in Nat
      BY <1>1, <2>1, <2>2, <2>3
    <3>4. since_stop + rest <= spare
      BY <3>1, <3>3
    <3>5. \A a, b, c, d, e \in Nat : b + c <= d /\ a + d <= e => a + b + c <= e
      OBVIOUS
    <3>6. after \in Nat
      BY <2>3
    <3>. QED BY <2>5, <3>2, <3>3, <3>4, <3>5, <3>6
  <2>. QED BY <1>1, <2>1, <2>2, <2>4 DEF StopInvariant, after, spare
<1>4. ASSUME NEW clean, End(clean) PROVE StopInvariant'
  <2>1. /\ pc' = "gone" /\ left' = 0 /\ UNCHANGED <<symbols_left, asked_at, since_stop>>
        /\ \/ unit = "active" /\ unit' = "auto-restart"
           \/ unit = "stopping" /\ unit' = "inactive"
    BY <1>4 DEF End, Go, AfterExit
  <2>2. pc' \in Calls /\ LongestCall(pc') \in Nat
    BY <2>1, CallTimes, <1>1 DEF Calls
  <2>. QED BY <1>1, <2>1, <2>2 DEF StopInvariant
<1>5. CASE ExecStart
  <2>1. unit = "auto-restart" /\ UNCHANGED <<asked_at, since_stop>>
    BY <1>5 DEF ExecStart
  <2>2. CASE unit' = "failed" /\ UNCHANGED process
    BY <1>1, <2>1, <2>2 DEF StopInvariant, process
  <2>3. CASE unit' = "active" /\ pc' = "import" /\ left' = 0 /\ symbols_left' = 0
    <3>1. pc' \in Calls /\ LongestCall(pc') \in Nat
      BY <1>1, <2>3, CallTimes DEF Calls
    <3>2. symbols_left' \in 0..SymbolCount
      BY <2>3, TimesAre
    <3>. QED BY <1>1, <2>1, <2>3, <3>1, <3>2 DEF StopInvariant
  <2>. QED BY <1>5, <2>2, <2>3 DEF ExecStart, Go
<1>6. CASE Tick
  <2>1. /\ left > 0 \/ (Gone /\ wait > 0)
        /\ left' = IF left > 0 THEN left - 1 ELSE 0
        /\ since_stop' = IF unit = "stopping" THEN since_stop + 1 ELSE since_stop
        /\ UNCHANGED <<unit, pc, symbols_left, stopping, asked_at>>
    BY <1>6 DEF Tick, TickDown
  <2>2. unit = "stopping" => left' = left - 1
    BY <1>1, <2>1 DEF Gone
  <2>3. left' \in 0..LongestCall(pc)
    BY <1>1, <2>1
  <2>. HIDE DEF rest, spare
  <2>4. unit = "stopping" => since_stop' + left' + rest <= spare /\ since_stop' <= spare
    BY <1>1, <1>2, <2>1, <2>2 DEF spare
  <2>. QED BY <1>1, <2>1, <2>3, <2>4 DEF StopInvariant, rest, spare
<1>7. CASE SystemctlStop
  <2>1. /\ unit \in {"active", "auto-restart"} /\ asked_at' = pc
        /\ UNCHANGED <<symbols_left, since_stop>> /\ since_stop = 0
    BY <1>1, <1>7 DEF SystemctlStop
  <2>2. CASE unit = "active" /\ pc # "import"
    <3>1. unit' = "stopping" /\ stopping' /\ UNCHANGED <<pc, left>>
      BY <1>7, <2>2 DEF SystemctlStop
    <3>2. LongestCall(pc) + rest <= StopTime(pc)
      BY <1>1, <2>2, CallTimes
    <3>3. StopTime(pc) \in Nat
      BY <1>2
    <3>. HIDE DEF rest
    <3>4. 0 + left + rest <= StopTime(pc) /\ 0 <= StopTime(pc)
      BY <1>1, <3>2, <3>3
    <3>. QED BY <1>1, <2>1, <2>2, <3>1, <3>4 DEF StopInvariant, rest
  <2>3. CASE ~ (unit = "active" /\ pc # "import")
    <3>1. unit' = "inactive" /\ pc' = "gone" /\ left' = 0
      BY <1>7, <2>3 DEF SystemctlStop, Go
    <3>2. pc' \in Calls /\ LongestCall(pc') \in Nat
      BY <1>1, <3>1, CallTimes DEF Calls
    <3>. QED BY <1>1, <1>2, <2>1, <3>1, <3>2 DEF StopInvariant
  <2>. QED BY <2>2, <2>3
<1>8. CASE SignalFromElsewhere
  <2>1. unit = "active" /\ UNCHANGED <<unit, pc, left, symbols_left, asked_at, since_stop>>
    BY <1>8 DEF SignalFromElsewhere, Quiet
  <2>. QED BY <1>1, <2>1 DEF StopInvariant
<1>9. CASE Crash \/ Exit \/ Kill
  BY <1>4, <1>9 DEF Crash, Exit, Kill
<1>10. CASE UNCHANGED vars
  BY <1>10 DEF vars, process, StopInvariant
<1>. QED BY <1>3, <1>5, <1>6, <1>7, <1>8, <1>9, <1>10 DEF Next, UnitStep

\* main.py:86, arbbot.service:17: whatever call systemctl stop meets, and
\* however long calls take, the process has ended within a cycle, or what is
\* left of the start, and the message that says so.
THEOREM StopsInTime == Spec => []StopTimeBounded
<1>1. Init => StopInvariant
  <2>. SUFFICES ASSUME Init PROVE StopInvariant
    OBVIOUS
  <2>1. /\ unit = "active" /\ pc = "import" /\ left = 0 /\ symbols_left = 0 /\ since_stop = 0
    BY DEF Init
  <2>2. /\ symbols_left \in 0..SymbolCount /\ pc \in Calls
    BY <2>1, TimesAre DEF Calls
  <2>3. LongestCall(pc) \in Nat
    BY <2>2, CallTimes
  <2>4. StopTime(asked_at) \in Nat
    <3>1. /\ LongestStart \in Nat /\ LongestScan \in Nat /\ LongestSend \in Nat
          /\ PollInterval \in Nat /\ Sends(SymbolCount) \in Nat
      BY LongestIs, TimesAre
    <3>. QED BY <3>1, TimesAre DEF StopTime
  <2>. QED BY <2>1, <2>2, <2>3, <2>4 DEF StopInvariant
<1>2. StopInvariant => StopTimeBounded
  BY DEF StopInvariant, StopTimeBounded, StopTime, LongestSend
<1>. QED BY <1>1, <1>2, StopStep, PTL DEF Spec
=============================================================================

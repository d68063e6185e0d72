----------------------------- MODULE BotProofs -----------------------------
(***************************************************************************)
(* The loop only ever calls the executor, so that the executor's theorems  *)
(* hold under it; and what the loop itself promises about stopping and     *)
(* about the risk alert, for every market and configuration.               *)
(***************************************************************************)
EXTENDS Bot, ExecutorProofs, SequenceTheorems

----------------------------------------------------------------------------
(* What the loop holds in a cycle comes from the scanner *)

CycleKnown ==
  /\ opportunities \in Seq(Opportunities)
  /\ attempts \in Seq(Opportunities)
  /\ symbols_left \subseteq Symbols

\* A scan yields a sequence of opportunities.
LEMMA ScanIsSequence ==
  ASSUME NEW q \in Scans
  PROVE  q \in Seq(Opportunities)
<1>1. PICK F \in SUBSET Opportunities :
        IsFiniteSet(F) /\ q \in [1..Cardinality(F) -> F]
  BY DEF Scans
<1>2. Cardinality(F) \in Nat
  BY <1>1, FS_CardinalityType
<1>. QED BY <1>1, <1>2

\* The slice of a cycle's attempts is a sequence of opportunities.
LEMMA SliceIsSequence ==
  ASSUME NEW q \in Seq(Opportunities)
  PROVE  SubSeq(q, 1, Min({Len(q), Max({1, MaxPerCycle})})) \in Seq(Opportunities)
<1>. DEFINE k == Len(q)
            m == Max({1, MaxPerCycle})
            n == Min({k, m})
<1>1. k \in Int /\ k >= 0 /\ \A i \in 1..k : q[i] \in Opportunities
  OBVIOUS
<1>2. m \in Int /\ m >= 1
  BY BotAssumption, MaxPair
<1>. HIDE DEF k, m
<1>3. n \in Int /\ n <= k
  BY <1>1, <1>2, MinPair
<1>. HIDE DEF n
<1>4. \A i \in 1..n : q[i] \in Opportunities
  BY <1>1, <1>3
<1>5. SubSeq(q, 1, n) \in Seq(Opportunities)
  BY <1>3, <1>4, SubSeqProperties
<1>. QED BY <1>5 DEF n, m, k

\* The sequences of a cycle stay sequences of opportunities.
LEMMA CycleStep == CycleKnown /\ [BotNext]_botvars => CycleKnown'
<1>. SUFFICES ASSUME CycleKnown, [BotNext]_botvars PROVE CycleKnown'
  OBVIOUS
<1>1. CASE Scan
  BY <1>1, ScanIsSequence DEF Scan, CycleKnown
<1>2. CASE Publish
  <2>1. opportunities' = opportunities
    BY <1>2 DEF Publish
  <2>2. attempts' \in Seq(Opportunities) /\ symbols_left' \subseteq Symbols
    BY <1>2, SliceIsSequence DEF Publish, CycleKnown
  <2>. QED BY <2>1, <2>2 DEF CycleKnown
<1>3. CASE /\ attempts # <<>>
           /\ attempts' \in {Tail(attempts), <<>>}
           /\ UNCHANGED <<opportunities, symbols_left>>
  <2>1. Tail(attempts) \in Seq(Opportunities)
    BY <1>3, HeadTailProperties DEF CycleKnown
  <2>2. <<>> \in Seq(Opportunities)
    OBVIOUS
  <2>3. attempts' \in Seq(Opportunities)
    BY <1>3, <2>1, <2>2, Zenon
  <2>. QED BY <1>3, <2>3 DEF CycleKnown
<1>4. CASE /\ UNCHANGED <<opportunities, attempts>>
           /\ symbols_left' \subseteq Symbols
  BY <1>4 DEF CycleKnown
<1>5. CASE Attempt
  BY <1>3, <1>5 DEF Attempt, AfterTrade
<1>6. CASE SkipStale
  BY <1>3, <1>6 DEF SkipStale
<1>7. CASE UNCHANGED botvars
  BY <1>4, <1>7 DEF botvars, loop, CycleKnown
<1>8. CASE EndAttempts \/ RebalanceSymbol
  BY <1>4, <1>8 DEF EndAttempts, RebalanceSymbol, CycleKnown
<1>9. CASE Top \/ EndRebalance \/ Alert \/ Status \/ Sleep \/ Finally
  BY <1>4, <1>9 DEF Top, EndRebalance, Alert, Status, Sleep, Finally, CycleKnown
<1>10. CASE RequestStop \/ Tick
  BY <1>4, <1>10 DEF RequestStop, Tick, loop, CycleKnown
<1>. QED
  BY <1>1, <1>2, <1>5, <1>6, <1>7, <1>8, <1>9, <1>10 DEF BotNext, LoopStep

\* The loop holds opportunities of the scanner only.
LEMMA CycleIsKnown == BotSpec => []CycleKnown
<1>1. BotInit => CycleKnown
  BY DEF BotInit, CycleKnown
<1>. QED BY <1>1, CycleStep, PTL DEF BotSpec

----------------------------------------------------------------------------
(* The loop and the executor *)

\* The steps of the loop that leave the executor alone.
LEMMA ExecutorAlone ==
  ASSUME [BotNext]_botvars
  PROVE  \/ Attempt
         \/ RebalanceSymbol
         \/ Tick
         \/ UNCHANGED vars
BY DEF BotNext, LoopStep, Top, Scan, Publish, SkipStale, EndAttempts, EndRebalance,
   Alert, Status, Sleep, Finally, RequestStop, botvars

\* Every step of the loop is a call of the executor, a tick or nothing to it.
LEMMA LoopCallsExecutor == CycleKnown /\ [BotNext]_botvars => [Next]_vars
<1>. SUFFICES ASSUME CycleKnown, [BotNext]_botvars PROVE [Next]_vars
  OBVIOUS
<1>1. CASE Attempt
  <2>1. Head(attempts) \in Opportunities
    BY <1>1, HeadTailProperties DEF CycleKnown, Attempt
  <2>. QED BY <1>1, <2>1 DEF Attempt, Next
<1>2. CASE RebalanceSymbol
  BY <1>2 DEF RebalanceSymbol, Next, CycleKnown
<1>3. CASE Tick
  BY <1>3 DEF Tick, Next
<1>. QED BY <1>1, <1>2, <1>3, ExecutorAlone

\* main.py:134 and 171: the loop touches the executor only by calling it, so
\* that every property of Executor's behaviours is one of the bot's.
THEOREM LoopRunsExecutor == BotSpec => RunsExecutor
<1>1. BotInit => Init
  BY DEF BotInit
<1>. QED BY <1>1, CycleIsKnown, LoopCallsExecutor, PTL DEF BotSpec, RunsExecutor, Spec

\* The executor's invariant, and with it its safety properties, under the loop.
THEOREM ExecutorSafeInBot == BotSpec => []ExecutorInvariant
BY LoopRunsExecutor, InvariantHolds, PTL DEF RunsExecutor

----------------------------------------------------------------------------
(* Stopping *)

\* What the call of an attempt did to the count of trades is in its result.
LEMMA AttemptCounts ==
  ASSUME TypeOK, NEW o \in Opportunities, Execute(o)
  PROVE  /\ result'.success \in BOOLEAN
         /\ risk'.trades_executed
              = risk.trades_executed + (IF result'.success THEN 1 ELSE 0)
<1>1. risk \in RiskState /\ risk.trades_executed \in Nat
  BY DEF TypeOK, RiskState
<1>2. /\ QuoteReceived(o) - QuoteSpent(o) \in Int
      /\ MakerPnl(o) \in Int
  BY OpportunityFields, PenaltyType DEF MakerPnl
<1>3. CASE Reject(o)
  <2>1. ~ result'.success
    BY <1>3 DEF Reject, Fail
  <2>. QED BY <1>1, <1>3, <2>1, FailureCounts DEF Reject, Fail
<1>4. CASE TakerTaker(o)
  <2>1. risk'.trades_executed = risk.trades_executed + 1
    BY <1>1, <1>2, <1>4, TradeCounts DEF TakerTaker
  <2>. QED BY <1>4, <2>1 DEF TakerTaker
<1>5. CASE MakerTimeout(o)
  <2>1. risk'.trades_executed = risk.trades_executed
    BY <1>5, RequotedKeepsCounts, FailureCounts DEF MakerTimeout
  <2>. QED BY <1>1, <1>5, <2>1 DEF MakerTimeout, Fail
<1>6. CASE MakerEroded(o)
  <2>1. risk'.trades_executed = risk.trades_executed
    BY <1>6, RequotedKeepsCounts, FailureCounts DEF MakerEroded
  <2>. QED BY <1>1, <1>6, <2>1 DEF MakerEroded, Fail
<1>7. CASE MakerFilled(o)
  <2>1. risk'.trades_executed = risk.trades_executed + 1
    BY <1>2, <1>7, RequotedKeepsCounts, TradeCounts DEF MakerFilled
  <2>. QED BY <1>7, <2>1 DEF MakerFilled
<1>. QED BY <1>3, <1>4, <1>5, <1>6, <1>7 DEF Execute

\* After a stop the cycle is where it can still trade, and has not yet, or it
\* has traded once and has no attempt left.
StopTradesOnce ==
  STOP =>
    \/ risk.trades_executed = trades_at_stop
    \/ /\ risk.trades_executed = trades_at_stop + 1
       /\ pc \notin {"scan", "publish"}
       /\ pc = "attempt" => attempts = <<>>

\* Every step keeps it: only the attempt of an opportunity trades.
LEMMA StopStep ==
  TypeOK /\ CycleKnown /\ StopTradesOnce /\ [BotNext]_botvars => StopTradesOnce'
<1>. SUFFICES ASSUME TypeOK, CycleKnown, StopTradesOnce, [BotNext]_botvars
              PROVE  StopTradesOnce'
  OBVIOUS
<1>1. CASE Attempt
  <2>1. Head(attempts) \in Opportunities /\ attempts # <<>> /\ pc = "attempt"
    BY <1>1, HeadTailProperties DEF CycleKnown, Attempt
  <2>2. /\ result'.success \in BOOLEAN
        /\ risk'.trades_executed
             = risk.trades_executed + (IF result'.success THEN 1 ELSE 0)
    BY <1>1, <2>1, AttemptCounts DEF Attempt
  <2>3. risk.trades_executed \in Nat
    BY DEF TypeOK, RiskState
  <2>4. UNCHANGED <<STOP, pc, trades_at_stop>> /\ (result'.success => attempts' = <<>>)
    BY <1>1 DEF Attempt, AfterTrade
  <2>. QED BY <2>1, <2>2, <2>3, <2>4 DEF StopTradesOnce
<1>2. CASE RequestStop
  BY <1>2 DEF RequestStop, StopTradesOnce, vars
<1>3. CASE Tick
  BY <1>3 DEF Tick, Elapse, StopTradesOnce
<1>4. CASE RebalanceSymbol
  BY <1>4 DEF RebalanceSymbol, Rebalance, StopTradesOnce, vars
<1>5. CASE Top
  BY <1>5 DEF Top, KeepRunning, StopTradesOnce, vars
<1>6. CASE Scan \/ Publish \/ SkipStale
  BY <1>6 DEF Scan, Publish, SkipStale, StopTradesOnce, vars
<1>7. CASE EndAttempts \/ EndRebalance \/ Alert \/ Status \/ Sleep \/ Finally
  BY <1>7 DEF EndAttempts, EndRebalance, Alert, Status, Sleep, Finally,
     StopTradesOnce, vars
<1>8. CASE UNCHANGED botvars
  BY <1>8 DEF botvars, loop, vars, StopTradesOnce
<1>. QED
  BY <1>1, <1>2, <1>3, <1>4, <1>5, <1>6, <1>7, <1>8 DEF BotNext, LoopStep

\* Which is at most one trade.
LEMMA StopIsOneTrade == TypeOK /\ StopTradesOnce => AtMostOneTradeAfterStop
<1>. SUFFICES ASSUME TypeOK, StopTradesOnce, STOP
              PROVE  risk.trades_executed <= trades_at_stop + 1
  BY DEF AtMostOneTradeAfterStop
<1>1. risk.trades_executed \in Nat
  BY DEF TypeOK, RiskState
<1>. QED BY <1>1 DEF StopTradesOnce

\* main.py:86 and 161: a stop signal in the middle of a cycle is followed by
\* at most one more trade.
THEOREM OneTradeAfterStop == BotSpec => []AtMostOneTradeAfterStop
<1>1. BotInit => StopTradesOnce
  BY DEF BotInit, StopTradesOnce
<1>2. ExecutorInvariant => TypeOK
  BY DEF ExecutorInvariant
<1>. QED
  BY <1>1, <1>2, StopIsOneTrade, StopStep, CycleIsKnown, ExecutorSafeInBot, PTL DEF BotSpec

----------------------------------------------------------------------------
(* The alert *)

\* Only an attempt trips the breaker, and the alert comes before the next one.
LEMMA AlertStep ==
  BlockedCycleIsAnnounced /\ [BotNext]_botvars => BlockedCycleIsAnnounced'
<1>. SUFFICES ASSUME BlockedCycleIsAnnounced, [BotNext]_botvars
              PROVE  BlockedCycleIsAnnounced'
  OBVIOUS
<1>1. CASE Attempt \/ SkipStale \/ EndAttempts
  BY <1>1 DEF Attempt, SkipStale, EndAttempts, BlockedCycleIsAnnounced, vars
<1>2. CASE RebalanceSymbol \/ EndRebalance
  BY <1>2 DEF RebalanceSymbol, EndRebalance, BlockedCycleIsAnnounced
<1>3. CASE Alert
  BY <1>3 DEF Alert, AlertDue, BlockedCycleIsAnnounced, vars
<1>4. CASE Top \/ Scan \/ Publish \/ Status \/ Sleep \/ Finally
  BY <1>4 DEF Top, Scan, Publish, Status, Sleep, Finally, BlockedCycleIsAnnounced, vars
<1>5. CASE Tick
  BY <1>5 DEF Tick, Elapse, BlockedCycleIsAnnounced
<1>6. CASE RequestStop
  BY <1>6 DEF RequestStop, BlockedCycleIsAnnounced, loop, vars
<1>7. CASE UNCHANGED botvars
  BY <1>7 DEF botvars, loop, vars, BlockedCycleIsAnnounced
<1>. QED
  BY <1>1, <1>2, <1>3, <1>4, <1>5, <1>6, <1>7 DEF BotNext, LoopStep

\* main.py:177-179: no cycle begins after the breaker has tripped without the
\* alert having been handed to the notifier.
THEOREM BlockIsAnnounced == BotSpec => []BlockedCycleIsAnnounced
<1>1. BotInit => BlockedCycleIsAnnounced
  BY DEF BotInit, Init, BlockedCycleIsAnnounced
<1>. QED BY <1>1, AlertStep, PTL DEF BotSpec

----------------------------------------------------------------------------
(* Types of the loop *)

\* The slice of a cycle's attempts holds opportunities of the scan.
LEMMA SliceRange ==
  ASSUME NEW q \in Seq(Opportunities)
  PROVE  Range(SubSeq(q, 1, Min({Len(q), Max({1, MaxPerCycle})}))) \subseteq Range(q)
<1>. DEFINE k == Len(q)
            m == Max({1, MaxPerCycle})
            n == Min({k, m})
<1>1. k \in Int /\ k >= 0 /\ q \in [1..k -> Opportunities]
  OBVIOUS
<1>2. m \in Int /\ m >= 1
  BY BotAssumption, MaxPair
<1>. HIDE DEF k, m
<1>3. n \in Int /\ n <= k
  BY <1>1, <1>2, MinPair
<1>. HIDE DEF n
<1>4. SubSeq(q, 1, n) = [i \in 1..n |-> q[i]]
  BY <1>1, <1>3
<1>5. 1..n \subseteq 1..k
  BY <1>1, <1>3
<1>6. Range(SubSeq(q, 1, n)) \subseteq Range(q)
  BY <1>1, <1>4, <1>5, Zenon DEF Range
<1>. QED BY <1>6 DEF n, m, k

\* Dropping the first attempt leaves attempts of the scan.
LEMMA TailRange ==
  ASSUME NEW q \in Seq(Opportunities), q # <<>>
  PROVE  Range(Tail(q)) \subseteq Range(q)
<1>1. /\ Tail(q) \in Seq(Opportunities)
      /\ Len(Tail(q)) = Len(q) - 1
      /\ \A i \in 1..Len(Tail(q)) : Tail(q)[i] = q[i + 1]
  BY HeadTailProperties
<1>2. Len(q) \in Nat /\ DOMAIN q = 1..Len(q) /\ DOMAIN Tail(q) = 1..Len(Tail(q))
  BY <1>1
<1>3. \A i \in DOMAIN Tail(q) : i + 1 \in DOMAIN q /\ Tail(q)[i] = q[i + 1]
  BY <1>1, <1>2
<1>. QED BY <1>3, Zenon DEF Range

\* The conjuncts of BotTypeOK about the loop, and the attempts outside the
\* cycle's attempts: a new scan must not leave attempts of the one before.
LoopTypeOK ==
  /\ pc \in {"top", "scan", "publish", "attempt", "rebalance", "alert", "status",
             "sleep", "finally", "stopped"}
  /\ {STOP, executed, blocked_alert_sent, alert_received} \subseteq BOOLEAN
  /\ Range(opportunities) \subseteq Opportunities
  /\ Range(attempts) \subseteq Range(opportunities)
  /\ symbols_left \subseteq Symbols
  /\ status_wait \in Nat
  /\ pc # "attempt" => attempts = <<>>

\* Nothing is in the range of the empty sequence.
LEMMA EmptyRange == Range(<<>>) = {}
BY DEF Range

\* Every step keeps the types of the loop.
LEMMA LoopTypeStep ==
  TypeOK /\ CycleKnown /\ LoopTypeOK /\ [BotNext]_botvars => LoopTypeOK'
<1>. SUFFICES ASSUME TypeOK, CycleKnown, LoopTypeOK, [BotNext]_botvars
              PROVE  LoopTypeOK'
  OBVIOUS
<1>0. StatusInterval \in Nat /\ SendOutcomes \subseteq BOOLEAN
  BY BotAssumption
<1>1. CASE Scan
  <2>1. opportunities' \in Seq(Opportunities)
    BY <1>1, ScanIsSequence DEF Scan
  <2>2. Range(opportunities') \subseteq Opportunities
    BY <2>1 DEF Range
  <2>3. Range(attempts') = {}
    BY <1>1, EmptyRange DEF Scan, LoopTypeOK
  <2>. QED BY <1>1, <2>2, <2>3 DEF Scan, LoopTypeOK
<1>2. CASE Publish
  <2>1. Range(attempts') \subseteq Range(opportunities')
    BY <1>2, SliceRange DEF Publish, CycleKnown, LoopTypeOK
  <2>. QED BY <1>2, <2>1 DEF Publish, LoopTypeOK
<1>3. CASE Attempt
  <2>1. Head(attempts) \in Opportunities
    BY <1>3, HeadTailProperties DEF CycleKnown, Attempt
  <2>2. result'.success \in BOOLEAN
    BY <1>3, <2>1, AttemptCounts DEF Attempt
  <2>3. Range(attempts') \subseteq Range(attempts)
    BY <1>3, TailRange, EmptyRange DEF Attempt, AfterTrade, CycleKnown
  <2>4. Range(attempts') \subseteq Range(opportunities')
    BY <1>3, <2>3 DEF Attempt, LoopTypeOK
  <2>. QED BY <1>3, <2>2, <2>4 DEF Attempt, LoopTypeOK
<1>4. CASE SkipStale
  <2>1. Range(attempts') \subseteq Range(opportunities')
    BY <1>4, TailRange DEF SkipStale, CycleKnown, LoopTypeOK
  <2>. QED BY <1>4, <2>1 DEF SkipStale, LoopTypeOK
<1>5. CASE EndAttempts \/ RebalanceSymbol
  BY <1>5 DEF EndAttempts, RebalanceSymbol, LoopTypeOK
<1>6. CASE Alert
  BY <1>0, <1>6 DEF Alert, LoopTypeOK
<1>7. CASE Status
  BY <1>0, <1>7 DEF Status, LoopTypeOK
<1>8. CASE Top \/ EndRebalance \/ Sleep \/ Finally
  BY <1>8 DEF Top, EndRebalance, Sleep, Finally, LoopTypeOK
<1>9. CASE RequestStop
  BY <1>9 DEF RequestStop, loop, LoopTypeOK
<1>10. CASE Tick
  <2>1. status_wait' \in Nat
    BY <1>10 DEF Tick, TickDown, LoopTypeOK
  <2>. QED BY <1>10, <2>1 DEF Tick, LoopTypeOK
<1>11. CASE UNCHANGED botvars
  BY <1>11 DEF botvars, loop, LoopTypeOK
<1>. QED
  BY <1>1, <1>2, <1>3, <1>4, <1>5, <1>6, <1>7, <1>8, <1>9, <1>10, <1>11
  DEF BotNext, LoopStep

\* Types of the loop: what it attempts is always of its last scan
\* (main.py:132-133), and the executor's types hold under it.
THEOREM BotTypeCorrect == BotSpec => []BotTypeOK
<1>1. BotInit => LoopTypeOK
  <2>1. {FALSE} \subseteq BOOLEAN /\ {} \subseteq Symbols /\ 0 \in Nat
    OBVIOUS
  <2>2. Range(<<>>) \subseteq Opportunities /\ Range(<<>>) \subseteq Range(<<>>)
    BY EmptyRange
  <2>. QED BY <2>1, <2>2, Zenon DEF BotInit, LoopTypeOK
<1>2. ExecutorInvariant => TypeOK
  BY DEF ExecutorInvariant
<1>3. TypeOK /\ LoopTypeOK => BotTypeOK
  BY DEF LoopTypeOK, BotTypeOK
<1>. QED
  BY <1>1, <1>2, <1>3, LoopTypeStep, CycleIsKnown, ExecutorSafeInBot, PTL DEF BotSpec

----------------------------------------------------------------------------
(* The dashboard *)

\* runtime has the fields of RuntimeState.data and no other.
RuntimeShape ==
  runtime = [last_event |-> runtime.last_event,
             opportunity_count |-> runtime.opportunity_count,
             best_opportunity |-> runtime.best_opportunity,
             last_order_payload |-> runtime.last_order_payload,
             metrics |-> runtime.metrics,
             balances |-> runtime.balances]

\* The fields about the scan, which only Scan and Publish write, and those
\* about the executor, which only a successful Attempt and Status write.
ScanFields == <<runtime.opportunity_count, runtime.best_opportunity>>
ReportFields == <<runtime.metrics, runtime.balances>>

\* What a step of the loop writes to runtime.
LEMMA RuntimeWrites ==
  ASSUME RuntimeShape, [BotNext]_botvars
  PROVE  /\ RuntimeShape'
         /\ Scan \/ Publish \/ UNCHANGED ScanFields
         /\ \/ Attempt /\ result'.success
                 /\ runtime'.last_order_payload = last_order_payload'
            \/ UNCHANGED runtime.last_order_payload
         /\ (Status /\ runtime' = StatusReport) \/ UNCHANGED ReportFields
<1>1. CASE UNCHANGED runtime
  BY <1>1 DEF RuntimeShape, ScanFields, ReportFields
<1>2. CASE Scan
  BY <1>2 DEF Scan, RuntimeShape, ReportFields
<1>3. CASE Publish
  BY <1>3 DEF Publish, NothingFound, RuntimeShape, ReportFields
<1>4. CASE Attempt
  BY <1>1, <1>4 DEF Attempt, Outcome, RuntimeShape, ScanFields, ReportFields
<1>5. CASE Status
  BY <1>1, <1>5 DEF Status, StatusReport, RuntimeShape, ScanFields
<1>6. CASE SkipStale \/ EndAttempts \/ RebalanceSymbol
  BY <1>1, <1>6 DEF SkipStale, EndAttempts, RebalanceSymbol, RuntimeShape, ScanFields,
     ReportFields
<1>7. \/ Scan \/ Publish \/ Attempt \/ Status
      \/ SkipStale \/ EndAttempts \/ RebalanceSymbol
      \/ UNCHANGED runtime
  BY DEF BotNext, LoopStep, Top, EndRebalance, Alert, Sleep, Finally, RequestStop,
     Tick, loop, botvars
<1>. QED BY <1>1, <1>2, <1>3, <1>4, <1>5, <1>6, <1>7

\* The count is always that of the last scan; the best opportunity follows it
\* one step later.
DashboardInvariant ==
  /\ RuntimeShape
  /\ runtime.opportunity_count = Len(opportunities)
  /\ pc # "publish" => runtime.best_opportunity = Best(opportunities)

\* What a step does to count and best opportunity.
DashboardFollows ==
  /\ runtime'.opportunity_count = Len(opportunities')
  /\ \/ /\ pc' # "publish"
        /\ runtime'.best_opportunity = Best(opportunities')
     \/ /\ pc # "publish" /\ pc' = "publish"
        /\ runtime'.best_opportunity = Best(opportunities)
     \/ /\ pc = "publish" /\ pc' = "publish"
        /\ UNCHANGED <<opportunities, runtime>>

\* No step but Scan replaces the opportunities, and between the two updates no
\* step writes to runtime.
LEMMA DashboardStep ==
  DashboardInvariant /\ [BotNext]_botvars
    => DashboardInvariant' /\ (DashboardFollows \/ UNCHANGED botvars)
<1>. SUFFICES ASSUME DashboardInvariant, [BotNext]_botvars
              PROVE  DashboardInvariant' /\ (DashboardFollows \/ UNCHANGED botvars)
  OBVIOUS
<1>1. /\ RuntimeShape /\ RuntimeShape'
      /\ Scan \/ Publish \/ UNCHANGED ScanFields
  BY RuntimeWrites DEF DashboardInvariant
<1>2. CASE Scan
  BY <1>1, <1>2 DEF Scan, DashboardInvariant, DashboardFollows, RuntimeShape
<1>3. CASE Publish
  BY <1>1, <1>3 DEF Publish, NothingFound, DashboardInvariant, DashboardFollows,
     RuntimeShape, Best
<1>4. CASE /\ UNCHANGED ScanFields /\ UNCHANGED opportunities
           /\ pc # "publish" /\ pc' # "publish"
  BY <1>1, <1>4 DEF ScanFields, DashboardInvariant, DashboardFollows, Best
<1>5. CASE UNCHANGED <<pc, opportunities, runtime>> /\ pc = "publish"
  BY <1>1, <1>5 DEF DashboardInvariant, DashboardFollows
<1>6. \/ Scan \/ Publish
      \/ UNCHANGED opportunities /\ pc # "publish" /\ pc' # "publish"
      \/ UNCHANGED <<pc, opportunities, runtime>> /\ pc = "publish"
  BY DEF BotNext, LoopStep, Top, SkipStale, Attempt, EndAttempts, RebalanceSymbol,
     EndRebalance, Alert, Status, Sleep, Finally, RequestStop, Tick, loop, botvars
<1>. QED BY <1>1, <1>2, <1>3, <1>4, <1>5, <1>6

\* It holds when the loop begins.
LEMMA DashboardInit == BotInit => DashboardInvariant
BY DEF BotInit, DashboardInvariant, RuntimeShape, Best

\* main.py:109-131 and 167: the count on the dashboard is always that of the last
\* scan, and so is the best opportunity, except between the two updates of a
\* cycle, when it is that of the scan before.
THEOREM DashboardIsOfLastScan == BotSpec => DashboardShowsLastScan
<1>1. DashboardInvariant /\ [BotNext]_botvars => [DashboardFollows]_botvars
  BY DashboardStep
<1>2. DashboardInvariant /\ [BotNext]_botvars => DashboardInvariant'
  BY DashboardStep
<1>3. BotSpec => [][DashboardFollows]_botvars
  BY <1>1, <1>2, DashboardInit, PTL DEF BotSpec
<1>. QED BY <1>3 DEF DashboardShowsLastScan, DashboardFollows

\* A successful execution leaves the payload of an order that went through.
LEMMA SuccessPlacesOrder ==
  ASSUME NEW o, Execute(o), result'.success
  PROVE  last_order_payload'.maker_result # "cancel_timeout"
<1>1. TakerTaker(o) \/ MakerFilled(o)
  BY DEF Execute, Reject, MakerTimeout, MakerEroded, Fail
<1>. QED BY <1>1 DEF TakerTaker, MakerFilled, Finalize, OrderPayload

\* No step publishes a cancelled order.
PublishedInvariant == RuntimeShape /\ PublishedOrderWasPlaced

LEMMA PublishedInit == BotInit => PublishedInvariant
BY DEF BotInit, PublishedInvariant, RuntimeShape, PublishedOrderWasPlaced, NoPayload

LEMMA PublishedStep ==
  PublishedInvariant /\ [BotNext]_botvars => PublishedInvariant'
<1>. SUFFICES ASSUME PublishedInvariant, [BotNext]_botvars PROVE PublishedInvariant'
  OBVIOUS
<1>1. RuntimeShape /\ PublishedOrderWasPlaced
  BY DEF PublishedInvariant
<1>2. CASE UNCHANGED runtime.last_order_payload
  BY <1>1, <1>2, RuntimeWrites DEF PublishedInvariant, PublishedOrderWasPlaced
<1>3. CASE /\ Attempt /\ result'.success
           /\ runtime'.last_order_payload = last_order_payload'
  BY <1>1, <1>3, RuntimeWrites, SuccessPlacesOrder
  DEF Attempt, PublishedInvariant, PublishedOrderWasPlaced
<1>. QED BY <1>1, <1>2, <1>3, RuntimeWrites

\* main.py:135-142: a cancelled maker order never shows as the last order.
THEOREM PublishedOrderIsPlaced == BotSpec => []PublishedOrderWasPlaced
<1>1. PublishedInvariant => PublishedOrderWasPlaced
  BY DEF PublishedInvariant
<1>. QED BY <1>1, PublishedInit, PublishedStep, PTL DEF BotSpec

\* main.py:183-189: the balances published hold the PnL published with them,
\* because both are of a moment at which the executor's balances held its PnL.
THEOREM PublishedLedgerIsBacked == BotSpec => []PublishedLedgerBacked
<1>. DEFINE Inv == RuntimeShape /\ PublishedLedgerBacked
<1>1. BotInit => Inv
  BY DEF BotInit, RuntimeShape, PublishedLedgerBacked, NotPublished
<1>2. Inv /\ BalancesBackPnl /\ [BotNext]_botvars => Inv'
  <2>. SUFFICES ASSUME Inv, BalancesBackPnl, [BotNext]_botvars PROVE Inv'
    OBVIOUS
  <2>1. CASE UNCHANGED ReportFields
    BY <2>1, RuntimeWrites DEF ReportFields, PublishedLedgerBacked
  <2>2. CASE Status /\ runtime' = StatusReport
    <3>1. runtime'.metrics.risk = risk /\ runtime'.balances.quote_free = quote_free
      BY <2>2 DEF StatusReport, Metrics, BalanceSummary, RuntimeShape
    <3>. QED BY <3>1, RuntimeWrites DEF BalancesBackPnl, PublishedLedgerBacked
  <2>. QED BY <2>1, <2>2, RuntimeWrites
<1>3. Inv => PublishedLedgerBacked
  OBVIOUS
<1>4. ExecutorInvariant => BalancesBackPnl
  BY DEF ExecutorInvariant
<1>. HIDE DEF Inv
<1>. QED BY <1>1, <1>2, <1>3, <1>4, ExecutorSafeInBot, PTL DEF BotSpec
=============================================================================

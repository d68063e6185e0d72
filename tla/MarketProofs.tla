--------------------------- MODULE MarketProofs ---------------------------
(***************************************************************************)
(* Proofs about MarketData: how old a quote can be when it is fetched and  *)
(* when a trade rests on it, for any exchanges, streams, limits and delays. *)
(***************************************************************************)
EXTENDS MarketData, TLAPS

----------------------------------------------------------------------------
(* The inductive invariant.  During the attempts a quote has aged with the  *)
(* opportunities since the scan compared it with MaxDataAge.                *)

AttemptedQuotesKnown ==
  phase \in {"attempt", "execute"} =>
    \A route \in attempts.routes : \A x \in {route[2], route[3]} :
      /\ snapshot[<<x, route[1]>>] \in Quote
      /\ snapshot[<<x, route[1]>>].age <= MaxDataAge + Ahead[x] + attempts.age

JobsInFetch == phase # "fetching" => \A p \in Pairs : job[p] = "done"

\* Rows come from streams, and only a quote waits for its order book.
StreamsHoldRows ==
  \A p \in Streamed \X Symbols : data[p] # NoQuote => data[p].source = "ws"

JobsKnowQuotes ==
  \A p \in Pairs :
    /\ job[p] = "checking" /\ snapshot[p] # NoQuote => snapshot[p].source = "ws"
    /\ job[p] = "depth" => snapshot[p] \in Quote

MarketInvariant ==
  /\ TypeOK
  /\ JobsInFetch
  /\ StreamsHoldRows
  /\ JobsKnowQuotes
  /\ QuoteAgesBounded
  /\ AttemptedQuotesKnown

----------------------------------------------------------------------------

\* Ageing keeps an age within the bound of the model.
LEMMA OlderIs ==
  ASSUME NEW age \in Ages
  PROVE  /\ Older(age) \in Ages
         /\ age <= Older(age)
         /\ \A limit \in Nat, since \in Ages :
              age <= limit + since => Older(age) <= limit + Older(since)
BY MarketAssumption DEF Older, Ages

\* An aged quote is of the same source and kind.
LEMMA OlderQuoteIs ==
  ASSUME NEW quote \in Quote \cup {NoQuote}
  PROVE  /\ OlderQuote(quote) \in Quote \cup {NoQuote}
         /\ quote \in Quote => OlderQuote(quote) \in Quote
         /\ quote \in Quote => OlderQuote(quote).age = Older(quote.age)
         /\ OlderQuote(quote) # NoQuote => quote \in Quote
         /\ OlderQuote(quote).source = quote.source
<1>1. CASE quote = NoQuote
  <2>1. OlderQuote(quote) = NoQuote
    BY <1>1 DEF OlderQuote
  <2>2. NoQuote \notin Quote
    BY DEF NoQuote, Quote
  <2>. QED BY <1>1, <2>1, <2>2
<1>2. CASE quote # NoQuote
  <2>1. quote \in Quote
    BY <1>2
  <2>2. OlderQuote(quote) = [quote EXCEPT !.age = Older(quote.age)]
    BY <1>2 DEF OlderQuote
  <2>3. quote.age \in Ages
    BY <2>1 DEF Quote
  <2>4. Older(quote.age) \in Ages
    BY <2>3, OlderIs
  <2>5. /\ [quote EXCEPT !.age = Older(quote.age)] \in Quote
        /\ [quote EXCEPT !.age = Older(quote.age)].age = Older(quote.age)
        /\ [quote EXCEPT !.age = Older(quote.age)].source = quote.source
    BY <2>1, <2>4 DEF Quote
  <2>. QED BY <2>1, <2>2, <2>5
<1>. QED BY <1>1, <1>2

\* A route names two exchanges that are traded.
LEMMA RouteIs ==
  ASSUME NEW route \in Opportunities
  PROVE  /\ route[1] \in Symbols
         /\ \A x \in {route[2], route[3]} : <<x, route[1]>> \in Pairs
BY MarketAssumption DEF Pairs

\* What an exchange's clock adds to a limit.
LEMMA AheadIs ==
  ASSUME NEW x \in Exchanges
  PROVE  /\ WebsocketStale + Ahead[x] \in Nat
         /\ MaxDataAge + Ahead[x] \in Nat
         /\ Ahead[x] \in Nat
BY MarketAssumption

\* The invariant holds at the start.
LEMMA InitInvariant == Init => MarketInvariant
<1>. SUFFICES ASSUME Init PROVE MarketInvariant
  OBVIOUS
<1>1. TypeOK
  <2>1. 0 \in Ages
    BY MarketAssumption DEF Ages
  <2>2. attempts \in [routes : SUBSET Opportunities, age : Ages]
    BY <2>1 DEF Init, NoAttempts
  <2>. QED BY <2>1, <2>2 DEF Init, TypeOK
<1>2. QuoteAgesBounded
  BY DEF Init, QuoteAgesBounded
<1>3. AttemptedQuotesKnown
  BY DEF Init, AttemptedQuotesKnown
<1>4. JobsInFetch /\ StreamsHoldRows /\ JobsKnowQuotes
  BY DEF Init, JobsInFetch, StreamsHoldRows, JobsKnowQuotes
<1>. QED BY <1>1, <1>2, <1>3, <1>4 DEF MarketInvariant

\* A step of a stream's thread touches no quote the gateway has taken.
LEMMA StreamStep ==
  ASSUME MarketInvariant, NEW x \in Streamed, Stream(x)
  PROVE  MarketInvariant'
<1>. USE DEF MarketInvariant
<1>1. UNCHANGED <<stop_event, cycle>>
  BY DEF Stream, Proceeds, Connects, ConnectFails, ReceiveTimesOut, PauseEnds,
         Receives, ReceiveFails, GoesTo
<1>2. /\ stream' \in [Streamed -> {"connecting", "receiving", "pausing", "ended"}]
      /\ quiet' \in [Streamed -> Ages]
  <2>1. PICK place \in {"connecting", "receiving", "pausing", "ended"} : GoesTo(x, place)
    BY DEF Stream, Proceeds, Connects, ConnectFails, ReceiveTimesOut, PauseEnds,
           Receives, ReceiveFails, NextPlace
  <2>2. 0 \in Ages
    BY MarketAssumption DEF Ages
  <2>. QED BY <2>1, <2>2 DEF GoesTo, TypeOK
<1>3. data' \in [Streamed \X Symbols -> Quote \cup {NoQuote}] /\ StreamsHoldRows'
  <2>1. CASE UNCHANGED data
    BY <2>1 DEF TypeOK, StreamsHoldRows
  <2>2. ASSUME NEW s \in Symbols, NEW age \in ArrivalAges,
               data' = [data EXCEPT ![<<x, s>>] =
                          [source |-> "ws", age |-> age, depth |-> FALSE]]
        PROVE  data' \in [Streamed \X Symbols -> Quote \cup {NoQuote}] /\ StreamsHoldRows'
    <3>1. [source |-> "ws", age |-> age, depth |-> FALSE] \in Quote
      BY MarketAssumption DEF Quote, Ages
    <3>. QED BY <2>2, <3>1 DEF TypeOK, StreamsHoldRows
  <2>. QED
    BY <2>1, <2>2 DEF Stream, Proceeds, Connects, ConnectFails, ReceiveTimesOut,
                      PauseEnds, Receives, ReceiveFails
<1>4. TypeOK'
  BY <1>1, <1>2, <1>3 DEF TypeOK, cycle
<1>5. QuoteAgesBounded'
  BY <1>1 DEF QuoteAgesBounded, cycle
<1>6. AttemptedQuotesKnown' /\ JobsInFetch' /\ JobsKnowQuotes'
  BY <1>1 DEF AttemptedQuotesKnown, JobsInFetch, JobsKnowQuotes, cycle
<1>. QED BY <1>3, <1>4, <1>5, <1>6

\* What a job leaves when it goes on with a quote within its limit.
LEMMA JobStep ==
  ASSUME MarketInvariant, phase = "fetching", NEW p \in Pairs,
         NEW place \in {"begun", "checking", "rest", "depth", "done"},
         NEW quote \in Quote \cup {NoQuote},
         JobGoesTo(p, place, quote),
         quote # NoQuote /\ place \in {"depth", "done"} =>
           IF quote.source = "ws"
             THEN quote.age <= WebsocketStale + Ahead[p[1]] + fetch_time
             ELSE \E age \in RestAges : quote.age <= age + fetch_time,
         place = "checking" /\ quote # NoQuote => quote.source = "ws",
         place = "depth" => quote \in Quote
  PROVE  MarketInvariant'
<1>. USE DEF MarketInvariant, JobGoesTo
<1>1. TypeOK'
  BY DEF TypeOK, threads
<1>2. QuoteAgesBounded'
  <2>. SUFFICES ASSUME NEW q \in Pairs, snapshot'[q] # NoQuote,
                       job'[q] \in {"depth", "done"}
                PROVE  IF snapshot'[q].source = "ws"
                         THEN snapshot'[q].age <= WebsocketStale + Ahead[q[1]] + fetch_time
                         ELSE \E age \in RestAges : snapshot'[q].age <= age + fetch_time
    BY DEF QuoteAgesBounded
  <2>1. CASE q = p
    <3>1. snapshot'[q] = quote /\ job'[q] = place
      BY <2>1 DEF TypeOK
    <3>. QED BY <2>1, <3>1
  <2>2. CASE q # p
    <3>1. snapshot'[q] = snapshot[q] /\ job'[q] = job[q]
      BY <2>2 DEF TypeOK
    <3>. QED BY <3>1 DEF QuoteAgesBounded
  <2>. QED BY <2>1, <2>2
<1>3. AttemptedQuotesKnown' /\ JobsInFetch' /\ StreamsHoldRows'
  BY DEF AttemptedQuotesKnown, JobsInFetch, StreamsHoldRows, threads
<1>4. JobsKnowQuotes'
  BY DEF TypeOK, JobsKnowQuotes
<1>. QED BY <1>1, <1>2, <1>3, <1>4

\* A step of a job: a row within its limit is kept, a ticker has just arrived.
LEMMA FetchStep ==
  ASSUME MarketInvariant, NEW p \in Pairs, FetchOne(p)
  PROVE  MarketInvariant'
<1>. USE DEF MarketInvariant
<1>1. job[p] # "done"
  BY DEF FetchOne, CopyRow, CheckRow, RestAnswers, RestFails, FetchOrderBook
<1>2. phase = "fetching"
  BY <1>1 DEF JobsInFetch
<1>3. snapshot[p] \in Quote \cup {NoQuote} /\ fetch_time \in Ages
  BY DEF TypeOK
<1>4. CASE CopyRow(p)
  <2>1. p[1] \in Streamed => p \in Streamed \X Symbols
    BY DEF Pairs
  <2>. DEFINE row == IF p[1] \in Streamed THEN data[p] ELSE NoQuote
  <2>2. row \in Quote \cup {NoQuote} /\ (row # NoQuote => row.source = "ws")
    BY <2>1 DEF TypeOK, StreamsHoldRows
  <2>3. JobGoesTo(p, "checking", row)
    BY <1>4 DEF CopyRow
  <2>. HIDE DEF row
  <2>. QED BY <1>2, <2>2, <2>3, JobStep
<1>5. CASE CheckRow(p)
  <2>1. CASE Usable(p[1], snapshot[p])
    <3>1. snapshot[p] \in Quote /\ snapshot[p].age - Ahead[p[1]] <= WebsocketStale
      BY <1>3, <2>1 DEF Usable
    <3>2. /\ WebsocketStale \in Nat /\ fetch_time \in Nat /\ snapshot[p].age \in Nat
          /\ Ahead[p[1]] \in Nat
      BY <1>3, <3>1, MarketAssumption DEF Ages, Quote, Pairs
    <3>3. snapshot[p].age <= WebsocketStale + Ahead[p[1]] + fetch_time
      BY <3>1, <3>2
    <3>4. snapshot[p] # NoQuote /\ snapshot[p].source = "ws"
      BY <1>5, <2>1 DEF CheckRow, Usable, JobsKnowQuotes
    <3>. QED BY <1>2, <1>3, <1>5, <2>1, <3>3, <3>4, JobStep DEF CheckRow
  <2>2. CASE ~ Usable(p[1], snapshot[p])
    BY <1>2, <1>5, <2>2, JobStep DEF CheckRow
  <2>. QED BY <2>1, <2>2
<1>6. CASE RestAnswers(p)
  <2>1. PICK age \in RestAges :
          JobGoesTo(p, "depth", [source |-> "rest", age |-> age, depth |-> FALSE])
    BY <1>6 DEF RestAnswers
  <2>2. [source |-> "rest", age |-> age, depth |-> FALSE] \in Quote
    BY MarketAssumption DEF Quote, Ages
  <2>3. age <= age + fetch_time
    BY <1>3, MarketAssumption DEF Ages
  <2>. QED BY <1>2, <2>1, <2>2, <2>3, JobStep
<1>7. CASE RestFails(p)
  BY <1>2, <1>7, JobStep DEF RestFails
<1>8. CASE FetchOrderBook(p)
  <2>1. PICK ok \in BOOLEAN : JobGoesTo(p, "done", [snapshot[p] EXCEPT !.depth = ok])
    BY <1>8, MarketAssumption DEF FetchOrderBook, WithDepth
  <2>. DEFINE quote == [snapshot[p] EXCEPT !.depth = ok]
  <2>2. snapshot[p] \in Quote /\ snapshot[p] # NoQuote
    BY <1>8 DEF FetchOrderBook, JobsKnowQuotes, NoQuote, Quote
  <2>3. /\ quote \in Quote
        /\ quote.source = snapshot[p].source
        /\ quote.age = snapshot[p].age
    BY <2>2 DEF Quote
  <2>4. IF quote.source = "ws"
          THEN quote.age <= WebsocketStale + Ahead[p[1]] + fetch_time
          ELSE \E age \in RestAges : quote.age <= age + fetch_time
    BY <1>2, <1>8, <2>2, <2>3 DEF FetchOrderBook, QuoteAgesBounded
  <2>. HIDE DEF quote
  <2>. QED BY <1>2, <2>1, <2>3, <2>4, JobStep DEF quote
<1>. QED BY <1>4, <1>5, <1>6, <1>7, <1>8 DEF FetchOne

\* A step of the loop: the scan starts the count of an opportunity's age with
\* quotes it has found fresh.
LEMMA BotStep ==
  ASSUME MarketInvariant, Bot \/ Close
  PROVE  MarketInvariant'
<1>. USE DEF MarketInvariant
<1>1. CASE FetchAllTickers
  <2>1. TypeOK'
    BY <1>1 DEF FetchAllTickers, TypeOK, threads
  <2>. QED
    BY <1>1, <2>1 DEF FetchAllTickers, QuoteAgesBounded, AttemptedQuotesKnown,
       JobsInFetch, StreamsHoldRows, JobsKnowQuotes, threads
<1>2. CASE EndFetch
  <2>1. TypeOK'
    BY <1>2 DEF EndFetch, TypeOK, threads
  <2>. QED
    BY <1>2, <2>1 DEF EndFetch, QuoteAgesBounded, AttemptedQuotesKnown,
       JobsInFetch, StreamsHoldRows, JobsKnowQuotes, threads
<1>3. CASE ForgetCycle /\ UNCHANGED <<threads, job>> /\ phase # "fetching"
  <2>1. 0 \in Ages
    BY MarketAssumption DEF Ages
  <2>2. attempts' \in [routes : SUBSET Opportunities, age : Ages]
    BY <1>3, <2>1 DEF ForgetCycle, NoAttempts
  <2>3. TypeOK'
    BY <1>3, <2>1, <2>2 DEF ForgetCycle, TypeOK, threads
  <2>. QED
    BY <1>3, <2>3 DEF ForgetCycle, QuoteAgesBounded, AttemptedQuotesKnown,
       JobsInFetch, StreamsHoldRows, JobsKnowQuotes, threads
<1>4. ASSUME phase = "scan", NEW routes \in SUBSET Opportunities,
             \A route \in routes : Offered(route),
             phase' = "attempt", attempts' = [routes |-> routes, age |-> 0],
             UNCHANGED <<threads, job, snapshot, fetch_time>>
      PROVE  MarketInvariant'
  <2>1. 0 \in Ages /\ MaxDataAge \in Nat
    BY MarketAssumption DEF Ages
  <2>2. TypeOK'
    BY <1>4, <2>1 DEF TypeOK, threads
  <2>3. AttemptedQuotesKnown'
    <3>. SUFFICES ASSUME NEW route \in routes, NEW x \in {route[2], route[3]}
                  PROVE  /\ snapshot[<<x, route[1]>>] \in Quote
                         /\ snapshot[<<x, route[1]>>].age <= MaxDataAge + Ahead[x] + 0
      BY <1>4 DEF AttemptedQuotesKnown
    <3>1. <<x, route[1]>> \in Pairs
      BY RouteIs
    <3>2. x \in Rows(route[1])
      BY <1>4 DEF Offered
    <3>3. /\ snapshot[<<x, route[1]>>] \in Quote
          /\ snapshot[<<x, route[1]>>].age - Ahead[x] <= MaxDataAge
      BY <3>1, <3>2 DEF Rows, Fresh, TypeOK
    <3>4. snapshot[<<x, route[1]>>].age \in Nat /\ Ahead[x] \in Nat
      BY <3>2, <3>3, MarketAssumption DEF Quote, Ages, Rows
    <3>. QED BY <2>1, <3>3, <3>4
  <2>. QED
    BY <1>4, <2>2, <2>3 DEF QuoteAgesBounded, JobsInFetch, StreamsHoldRows,
       JobsKnowQuotes, threads
<1>5. CASE Execute
  <2>1. PICK route \in attempts.routes :
          attempts' = [attempts EXCEPT !.routes = @ \ {route}]
    BY <1>5 DEF Execute
  <2>2. /\ attempts' \in [routes : SUBSET Opportunities, age : Ages]
        /\ attempts'.routes \subseteq attempts.routes
        /\ attempts'.age = attempts.age
    BY <2>1 DEF TypeOK
  <2>3. TypeOK'
    BY <1>5, <2>2 DEF Execute, TypeOK, threads
  <2>4. AttemptedQuotesKnown'
    BY <1>5, <2>2 DEF Execute, AttemptedQuotesKnown
  <2>. QED
    BY <1>5, <2>3, <2>4 DEF Execute, QuoteAgesBounded, JobsInFetch,
       StreamsHoldRows, JobsKnowQuotes, threads
<1>9. CASE NextAttempt
  <2>1. TypeOK'
    BY <1>9 DEF NextAttempt, TypeOK, threads
  <2>. QED
    BY <1>9, <2>1 DEF NextAttempt, QuoteAgesBounded, AttemptedQuotesKnown,
       JobsInFetch, StreamsHoldRows, JobsKnowQuotes, threads
<1>6. CASE Close
  <2>1. TypeOK'
    BY <1>6 DEF Close, TypeOK
  <2>. QED
    BY <1>6, <2>1 DEF Close, QuoteAgesBounded, AttemptedQuotesKnown,
       JobsInFetch, StreamsHoldRows, JobsKnowQuotes
<1>7. CASE FindOpportunities
  BY <1>3, <1>4, <1>7 DEF FindOpportunities
<1>8. CASE EndCycle
  BY <1>3, <1>8 DEF EndCycle
<1>. QED BY <1>1, <1>2, <1>5, <1>6, <1>7, <1>8, <1>9 DEF Bot

\* Time ages the quotes no faster than the fetch or the opportunity.
LEMMA TickStep ==
  ASSUME MarketInvariant, Tick
  PROVE  MarketInvariant'
<1>. USE DEF MarketInvariant
<1>1. \A p \in Pairs : snapshot'[p] = OlderQuote(snapshot[p])
  BY DEF Tick
<1>2. \A p \in Pairs : snapshot[p] \in Quote \cup {NoQuote}
  BY DEF TypeOK
<1>3. TypeOK'
  <2>1. quiet' \in [Streamed -> Ages]
    <3>1. \A time \in Ages : StillQuiet(time) \in Ages
      BY MarketAssumption DEF StillQuiet, Ages
    <3>. QED BY <3>1 DEF Tick, TypeOK
  <2>2. data' \in [Streamed \X Symbols -> Quote \cup {NoQuote}]
    BY OlderQuoteIs DEF Tick, TypeOK
  <2>3. snapshot' \in [Pairs -> Quote \cup {NoQuote}]
    BY OlderQuoteIs DEF Tick, TypeOK
  <2>4. attempts' \in [routes : SUBSET Opportunities, age : Ages]
    BY OlderIs DEF Tick, TypeOK
  <2>5. fetch_time' \in Ages
    BY OlderIs DEF Tick, TypeOK
  <2>. QED BY <2>1, <2>2, <2>3, <2>4, <2>5 DEF Tick, TypeOK
<1>4. QuoteAgesBounded'
  <2>. SUFFICES ASSUME NEW p \in Pairs, phase = "fetching",
                       snapshot'[p] # NoQuote, job[p] \in {"depth", "done"}
                PROVE  IF snapshot'[p].source = "ws"
                         THEN snapshot'[p].age <= WebsocketStale + Ahead[p[1]] + fetch_time'
                         ELSE \E age \in RestAges : snapshot'[p].age <= age + fetch_time'
    BY DEF QuoteAgesBounded, Tick
  <2>1. /\ snapshot[p] \in Quote
        /\ snapshot[p] # NoQuote
        /\ snapshot'[p].age = Older(snapshot[p].age)
        /\ snapshot'[p].source = snapshot[p].source
    <3>1. snapshot[p] \in Quote
      BY <1>1, <1>2, OlderQuoteIs
    <3>2. NoQuote \notin Quote
      BY DEF NoQuote, Quote
    <3>. QED BY <1>1, <1>2, <3>1, <3>2, OlderQuoteIs
  <2>2. snapshot[p].age \in Ages /\ fetch_time \in Ages
    BY <2>1 DEF Quote, TypeOK
  <2>3. fetch_time' = Older(fetch_time)
    BY DEF Tick
  <2>4. WebsocketStale \in Nat /\ RestAges \subseteq Nat
    BY MarketAssumption DEF Ages
  <2>5. IF snapshot[p].source = "ws"
          THEN snapshot[p].age <= WebsocketStale + Ahead[p[1]] + fetch_time
          ELSE \E age \in RestAges : snapshot[p].age <= age + fetch_time
    BY <2>1 DEF QuoteAgesBounded
  <2>6. CASE snapshot[p].source = "ws"
    <3>. DEFINE limit == WebsocketStale + Ahead[p[1]]
    <3>1. limit \in Nat
      BY AheadIs DEF Pairs
    <3>2. snapshot[p].age <= limit + fetch_time
      BY <2>5, <2>6
    <3>. HIDE DEF limit
    <3>3. snapshot'[p].age <= limit + fetch_time'
      BY <2>1, <2>2, <2>3, <3>1, <3>2, OlderIs
    <3>. QED BY <2>1, <2>6, <3>3 DEF limit
  <2>7. CASE snapshot[p].source # "ws"
    <3>1. PICK age \in RestAges : snapshot[p].age <= age + fetch_time
      BY <2>5, <2>7
    <3>2. snapshot'[p].age <= age + fetch_time'
      BY <2>1, <2>2, <2>3, <2>4, <3>1, OlderIs
    <3>. QED BY <2>1, <2>7, <3>2
  <2>. QED BY <2>6, <2>7
<1>5. AttemptedQuotesKnown'
  <2>. SUFFICES ASSUME phase \in {"attempt", "execute"}, NEW route \in attempts.routes,
                       NEW x \in {route[2], route[3]}
                PROVE  /\ snapshot'[<<x, route[1]>>] \in Quote
                       /\ snapshot'[<<x, route[1]>>].age
                            <= MaxDataAge + Ahead[x] + Older(attempts.age)
    <3>1. phase \in {"attempt", "execute"} =>
            attempts'.routes = attempts.routes /\ attempts'.age = Older(attempts.age)
      BY DEF Tick, TypeOK
    <3>2. phase' = phase
      BY DEF Tick
    <3>. QED BY <3>1, <3>2 DEF AttemptedQuotesKnown
  <2>1. /\ route \in Opportunities
        /\ snapshot[<<x, route[1]>>] \in Quote
        /\ snapshot[<<x, route[1]>>].age <= MaxDataAge + Ahead[x] + attempts.age
    BY DEF AttemptedQuotesKnown, TypeOK
  <2>2. <<x, route[1]>> \in Pairs
    BY <2>1, RouteIs
  <2>3. /\ snapshot'[<<x, route[1]>>] \in Quote
        /\ snapshot'[<<x, route[1]>>].age = Older(snapshot[<<x, route[1]>>].age)
    BY <1>1, <2>1, <2>2, OlderQuoteIs
  <2>4. attempts.age \in Ages /\ snapshot[<<x, route[1]>>].age \in Ages
    BY <2>1 DEF TypeOK, Quote
  <2>. DEFINE limit == MaxDataAge + Ahead[x]
  <2>5. limit \in Nat
    BY <2>2, AheadIs DEF Pairs
  <2>7. snapshot[<<x, route[1]>>].age <= limit + attempts.age
    BY <2>1
  <2>. HIDE DEF limit
  <2>8. snapshot'[<<x, route[1]>>].age <= limit + Older(attempts.age)
    BY <2>3, <2>4, <2>5, <2>7, OlderIs
  <2>6. snapshot'[<<x, route[1]>>].age <= MaxDataAge + Ahead[x] + Older(attempts.age)
    BY <2>8 DEF limit
  <2>. QED BY <2>3, <2>6
<1>6. StreamsHoldRows'
  BY OlderQuoteIs DEF Tick, StreamsHoldRows, TypeOK, NoQuote, OlderQuote
<1>7. JobsKnowQuotes'
  BY <1>1, <1>2, OlderQuoteIs DEF JobsKnowQuotes, Tick, OlderQuote
<1>8. JobsInFetch'
  BY DEF JobsInFetch, Tick
<1>. QED BY <1>3, <1>4, <1>5, <1>6, <1>7, <1>8

----------------------------------------------------------------------------
(* The theorems *)

\* The invariant holds in every state.
THEOREM MarketInvariantHolds == Spec => []MarketInvariant
<1>1. MarketInvariant /\ [Next]_vars => MarketInvariant'
  <2>. SUFFICES ASSUME MarketInvariant, [Next]_vars PROVE MarketInvariant'
    OBVIOUS
  <2>1. CASE UNCHANGED vars
    BY <2>1 DEF vars, threads, cycle, MarketInvariant, TypeOK, QuoteAgesBounded,
       AttemptedQuotesKnown, JobsInFetch, StreamsHoldRows, JobsKnowQuotes
  <2>. QED BY <2>1, StreamStep, FetchStep, BotStep, TickStep DEF Next
<1>. QED BY <1>1, InitInvariant, PTL DEF Spec

\* Type correctness of the streams, the gateway and the cycle.
THEOREM MarketTypeCorrect == Spec => []TypeOK
BY MarketInvariantHolds, PTL DEF MarketInvariant

\* A fetched quote is no older than its source's limit and the fetch itself
\* (exchanges.py:122-175), for any number of exchanges and any delays.
THEOREM QuotesAreBounded == Spec => []QuoteAgesBounded
BY MarketInvariantHolds, PTL DEF MarketInvariant

\* Whatever is executed rests on quotes no older than the two limits together
\* (opportunity.py:41-43, main.py:129-132).
THEOREM ExecutionsAreRecent == Spec => ExecutesOnRecentQuotes
<1>. DEFINE Recent ==
       phase' = "execute" =>
         \A route \in attempts.routes \ attempts'.routes :
           \A x \in {route[2], route[3]} :
             snapshot[<<x, route[1]>>].age <= MaxDataAge + Ahead[x] + MaxOpportunityAge
<1>1. MarketInvariant /\ [Next]_vars => [Recent]_vars
  <2>. SUFFICES ASSUME MarketInvariant, Next, phase' = "execute",
                       NEW route \in attempts.routes \ attempts'.routes,
                       NEW x \in {route[2], route[3]}
                PROVE  snapshot[<<x, route[1]>>].age <= MaxDataAge + Ahead[x] + MaxOpportunityAge
    OBVIOUS
  <2>1. Execute
    <3>1. ~ Tick
      BY DEF Tick, MarketInvariant, TypeOK
    <3>. QED
      BY <3>1 DEF Next, Stream, Proceeds, Connects, ConnectFails, ReceiveTimesOut,
         PauseEnds, Receives, ReceiveFails, GoesTo, FetchOne, CopyRow, CheckRow,
         RestAnswers, RestFails, FetchOrderBook, JobGoesTo, Bot, FetchAllTickers,
         EndFetch, FindOpportunities, ForgetCycle, NextAttempt, EndCycle, Close, cycle
  <2>2. /\ snapshot[<<x, route[1]>>] \in Quote
        /\ snapshot[<<x, route[1]>>].age <= MaxDataAge + Ahead[x] + attempts.age
    BY <2>1 DEF Execute, MarketInvariant, AttemptedQuotesKnown
  <2>3. attempts.age <= MaxOpportunityAge
    BY <2>1 DEF Execute, YoungEnough
  <2>4. /\ snapshot[<<x, route[1]>>].age \in Nat /\ attempts.age \in Nat
        /\ MaxDataAge \in Nat /\ MaxOpportunityAge \in Nat
    BY <2>2, MarketAssumption DEF MarketInvariant, TypeOK, Quote, Ages
  <2>5. Ahead[x] \in Nat
    <3>1. route \in Opportunities
      BY DEF MarketInvariant, TypeOK
    <3>. QED BY <3>1, RouteIs, MarketAssumption DEF Pairs
  <2>. QED BY <2>2, <2>3, <2>4, <2>5
<1>. QED BY <1>1, MarketInvariantHolds, PTL DEF Spec, ExecutesOnRecentQuotes
=============================================================================

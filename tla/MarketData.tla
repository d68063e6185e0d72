---------------------------- MODULE MarketData ----------------------------
(***************************************************************************)
(* How a quote reaches a trade: the WebSocket threads that keep the latest *)
(* row of each symbol (src/src/market_ws.py), the gateway whose jobs take  *)
(* such a row or ask the exchange (src/src/exchanges.py), the scanner that *)
(* drops old quotes (src/src/opportunity.py) and the loop that drops old   *)
(* opportunities (src/src/main.py).                                        *)
(*                                                                         *)
(* Prices are left out: what is followed is the age of a quote, which the  *)
(* code finds by subtracting its time stamp from the clock.  The stamp is  *)
(* the exchange's, whose clock may be ahead: a quote of age n then passes   *)
(* for one of age n - Ahead, which may be negative.  Ages of AgeLimit and  *)
(* more are not told apart.                                                *)
(***************************************************************************)
EXTENDS Integers, FiniteSets

CONSTANTS
  Exchanges, Symbols,   \* config.exchanges, config.symbols
  Streamed,             \* the exchanges with a WebSocket thread
  Opportunities,        \* the routes <<symbol, buy, sell>> that may pay off
  WebsocketStale,       \* websocket_stale_ms, in clock ticks
  MaxDataAge,           \* max_data_age_ms
  MaxOpportunityAge,    \* max_opportunity_age_ms
  RecvTimeout,          \* time limit of ws.recv()
  ReconnectPause,       \* asyncio.sleep() after an error
  EnableOrderbookDepth, \* enable_orderbook_depth
  DepthLegs,            \* the legs of a route that need an order book: 2 and 3,
                        \* only the taker's, or with require_depth_liquidity off none
  Ahead,                \* external: [exchange -> how far its clock is ahead of
                        \* the local one, so that its quotes look younger]
  ArrivalAges,          \* external: ages of an update when it is received
  RestAges,             \* external: ages of a ticker when fetch_ticker returns
  AgeLimit              \* bound of the model: the largest age

Pairs == Exchanges \X Symbols

ASSUME MarketAssumption ==
  /\ Streamed \subseteq Exchanges
  /\ \A route \in Opportunities :
       \E s \in Symbols, x, y \in Exchanges : x # y /\ route = <<s, x, y>>
  /\ WebsocketStale \in Nat /\ MaxDataAge \in Nat /\ MaxOpportunityAge \in Nat
  /\ RecvTimeout \in Nat /\ ReconnectPause \in Nat
  /\ EnableOrderbookDepth \in BOOLEAN
  /\ DepthLegs \subseteq {2, 3}
  /\ AgeLimit \in Nat
  /\ Ahead \in [Exchanges -> Nat]
  /\ ArrivalAges \subseteq 0..AgeLimit
  /\ RestAges \subseteq 0..AgeLimit
  /\ \A limit \in {WebsocketStale, MaxDataAge, MaxOpportunityAge, RecvTimeout,
                   ReconnectPause} : limit < AgeLimit
  /\ \A x \in Exchanges :
       WebsocketStale + Ahead[x] < AgeLimit /\ MaxDataAge + Ahead[x] < AgeLimit

Ages == 0..AgeLimit

VARIABLES
  stream,       \* [streamed exchange -> where its thread is]
  quiet,        \* [streamed exchange -> time since the thread last went on]
  stop_event,   \* set by gateway.close() for every stream
  data,         \* [streamed pair -> the stream's row of it]
  phase,        \* where the cycle of the main loop is
  job,          \* [pair -> where its _fetch_one is]
  snapshot,     \* [pair -> what its _fetch_one has so far, then its result]
  attempts,     \* what the scan found and was not attempted yet, and its age
  fetch_time    \* history: time since the jobs were started

threads == <<stream, quiet, stop_event, data>>
cycle == <<phase, job, snapshot, attempts, fetch_time>>
vars == <<threads, cycle>>

NoQuote == [source |-> "none", age |-> 0, depth |-> FALSE]
Quote == [source : {"ws", "rest"}, age : Ages, depth : BOOLEAN]
NoAttempts == [routes |-> {}, age |-> 0]

Init ==
  /\ stream = [x \in Streamed |-> "connecting"]
  /\ quiet = [x \in Streamed |-> 0]
  /\ stop_event = FALSE
  /\ data = [p \in Streamed \X Symbols |-> NoQuote]
  /\ phase = "idle"
  /\ job = [p \in Pairs |-> "done"]
  /\ snapshot = [p \in Pairs |-> NoQuote]
  /\ attempts = NoAttempts
  /\ fetch_time = 0

----------------------------------------------------------------------------
(* A stream's thread.  It looks at stop_event before it connects and before *)
(* it waits for a message, never in between.                                *)

GoesTo(x, place) ==
  /\ stream' = [stream EXCEPT ![x] = place]
  /\ quiet' = [quiet EXCEPT ![x] = 0]
  /\ UNCHANGED <<stop_event, cycle>>

\* Faulty: the thread does not look at stop_event.
NextPlace_Always(place) == place
NextPlace(place) == IF stop_event THEN "ended" ELSE place

Connects(x) ==
  /\ stream[x] = "connecting"
  /\ GoesTo(x, NextPlace("receiving"))
  /\ UNCHANGED data

ConnectFails(x) ==
  /\ stream[x] = "connecting"
  /\ GoesTo(x, "pausing")
  /\ UNCHANGED data

\* A message without a usable quote is skipped.
Receives(x) ==
  /\ stream[x] = "receiving"
  /\ GoesTo(x, NextPlace("receiving"))
  /\ \/ \E s \in Symbols, age \in ArrivalAges :
          data' = [data EXCEPT ![<<x, s>>] =
                     [source |-> "ws", age |-> age, depth |-> FALSE]]
     \/ UNCHANGED data

\* The connection breaks, or a message cannot be parsed.
ReceiveFails(x) ==
  /\ stream[x] = "receiving"
  /\ GoesTo(x, "pausing")
  /\ UNCHANGED data

ReceiveTimesOut(x) ==
  /\ stream[x] = "receiving"
  /\ quiet[x] >= RecvTimeout
  /\ GoesTo(x, "pausing")
  /\ UNCHANGED data

PauseEnds(x) ==
  /\ stream[x] = "pausing"
  /\ quiet[x] >= ReconnectPause
  /\ GoesTo(x, NextPlace("connecting"))
  /\ UNCHANGED data

\* What the thread does without help from the exchange.
Proceeds(x) ==
  Connects(x) \/ ConnectFails(x) \/ ReceiveTimesOut(x) \/ PauseEnds(x)

Stream(x) == Proceeds(x) \/ Receives(x) \/ ReceiveFails(x)

----------------------------------------------------------------------------
(* The gateway: one job per exchange and symbol, all of them at once *)

FetchAllTickers ==
  /\ phase = "idle"
  /\ phase' = "fetching"
  /\ job' = [p \in Pairs |-> "begun"]
  /\ UNCHANGED <<threads, snapshot, attempts, fetch_time>>

JobGoesTo(p, place, quote) ==
  /\ job' = [job EXCEPT ![p] = place]
  /\ snapshot' = [snapshot EXCEPT ![p] = quote]
  /\ UNCHANGED <<threads, phase, attempts, fetch_time>>

\* A copy of the stream's row, made under the stream's lock.
CopyRow(p) ==
  /\ job[p] = "begun"
  /\ JobGoesTo(p, "checking", IF p[1] \in Streamed THEN data[p] ELSE NoQuote)

\* Faulty: a row is used whatever its age.
Usable_AnyAge(x, row) == row # NoQuote
Usable(x, row) == row # NoQuote /\ row.age - Ahead[x] <= WebsocketStale

CheckRow(p) ==
  /\ job[p] = "checking"
  /\ IF Usable(p[1], snapshot[p])
       THEN JobGoesTo(p, "depth", snapshot[p])
       ELSE JobGoesTo(p, "rest", NoQuote)

RestAnswers(p) ==
  /\ job[p] = "rest"
  /\ \E age \in RestAges :
       JobGoesTo(p, "depth", [source |-> "rest", age |-> age, depth |-> FALSE])

\* Faulty: a failing request is tried again for ever.
RestFails_Retries(p) ==
  /\ job[p] = "rest"
  /\ JobGoesTo(p, "begun", NoQuote)

\* An exception, or a ticker without both prices.
RestFails(p) ==
  /\ job[p] = "rest"
  /\ JobGoesTo(p, "done", NoQuote)

\* An order book that cannot be had leaves the quote without depth.
WithDepth(quote, ok) == [quote EXCEPT !.depth = ok]

FetchOrderBook(p) ==
  /\ job[p] = "depth"
  /\ \E ok \in {FALSE, EnableOrderbookDepth} : JobGoesTo(p, "done", WithDepth(snapshot[p], ok))

FetchOne(p) ==
  CopyRow(p) \/ CheckRow(p) \/ RestAnswers(p) \/ RestFails(p) \/ FetchOrderBook(p)

EndFetch ==
  /\ phase = "fetching"
  /\ \A p \in Pairs : job[p] = "done"
  /\ phase' = "scan"
  /\ UNCHANGED <<threads, job, snapshot, attempts, fetch_time>>

----------------------------------------------------------------------------
(* The scanner and the loop *)

Fresh(x, quote) == quote.age - Ahead[x] <= MaxDataAge

\* The exchanges whose quote of s takes part in the scan.
Rows(s) ==
  {x \in Exchanges : snapshot[<<x, s>>] # NoQuote /\ Fresh(x, snapshot[<<x, s>>])}

Offered(route) ==
  /\ {route[2], route[3]} \subseteq Rows(route[1])
  /\ \A leg \in DepthLegs : snapshot[<<route[leg], route[1]>>].depth

\* The next cycle uses nothing of this one.
ForgetCycle ==
  /\ phase' = "idle"
  /\ snapshot' = [p \in Pairs |-> NoQuote]
  /\ attempts' = NoAttempts
  /\ fetch_time' = 0

\* The routes taken into the cycle's attempts, in whatever order they rank.
FindOpportunities ==
  /\ phase = "scan"
  /\ \/ ForgetCycle
     \/ \E routes \in SUBSET {route \in Opportunities : Offered(route)} :
          /\ phase' = "attempt"
          /\ attempts' = [routes |-> routes, age |-> 0]
          /\ UNCHANGED <<snapshot, fetch_time>>
  /\ UNCHANGED <<threads, job>>

\* Faulty: an opportunity waits as long as it takes.
YoungEnough_Always(age) == TRUE
YoungEnough(age) == age <= MaxOpportunityAge

Execute ==
  /\ phase = "attempt"
  /\ YoungEnough(attempts.age)
  /\ \E route \in attempts.routes :
       attempts' = [attempts EXCEPT !.routes = @ \ {route}]
  /\ phase' = "execute"
  /\ UNCHANGED <<threads, job, snapshot, fetch_time>>

\* The execution failed: the next opportunity has its turn.
NextAttempt ==
  /\ phase = "execute"
  /\ phase' = "attempt"
  /\ UNCHANGED <<threads, job, snapshot, attempts, fetch_time>>

\* The attempts are over: none is left, they are too old, or one succeeded.
EndCycle ==
  /\ \/ phase = "attempt" /\ attempts.routes = {}
     \/ phase = "attempt" /\ ~ YoungEnough(attempts.age)
     \/ phase = "execute"
  /\ ForgetCycle
  /\ UNCHANGED <<threads, job>>

Close ==
  /\ phase = "idle"
  /\ phase' = "closed"
  /\ stop_event' = TRUE
  /\ UNCHANGED <<stream, quiet, data, job, snapshot, attempts, fetch_time>>

Bot ==
  \/ FetchAllTickers \/ EndFetch \/ FindOpportunities
  \/ Execute \/ NextAttempt \/ EndCycle

----------------------------------------------------------------------------

Older(age) == IF age = AgeLimit THEN AgeLimit ELSE age + 1
OlderQuote(quote) ==
  IF quote = NoQuote THEN NoQuote ELSE [quote EXCEPT !.age = Older(@)]

\* A silence is not followed beyond what a thread waits for.
StillQuiet(time) ==
  IF time >= RecvTimeout /\ time >= ReconnectPause THEN time ELSE time + 1

Tick ==
  /\ quiet' = [x \in Streamed |-> StillQuiet(quiet[x])]
  /\ data' = [p \in Streamed \X Symbols |-> OlderQuote(data[p])]
  /\ snapshot' = [p \in Pairs |-> OlderQuote(snapshot[p])]
  /\ attempts' = IF phase \in {"attempt", "execute"}
                   THEN [attempts EXCEPT !.age = Older(@)] ELSE attempts
  /\ fetch_time' = IF phase = "fetching" THEN Older(fetch_time) ELSE fetch_time
  /\ UNCHANGED <<stream, stop_event, phase, job>>

Next ==
  \/ \E x \in Streamed : Stream(x)
  \/ \E p \in Pairs : FetchOne(p)
  \/ Bot
  \/ Close
  \/ Tick

Spec == Init /\ [][Next]_vars

\* Every thread goes on, REST calls return or raise (ccxt gives them a
\* timeout) and the clock does not stand still; nothing is asked of what the
\* exchange sends over a stream, and the bot may never be stopped.
FairSpec ==
  /\ Spec
  /\ \A x \in Streamed : WF_vars(Proceeds(x))
  /\ \A p \in Pairs : WF_vars(FetchOne(p))
  /\ WF_vars(Bot)
  /\ WF_vars(Tick)

----------------------------------------------------------------------------
(* Properties *)

TypeOK ==
  /\ stream \in [Streamed -> {"connecting", "receiving", "pausing", "ended"}]
  /\ quiet \in [Streamed -> Ages]
  /\ stop_event \in BOOLEAN
  /\ data \in [Streamed \X Symbols -> Quote \cup {NoQuote}]
  /\ phase \in {"idle", "fetching", "scan", "attempt", "execute", "closed"}
  /\ job \in [Pairs -> {"begun", "checking", "rest", "depth", "done"}]
  /\ snapshot \in [Pairs -> Quote \cup {NoQuote}]
  /\ attempts \in [routes : SUBSET Opportunities, age : Ages]
  /\ fetch_time \in Ages

\* While the quotes are fetched none gets older than the limit of its source
\* and the time the whole fetch took: one slow exchange ages the quotes of all
\* the others (exchanges.py:122-133, 156-175).  A stream whose time stamps are
\* ahead of the local clock (market_ws.py:75, 168) adds that much and no more,
\* though the age the code finds may be negative.
QuoteAgesBounded ==
  \A p \in Pairs :
    phase = "fetching" /\ snapshot[p] # NoQuote /\ job[p] \in {"depth", "done"} =>
    LET atMost(limit) == snapshot[p].age <= limit + fetch_time
    IN  IF snapshot[p].source = "ws"
          THEN atMost(WebsocketStale + Ahead[p[1]])
          ELSE \E age \in RestAges : atMost(age)

\* The two age checks of different modules add up: whatever is executed rests
\* on quotes no older than the sum of both limits and the lead of the
\* exchange's clock (opportunity.py:41-43, main.py:129-132), though neither
\* check looks at the other's clock.
ExecutesOnRecentQuotes ==
  [][phase' = "execute" =>
       \A route \in attempts.routes \ attempts'.routes :
         \A x \in {route[2], route[3]} :
           snapshot[<<x, route[1]>>].age <= MaxDataAge + Ahead[x] + MaxOpportunityAge]_vars

\* A quote that cannot be had does not hold up the cycle: whatever streams, REST
\* and order books answer, and whichever of them fail, the fetch of every cycle
\* ends and the scan has its turn (exchanges.py:122-133, 218-220).
FetchEnds == phase = "fetching" ~> phase = "scan"

\* close() ends both streams, though a thread looks at stop_event only after
\* it has received a message or waited in vain (market_ws.py:30-31, 57-84).
StreamsEnd == stop_event ~> \A x \in Streamed : stream[x] = "ended"
=============================================================================

------------------------ MODULE MCOpportunityEngine ------------------------
(* Three configurations of OpportunityEngine for TLC, one per behaviour. *)
EXTENDS OpportunityEngine

CONSTANTS a, b, btc, eth

\* A row with its best prices and volumes, and an order book with the prices
\* and amounts of a purchase and a sale of the configured size.
Row(source, bid, ask, bid_volume, ask_volume, bid_depth, ask_depth, base) ==
  [present |-> TRUE, stale |-> FALSE, source |-> source, bid |-> bid, ask |-> ask,
   bid_volume |-> bid_volume, ask_volume |-> ask_volume,
   bid_depth_price |-> bid_depth, ask_depth_price |-> ask_depth,
   bid_depth_base |-> base, ask_depth_base |-> base]

Missing == [present |-> FALSE]
Cheap == Row("rest", 99, 100, 5, 6, 99, 100, 6)
Stale == [Cheap EXCEPT !.stale = TRUE]
Dear == Row("rest", 104, 105, 5, 4, 104, 105, 7)
\* A stream's row: no volumes, and here no order book either.
Streamed == Row("ws", 104, 105, 0, 0, 0, 0, 0)
\* A stream's row with its order book.
StreamedDeep == Row("ws", 107, 108, 0, 0, 106, 109, 12)
\* The order book is far worse than the best prices.
Spiky == Row("rest", 106, 107, 9, 9, 103, 110, 5)
\* Pays well over any stream's row.
High == Row("rest", 112, 113, 9, 9, 112, 113, 12)
\* Too little to trade.
Thin == Row("rest", 110, 111, 1, 2, 110, 111, 2)

\* Volumes without an order book.
Bookless == Row("rest", 110, 111, 3, 3, 0, 0, 0)

TakerSnapshots == {Cheap, Dear, Spiky, Stale}
AllSnapshots ==
  TakerSnapshots \cup {Missing, Streamed, StreamedDeep, High, Thin}

\* Rows of which some show volumes, some depth, some both and some neither.
ShallowSnapshots == {Missing, Cheap, Dear, Streamed, StreamedDeep, Bookless}

TwoListed == <<a, b>>
TwoSymbols == <<btc, eth>>

UnequalFees == (a :> 2) @@ (b :> 1)
NoFees == [x \in {a, b} |-> 0]
\* As in .env.example: losing routes pass the threshold.
Negative == -20

\* The configuration of the cfg bids on the buying side; two more ask on the
\* selling side, and take both (in two scans of a smaller market).
VARIABLE configuration

Asking ==
  INSTANCE OpportunityEngine WITH
    MakerSidePreference <- "sell", AutoThreshold <- TRUE, CostBuffer <- 0
Taking ==
  INSTANCE OpportunityEngine WITH
    ExecutionStyle <- "taker-taker", AutoThreshold <- TRUE, MinNetSpread <- 2,
    UseDynamicSlippage <- TRUE, MaxCycles <- 2

MCInit == Init /\ configuration \in {"bidding", "asking", "taking"}

MCNext ==
  /\ \/ configuration = "bidding" /\ Next
     \/ configuration = "asking" /\ Asking!Next
     \/ /\ configuration = "taking" /\ Taking!Next
        /\ \A x \in Exchanges, s \in Symbols : market'[x][s] \in TakerSnapshots
  /\ UNCHANGED configuration

MCSpec == MCInit /\ [][MCNext]_<<vars, configuration>>
=============================================================================

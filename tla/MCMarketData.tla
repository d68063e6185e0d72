--------------------------- MODULE MCMarketData ---------------------------
(* Instances of MarketData for TLC: binance has a stream, okx has none. *)
EXTENDS MarketData, TLC

CONSTANTS binance, okx, btc

BothWays == {<<btc, binance, okx>>, <<btc, okx, binance>>}

BinanceAhead == (binance :> 1) @@ (okx :> 0)
=============================================================================

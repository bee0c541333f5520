--------------------------- MODULE MCMarketStream ---------------------------
(* MarketStream with two starts, two tokens and one change of what is        *)
(* subscribed.                                                              *)
EXTENDS MarketStream

CONSTANTS t1, t2
=============================================================================

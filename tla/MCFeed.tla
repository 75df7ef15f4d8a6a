------------------------------- MODULE MCFeed -------------------------------
(* A small instance of the market feed for TLC.                            *)
EXTENDS FeedProperties, TLC

CONSTANTS k1, k2, y1, l1, l2, s1, s2, s3

(* Two timeframes of one symbol, the candles of the first twice as long.  *)
OneSymbol == [k \in Stream |-> y1]
SomeWants == {{}, {k1}, {k2}}
Durations == [k \in Stream |-> IF k = k1 THEN 2 ELSE 1]
=============================================================================

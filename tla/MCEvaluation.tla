---------------------------- MODULE MCEvaluation ----------------------------
(* A small instance of the evaluation of rules for TLC.                    *)
EXTENDS EvaluationProperties

CONSTANTS k1, k2, y1, r1, r2, r3

OneSymbol == [k \in Stream |-> y1]
OnePair == [r \in Rule |-> y1]
Durations == [k \in Stream |-> IF k = k1 THEN 1 ELSE 2]

At(k, side, v) == [name |-> "price", period |-> 1, stream |-> k, side |-> side, value |-> v]
Mean(k, n, side, v) == [name |-> "sma", period |-> n, stream |-> k, side |-> side, value |-> v]
SomeActivators == [r \in Rule |->
    CASE r = r1 -> {At(k1, "lte", 2), Mean(k2, 2, "gte", 2)}
      [] r = r2 -> {Mean(k1, 3, "lte", 2)}
      [] OTHER -> {Mean(k1, 1, "gte", 3), Mean(k2, 1, "lte", 1)}]

Rising == [t \in 0..MaxClock |-> 1 + (t \div 4)]
Waves == [t \in 0..MaxClock |-> 1 + (t % 3)]
Falling == [t \in 0..MaxClock |-> 4 - (t \div 3)]
SomeSeries == {Rising, Waves, Falling}
=============================================================================

----------------------------- MODULE CandleBook -----------------------------
(* What market-data.service.ts keeps for a stream, without its lists: the  *)
(* candles that were heard of last.                                        *)
EXTENDS Integers, FiniteSets

CONSTANTS
    Stream, Symbol, SymbolOf, MaxBuffer,
    Histories,  \* sets of candles the exchange may answer a seeding with
    Ticks       \* the ticks a stream may send

VARIABLES book, quote   \* candles of a stream; latest price of a symbol

IsNewest(c, S) == \A d \in S : d.timestamp <= c.timestamp
Kept(S) ==
    {c \in S : Cardinality({d \in S : d.timestamp > c.timestamp}) < MaxBuffer}

Init ==
    /\ book = [k \in Stream |-> {}]
    /\ quote = [y \in Symbol |-> -1]

(* Whatever was known is replaced.                                         *)
Seeded(k) == \E H \in Histories[k] :
    /\ book' = [book EXCEPT ![k] = H]
    /\ \E c \in H : IsNewest(c, H) /\ quote' = [quote EXCEPT ![SymbolOf[k]] = c.close]

(* The candle of the tick's moment is replaced, unless a newer one is      *)
(* known; the price is the tick's in any case.                             *)
Heard(k, c) ==
    /\ book' = [book EXCEPT ![k] = Kept(
           IF IsNewest(c, @) THEN {d \in @ : d.timestamp # c.timestamp} \cup {c}
                             ELSE @)]
    /\ quote' = [quote EXCEPT ![SymbolOf[k]] = c.close]

Next == \E k \in Stream : Seeded(k) \/ \E c \in Ticks[k] : Heard(k, c)

Spec == Init /\ [][Next]_<<book, quote>>
=============================================================================

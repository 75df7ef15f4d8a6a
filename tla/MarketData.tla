----------------------------- MODULE MarketData -----------------------------
(***************************************************************************)
(* src/data-provider/market-data.service.ts: a buffer of candles for every *)
(* stream (a symbol and a timeframe), seeded from the exchange's history   *)
(* and then kept up to date by the ticks of the web socket.                *)
(*                                                                         *)
(* Prices are not told apart by their value but by the moment of the       *)
(* exchange's clock they are from: close is that moment.                   *)
(***************************************************************************)
EXTENDS Integers, Sequences, SequencesExt

CONSTANTS
    Stream,         \* keys of candleBuffers, 'btcusdt:1h'
    Symbol, SymbolOf,
    Duration,       \* of a stream's candles, in ticks of the clock
    MaxBuffer       \* MAX_BUFFER_SIZE

ASSUME MarketAssumption ==
    /\ SymbolOf \in [Stream -> Symbol]
    /\ Duration \in [Stream -> Nat \ {0}]
    /\ MaxBuffer \in Nat \ {0}

VARIABLES
    buffer,     \* candleBuffers
    price       \* currentPrices

Never == -1     \* no price yet

Candle == [timestamp : Nat, close : Nat, isClosed : BOOLEAN]

InitMarket ==
    /\ buffer = [k \in Stream |-> <<>>]
    /\ price = [y \in Symbol |-> Never]

-----------------------------------------------------------------------------
(* The exchange at a moment of its clock *)

CandleAt(k, t) == t \div Duration[k]
LastTickOf(k, ts) == ts * Duration[k] + Duration[k] - 1

(* The tick a kline stream sends: parseKlinePayload.                       *)
(* Mutant: the kline's x is not looked at.                                 *)
Tick_AlwaysClosed(k, t) ==
    [timestamp |-> CandleAt(k, t), close |-> t, isClosed |-> TRUE]
Tick(k, t) ==
    [timestamp |-> CandleAt(k, t), close |-> t,
     isClosed |-> t = LastTickOf(k, CandleAt(k, t))]

(* What fetchOHLCV returns: the latest candles, the one under way included.*)
History(k, t, limit) ==
    LET last == CandleAt(k, t)
        n == IF last + 1 < limit THEN last + 1 ELSE limit IN
    [i \in 1..n |-> LET ts == last - n + i IN
        [timestamp |-> ts, isClosed |-> TRUE,
         close |-> IF ts = last THEN t ELSE LastTickOf(k, ts)]]

-----------------------------------------------------------------------------
(* seedHistoricalData, once fetchOHLCV has answered.                       *)
Seed(k, candles) ==
    /\ buffer' = [buffer EXCEPT ![k] = candles]
    /\ price' = [price EXCEPT ![SymbolOf[k]] = candles[Len(candles)].close]

Merged(b, c) ==
    IF b = <<>> \/ c.timestamp > b[Len(b)].timestamp THEN Append(b, c)
    ELSE IF c.timestamp = b[Len(b)].timestamp THEN [b EXCEPT ![Len(b)] = c]
    ELSE b

(* Mutant: the buffer is not trimmed.                                      *)
Trimmed_Not(b) == b
Trimmed(b) ==
    IF Len(b) > MaxBuffer THEN SubSeq(b, Len(b) - MaxBuffer + 1, Len(b)) ELSE b

UpdateCandle(k, c) ==
    /\ buffer' = [buffer EXCEPT ![k] = Trimmed(Merged(@, c))]
    /\ price' = [price EXCEPT ![SymbolOf[k]] = c.close]

(* Where in the buffer the closed candles are.                             *)
ClosedCandles(k) == {i \in DOMAIN buffer[k] : buffer[k][i].isClosed}
=============================================================================

--------------------------- MODULE FeedProperties ---------------------------
(* What the market feed promises to the rule engine.                       *)
EXTENDS DataProvider

(* What the variables range over.                                          *)
FeedTypeOK ==
    /\ phase \in {"down", "up", "dead"} /\ mode \in Modes
    /\ buffer \in [Stream -> Seq(Candle)]
    /\ price \in [Symbol -> Nat \cup {Never}]
    /\ socket \in [Socket -> [state : {"free", "connecting", "open", "closing"},
                              listening : BOOLEAN, streams : SUBSET Stream,
                              wire : Seq([stream : Stream, at : Nat])]]
    /\ ws \in Socket \cup {NoSocket} /\ streams \subseteq Stream
    /\ attempts \in 0..MaxAttempts /\ timers \in Nat /\ timerSet \in BOOLEAN
    /\ broken \in [drops : 0..MaxDrops, refusals : 0..MaxRefusals]
    /\ load \in [Load -> [pc : {"idle", "seeding"}, seeds : [Stream -> Int]]]
    /\ wanted \subseteq Stream /\ subs \in Nat /\ wsSub \in BOOLEAN
    /\ clock \in Nat /\ reloads \in Nat /\ seedFaults \in Nat
    /\ seen \in [Stream -> Nat \cup {Never}] /\ overlapped \in BOOLEAN

(* data-provider.service.ts:72: a reload takes the old feed down before it *)
(* builds the new one.  While reloads do not overlap, a tick can reach the *)
(* engine by one path only: one socket or one timer that will open one,    *)
(* and one subscription; and the socket carries the streams of the latest  *)
(* reload, whatever reconnections came between.                            *)
OnePath == ~overlapped =>
    /\ Cardinality(Listening) + timers <= 1
    /\ subs <= 1
    /\ \A s \in Listening : socket[s].streams = wanted

(* market-data.service.ts:115: of the candles the indicators are computed  *)
(* from, at most one does not carry its final close, whatever connections  *)
(* broke: the candle that was under way when the buffer was seeded, which  *)
(* line 58 marks as closed.                                                *)
Partial(k) == {i \in 1..Len(buffer[k]) :
    LET c == buffer[k][i] IN
    c.isClosed /\ c.close # LastTickOf(k, c.timestamp)}
AtMostOnePartial == \A k \in Stream : Cardinality(Partial(k)) <= 1

(* binance-ws.service.ts:140: the listeners of a closed socket are removed *)
(* so that while reloads do not overlap, the engine never sees a tick of a *)
(* stream older than one it has seen.                                      *)
SeenInOrder ==
    [][~overlapped' => \A k \in Stream : seen'[k] >= seen[k]]_vars

(* binance-ws.service.ts:159: once reloads and failures have ended, the    *)
(* streams of the last reload are heard again and for ever, as long as     *)
(* no run of failures was longer than the attempts to reconnect.           *)
FeedComesBack == <>[](\/ phase = "dead" \/ wanted = {} \/ overlapped
                      \/ \E s \in Connected : socket[s].streams = wanted /\ subs > 0)

(* market-data.service.ts:83: a buffer, a list that is changed in place,   *)
(* implements a book of candles: one candle for a moment, the last that    *)
(* was heard, and no more than MAX_BUFFER_SIZE of them after a tick.       *)
Book == INSTANCE CandleBook WITH
    book <- [k \in Stream |-> ToSet(buffer[k])], quote <- price,
    Histories <- [k \in Stream |-> {ToSet(History(k, t, Required)) : t \in 0..MaxClock}],
    Ticks <- [k \in Stream |-> {Tick(k, t) : t \in 0..MaxClock}]
BufferIsBook == Book!Spec
=============================================================================

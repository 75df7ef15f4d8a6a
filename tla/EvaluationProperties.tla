------------------------ MODULE EvaluationProperties ------------------------
(* What the evaluation of rules promises.                                  *)
EXTENDS RuleEvaluation

(* What the variables range over.                                          *)
EvaluationTypeOK ==
    /\ buffer \in [Stream -> Seq(Candle)] /\ price \in [Symbol -> Nat \cup {Never}]
    /\ armed \subseteq Rule /\ loading \subseteq Rule /\ wired \in BOOLEAN
    /\ seeding \subseteq StreamsOf(loading) /\ pending \subseteq streams /\ streams \subseteq Stream
    /\ course \in Series /\ clock \in 0..MaxClock
    /\ known \in [Stream -> {"no", "seeded", "heard"}] /\ heard \in [Stream -> Nat]
    /\ used \in [reloads : Nat, lost : Nat, faults : Nat]

(* What the exchange's own account of the candles says.                    *)
LastClosed(k, t) ==
    IF t = LastTickOf(k, CandleAt(k, t)) THEN CandleAt(k, t) ELSE CandleAt(k, t) - 1
TrueMean(a, last) ==
    SumFunction([ts \in (last - a.period + 1)..last |-> course[LastTickOf(a.stream, ts)]])
TrueMatch(a) ==
    IF a.name = "price" THEN Compared(a.side, course[clock], a.value)
    ELSE LET last == LastClosed(a.stream, heard[a.stream]) IN
         /\ last >= a.period - 1
         /\ Compared(a.side, TrueMean(a, last), a.value * a.period)

(* market-data.service.ts:115: after a tick, and as long as no closing     *)
(* tick was missed, the closed candles of a buffer are the exchange's last *)
(* ones, without a gap and with their final closes, whatever seedings and  *)
(* trimming came before.                                                   *)
ClosedIsThePast == \A k \in Stream : known[k] = "heard" =>
    \A i \in ClosedCandles(k) : LET c == buffer[k][i] IN
        /\ c.timestamp = LastClosed(k, heard[k])
                         - Cardinality({j \in ClosedCandles(k) : j > i})
        /\ c.close = LastTickOf(k, c.timestamp)

(* rule-engine.service.ts:172: a buffer that feeds the indicators of       *)
(* several rules holds enough closed candles for each of them, unless the  *)
(* exchange has fewer; a period as long as the buffer is never served.     *)
EnoughCandles == \A r \in armed : \A a \in Activators[r] :
    a.name = "sma" /\ wired /\ known[a.stream] = "heard" /\ a.period < MaxBuffer
        /\ LastClosed(a.stream, heard[a.stream]) >= a.period - 1
        => Cardinality(ClosedCandles(a.stream)) >= a.period

(* rule-engine.service.ts:240: on a tick a rule fires if and only if all   *)
(* its conditions are true of the exchange's prices and closed candles, as *)
(* far as its streams have been heard since they were seeded.              *)
WellFed(r) == \A a \in Activators[r] :
    a.name = "sma" => known[a.stream] = "heard" /\ a.period < MaxBuffer
FiresWhenTrue == [][\A k \in Stream : Deliver(k) =>
    \A r \in {x \in armed : SymbolOfRule[x] = SymbolOf[k] /\ WellFed(x)'} :
        r \notin armed' <=> \A a \in Activators[r] : TrueMatch(a)']_evaluationVars
=============================================================================

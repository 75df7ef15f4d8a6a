--------------------------- MODULE RuleEvaluation ---------------------------
(***************************************************************************)
(* The evaluation of rules on candles: buildSubscriptions, loadRules and   *)
(* evaluateSymbol of rule-engine.service.ts with indicator.service.ts, on  *)
(* the buffers of MarketData.  How reloads interleave with changes of      *)
(* rules is the matter of RuleEngine, how with sockets of DataProvider:    *)
(* here a reload ends before the next begins, and while it lasts no tick   *)
(* is heard.  An indicator is the mean of the last closes, as sma is.      *)
(***************************************************************************)
EXTENDS MarketData, FiniteSetsExt, Functions

CONSTANTS
    Rule,
    SymbolOfRule,   \* the pair of a rule
    Activators,     \* of a rule: [name, period, stream, side, value]
    Warmup,         \* candles asked for above an indicator's period
    MinSeed,        \* MIN_SEED_CANDLES
    Series,         \* courses the price may take: [moment -> value]
    Begin,          \* the moment the process starts
    MaxClock, MaxReloads, MaxLost, MaxSeedFaults    \* bounds

ASSUME EvaluationAssumption ==
    /\ SymbolOfRule \in [Rule -> Symbol]
    /\ Series \subseteq [0..MaxClock -> Nat]
    /\ {Warmup, MinSeed} \subseteq Nat \ {0}
    /\ {MaxClock, MaxReloads, MaxLost, MaxSeedFaults} \subseteq Nat /\ Begin \in 0..MaxClock
    /\ IsFiniteSet(Rule) /\ \A r \in Rule : IsFiniteSet(Activators[r])
    /\ \A r \in Rule : \A a \in Activators[r] :
          /\ a.name \in {"price", "sma"} /\ a.side \in {"lte", "gte"}
          /\ a.period \in Nat \ {0} /\ a.value \in Nat
          /\ a.stream \in Stream /\ SymbolOf[a.stream] = SymbolOfRule[r]

VARIABLES
    armed,      \* rulesBySymbol: the rules with active set
    wired,      \* is the engine subscribed to the market
    loading,    \* rules a reload has found active
    seeding,    \* streams whose seeding it awaits
    streams,    \* those the web socket is subscribed to
    course,     \* the price at every moment of the exchange's clock
    clock, pending,     \* the streams whose tick of this moment is on its way
    known,      \* history: is what a buffer holds the exchange's own account
    heard,      \* history: the moment it is from
    used        \* reloads, lost ticks and failed seedings so far

engineVars == <<armed, wired, loading, seeding, streams>>
evaluationVars == <<buffer, price, engineVars, course, clock, pending, known, heard, used>>

EvaluationInit ==
    /\ InitMarket
    /\ armed = {} /\ wired = FALSE /\ loading = {} /\ seeding = {} /\ streams = {}
    /\ course \in Series
    /\ clock = Begin /\ pending = {}
    /\ known = [k \in Stream |-> "no"] /\ heard = [k \in Stream |-> 0]
    /\ used = [reloads |-> 0, lost |-> 0, faults |-> 0]

-----------------------------------------------------------------------------
(* buildSubscriptions *)

StreamsOf(S) == {a.stream : a \in UNION {Activators[r] : r \in S}}

(* getRequiredCandleCount, at least MIN_SEED_CANDLES.                      *)
Needed(a) == LET n == IF a.name = "price" THEN 0 ELSE a.period + Warmup IN
             IF n < MinSeed THEN MinSeed ELSE n

(* Mutant: a rule's need replaces what another rule needs.                 *)
RequiredCandles_Replaced(S, k) ==
    Needed(CHOOSE a \in UNION {Activators[r] : r \in S} : a.stream = k)
RequiredCandles(S, k) ==
    Max({Needed(a) : a \in {b \in UNION {Activators[r] : r \in S} : b.stream = k}})

-----------------------------------------------------------------------------
(* evaluateActivator: null, for too few candles, is no match.              *)

(* Mutant: the candle under way is taken, too.                             *)
Closes_All(k) == DOMAIN buffer[k]
Closes(k) == ClosedCandles(k)

Latest(S, n) == {i \in S : Cardinality({j \in S : j >= i}) <= n}
Sum(k, S) ==
    SumFunctionOnSet([i \in DOMAIN buffer[k] |-> course[buffer[k][i].close]], S)
Compared(side, x, y) == IF side = "lte" THEN x <= y ELSE x >= y

Matched(a) ==
    IF a.name = "price"
    THEN Compared(a.side, course[price[SymbolOf[a.stream]]], a.value)
    ELSE /\ Cardinality(Closes(a.stream)) >= a.period
         /\ Compared(a.side, Sum(a.stream, Latest(Closes(a.stream), a.period)),
                     a.value * a.period)

(* evaluateSymbol: rules all of whose activators match are spent.          *)
AllMatch(r) == \A a \in Activators[r] : Matched(a)
Triggered(y) == {r \in armed : SymbolOfRule[r] = y /\ AllMatch(r)'}

-----------------------------------------------------------------------------
(* initialize and reload: the rules active in the table are S.             *)
Missed(K) == known' = [k \in Stream |->
    IF k \in K /\ clock' = LastTickOf(k, CandleAt(k, clock')) THEN "no" ELSE known[k]]

Reload(S) ==
    /\ used.reloads < MaxReloads /\ loading = {}
    /\ used' = [used EXCEPT !.reloads = @ + 1]
    /\ wired' = FALSE /\ streams' = {} /\ pending' = {}
    /\ loading' = S /\ seeding' = StreamsOf(S)
    /\ armed' = IF S = {} THEN {} ELSE armed
    /\ UNCHANGED <<buffer, price, course, clock, heard>>
    /\ Missed(pending)

SeedDone(k) ==
    /\ k \in seeding
    /\ seeding' = seeding \ {k}
    /\ Seed(k, History(k, clock, RequiredCandles(loading, k)))
    /\ heard' = [heard EXCEPT ![k] = clock]
    /\ known' = [known EXCEPT ![k] =
           IF clock = LastTickOf(k, CandleAt(k, clock)) THEN "heard" ELSE "seeded"]
    /\ UNCHANGED <<armed, wired, loading, streams, course, clock, pending, used>>

SeedFails(k) ==
    /\ k \in seeding /\ used.faults < MaxSeedFaults
    /\ seeding' = seeding \ {k}
    /\ used' = [used EXCEPT !.faults = @ + 1]
    /\ known' = [known EXCEPT ![k] = "no"]
    /\ UNCHANGED <<buffer, price, armed, wired, loading, streams, course, clock,
                   pending, heard>>

(* loadRules and wireMarketUpdates                                         *)
Wire ==
    /\ loading # {} /\ seeding = {}
    /\ armed' = loading /\ wired' = TRUE /\ loading' = {}
    /\ streams' = StreamsOf(loading)
    /\ UNCHANGED <<buffer, price, seeding, course, clock, pending, known, heard, used>>

-----------------------------------------------------------------------------
(* The streams of the last reload send their ticks.                        *)
Advance ==
    /\ clock < MaxClock /\ pending = {}
    /\ clock' = clock + 1
    /\ pending' = streams
    /\ Missed(Stream \ streams)
    /\ UNCHANGED <<buffer, price, engineVars, course, heard, used>>

Deliver(k) ==
    /\ k \in pending
    /\ pending' = pending \ {k}
    /\ UpdateCandle(k, Tick(k, clock))
    /\ UNCHANGED <<wired, loading, seeding, streams, course, clock, used>>
    /\ armed' = armed \ Triggered(SymbolOf[k])
    /\ heard' = [heard EXCEPT ![k] = clock]
    /\ known' = [known EXCEPT ![k] = IF @ = "seeded" THEN "heard" ELSE @]

Lost(k) ==
    /\ k \in pending /\ used.lost < MaxLost
    /\ pending' = pending \ {k}
    /\ used' = [used EXCEPT !.lost = @ + 1]
    /\ UNCHANGED <<buffer, price, engineVars, course, clock, heard>>
    /\ Missed({k})

EvaluationNext ==
    \/ \E S \in SUBSET Rule : Reload(S)
    \/ Wire \/ Advance
    \/ \E k \in Stream : SeedDone(k) \/ SeedFails(k) \/ Deliver(k) \/ Lost(k)

EvaluationSpec == EvaluationInit /\ [][EvaluationNext]_evaluationVars
=============================================================================

---------------------------- MODULE DataProvider ----------------------------
(***************************************************************************)
(* src/data-provider/data-provider.service.ts over the web socket and the  *)
(* candle buffers: hot reloads of the market feed, the seeding of the      *)
(* buffers, and the ticks that reach the rule engine.                      *)
(***************************************************************************)
EXTENDS MarketData, BinanceWs

CONSTANTS
    Load,               \* names for initialize and reinitialize calls
    Modes,
    Required,           \* candles a seeding asks for: requiredCandles
    Wants,              \* sets of streams that active rules may need
    MaxReloads, MaxClock, MaxWire, MaxSeedFaults    \* bounds

ASSUME ProviderAssumption ==
    /\ Modes \subseteq {"idle", "plane", "live"}
    /\ Wants \subseteq SUBSET Stream /\ Required \in Nat \ {0}
    /\ {MaxReloads, MaxClock, MaxWire, MaxSeedFaults} \subseteq Nat

VARIABLES
    phase, mode,    \* the process: "down", "up", or "dead" of an error
    load,           \* calls under way, and what each stream's seeding awaits
    wanted,         \* this.subscriptions, as a set of streams
    subs, wsSub,    \* live subscriptions to kline$; is wsSub set
    clock,          \* of the exchange
    reloads, seedFaults,
    seen,           \* history: the latest tick of a stream the engine saw
    overlapped      \* history: has a call begun before another had ended

callVars == <<load, wanted, subs, wsSub>>
marketVars == <<buffer, price>>
process == <<phase, mode>>
budget == <<reloads, seedFaults>>
history == <<seen, overlapped>>
vars == <<marketVars, wsVars, process, callVars, clock, budget, history>>

Unasked == -2   \* of a seeding: not wanted, or done with
Asked == -1     \* sent; once answered, the moment the answer is from
Idle == [pc |-> "idle", seeds |-> [k \in Stream |-> Unasked]]
NoCallGoing == \A l \in Load : load[l].pc = "idle"

InitProvider ==
    /\ load = [l \in Load |-> Idle]
    /\ wanted = {} /\ subs = 0 /\ wsSub = FALSE
Init ==
    /\ InitMarket /\ InitSocket /\ InitProvider
    /\ phase = "down" /\ mode \in Modes
    /\ clock = 0 /\ reloads = 0 /\ seedFaults = 0
    /\ seen = [k \in Stream |-> Never] /\ overlapped = FALSE

-----------------------------------------------------------------------------
(* initialize: the subscriptions are replaced, the seedings are sent.      *)
Initialize(l, keys) ==
    /\ wanted' = keys
    /\ load' = [load EXCEPT ![l] = [pc |-> "seeding",
           seeds |-> [k \in Stream |-> IF k \in keys THEN Asked ELSE Unasked]]]

(* The rule engine starts with some active rules, if any.                  *)
Start ==
    /\ phase = "down"
    /\ phase' = "up"
    /\ \E l \in Load, keys \in Wants :
          IF mode = "idle" \/ keys = {} THEN UNCHANGED callVars
          ELSE Initialize(l, keys) /\ UNCHANGED <<subs, wsSub>>
    /\ UNCHANGED <<marketVars, wsVars, mode, clock, budget, history>>

(* Mutant: teardown forgets the subscription to kline$.                    *)
Unsubscribed_Not == subs
Unsubscribed == IF wsSub THEN subs - 1 ELSE subs

(* reinitialize, called by a hot reload of the engine.                     *)
Reinitialize(l, keys) ==
    /\ phase = "up" /\ mode # "idle" /\ reloads < MaxReloads
    /\ load[l].pc = "idle"
    /\ overlapped' = (overlapped \/ ~NoCallGoing)
    /\ reloads' = reloads + 1
    /\ Disconnect
    /\ phase' = IF ClosedWhileConnecting THEN "dead" ELSE "up"
    /\ Initialize(l, keys)
    /\ subs' = Unsubscribed /\ wsSub' = FALSE
    /\ UNCHANGED <<marketVars, mode, clock, seedFaults, seen>>

(* The exchange reads its history, or fails, ...                           *)
SeedAnswered(l, k) ==
    /\ phase = "up" /\ load[l].seeds[k] = Asked
    /\ \/ load' = [load EXCEPT ![l].seeds[k] = clock] /\ UNCHANGED seedFaults
       \/ /\ seedFaults < MaxSeedFaults /\ seedFaults' = seedFaults + 1
          /\ load' = [load EXCEPT ![l].seeds[k] = Unasked]
    /\ UNCHANGED <<marketVars, wsVars, process, wanted, subs, wsSub, clock,
                   reloads, history>>

(* ... and its answer arrives: seedHistoricalData goes on.                 *)
SeedDone(l, k) ==
    /\ phase = "up" /\ load[l].seeds[k] >= 0
    /\ Seed(k, History(k, load[l].seeds[k], Required))
    /\ load' = [load EXCEPT ![l].seeds[k] = Unasked]
    /\ UNCHANGED <<wsVars, process, wanted, subs, wsSub, clock, budget, history>>

(* All seedings are settled: connectWebSocket, with the subscriptions as   *)
(* they are by then.                                                       *)
Finish(l) ==
    /\ phase = "up" /\ load[l].pc = "seeding"
    /\ \A k \in Stream : load[l].seeds[k] = Unasked
    /\ load' = [load EXCEPT ![l] = Idle]
    /\ IF wanted = {} THEN UNCHANGED <<wsVars, subs, wsSub>>
       ELSE Subscribe(wanted) /\ subs' = subs + 1 /\ wsSub' = TRUE
    /\ UNCHANGED <<marketVars, process, wanted, clock, budget, history>>

-----------------------------------------------------------------------------
(* The exchange's clock goes on, and one of the streams has a tick for the *)
(* open sockets that carry it.                                             *)
Carriers(k) ==
    {s \in Socket : socket[s].state = "open" /\ k \in socket[s].streams}
Kline(k) ==
    /\ phase = "up" /\ clock < MaxClock
    /\ \A s \in Carriers(k) : Len(socket[s].wire) < MaxWire
    /\ clock' = clock + 1
    /\ socket' = [s \in Socket |->
           IF s \in Carriers(k)
           THEN [socket[s] EXCEPT !.wire = Append(@, [stream |-> k, at |-> clock])]
           ELSE socket[s]]
    /\ UNCHANGED <<marketVars, ws, streams, attempts, timers, timerSet, broken,
                   process, callVars, budget, history>>

(* message: every subscription to kline$ updates the candle and hands the  *)
(* tick on to the rule engine and the web clients.                         *)
Message(s) ==
    /\ phase = "up" /\ socket[s].wire # <<>>
    /\ socket' = [socket EXCEPT ![s].wire = Tail(@)]
    /\ LET m == Head(socket[s].wire) IN
       IF socket[s].listening /\ subs > 0
       THEN /\ UpdateCandle(m.stream, Tick(m.stream, m.at))
            /\ seen' = [seen EXCEPT ![m.stream] = m.at]
       ELSE UNCHANGED <<marketVars, seen>>
    /\ UNCHANGED <<ws, streams, attempts, timers, timerSet, broken, process,
                   callVars, clock, budget, overlapped>>

SocketEvent(s) == Opens(s) \/ Drops(s) \/ Refused(s) \/ ClosingEnds(s)
Network ==
    /\ phase = "up"
    /\ \/ \E s \in Socket : SocketEvent(s)
       \/ TimerFires
    /\ UNCHANGED <<marketVars, process, callVars, clock, budget, history>>

Next ==
    \/ Start \/ Network
    \/ \E k \in Stream : Kline(k)
    \/ \E l \in Load : \/ \E keys \in Wants : Reinitialize(l, keys)
                       \/ \E k \in Stream : SeedAnswered(l, k) \/ SeedDone(l, k)
                       \/ Finish(l)
    \/ \E s \in Socket : Message(s)

Spec == Init /\ [][Next]_vars

(* The process starts, the exchange answers, connections open or fail, and *)
(* timers run out.                                                         *)
Quietly == UNCHANGED <<marketVars, process, callVars, clock, budget, history>>
Fairness ==
    /\ WF_vars(Start)
    /\ \A l \in Load : /\ WF_vars(Finish(l))
                       /\ \A k \in Stream : /\ WF_vars(SeedAnswered(l, k))
                                            /\ WF_vars(SeedDone(l, k))
    /\ \A s \in Socket : WF_vars(phase = "up" /\ Opens(s) /\ Quietly)
    /\ WF_vars(phase = "up" /\ TimerFires /\ Quietly)
FairSpec == Spec /\ Fairness
=============================================================================

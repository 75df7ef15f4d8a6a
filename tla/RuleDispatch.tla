---------------------------- MODULE RuleDispatch ----------------------------
(***************************************************************************)
(* From rules to orders: the engine of RuleEngine, the event bus of        *)
(* event.service.ts, and the placement of order.service.ts, which share    *)
(* one process, one database and its crashes.                              *)
(*                                                                         *)
(* The bus calls its subscribers at once, so that an order action is the   *)
(* call of placeOrder it leads to.  What becomes of an order once its row  *)
(* is written is the matter of OrderService: here it is active until it    *)
(* has ended.  Failing calls are the matter of RuleEngine and OrderService. *)
(***************************************************************************)
EXTENDS RuleEngine, FiniteSets

CONSTANTS
    ActionsOf,      \* a rule's actions on rules and orders, in their order
    MaxCandle       \* bound on the candles that begin

IsRuleActivation(a) == a.type \in {"activate", "deactivate"}
ASSUME DispatchAssumption ==
    /\ ActionsOf \in [Rule -> Seq([type : {"activate", "deactivate"}, rule : Rule]
                                 \cup [type : {"buy", "sell"}])]
    /\ ActivationsOf = [r \in Rule |-> SelectSeq(ActionsOf[r], IsRuleActivation)]
    /\ MaxCandle \in Nat

VARIABLES
    candle,     \* timestamp of the market's candle under way
    orderRows,  \* table orders: is a row absent, active or ended
    tracked     \* uids of OrderService.orders

orderVars == <<candle, orderRows, tracked>>
allVars == <<vars, orderVars>>

(* An order's actionId is its rule and its side; its uid has the candle,   *)
(* too.                                                                    *)
ActionId == Rule \X {"buy", "sell"}
Uid == ActionId \X (0..MaxCandle)
ActiveRowsOf(a) == {u \in Uid : u[1] = a /\ orderRows[u] = "active"}

DispatchInit ==
    /\ Init
    /\ candle = 0 /\ tracked = {}
    /\ orderRows = [u \in Uid |-> "absent"]

-----------------------------------------------------------------------------
(* dispatchActions, emitOrderAction, and placeOrder up to its first await. *)
(* Outside live mode placeOrder sends no call, and only actions on rules   *)
(* do.                                                                     *)
Lookup(u) == [op |-> "lookup", uid |-> u]
Insert(u) == [op |-> "insert", uid |-> u]

CallOf(r, a) ==
    IF IsRuleActivation(a) THEN Activation(a) ELSE Lookup(<<<<r, a.type>>, candle>>)
DispatchActions(r) ==
    IF mode = "live" THEN [j \in DOMAIN ActionsOf[r] |-> CallOf(r, ActionsOf[r][j])]
                     ELSE ActionCalls(r)

(* evaluateSymbol.  Mutant: the deactivation is not persisted.             *)
CallsOfFiring_NotPersisted(r) == DispatchActions(r)
CallsOfFiring(r) == <<Set(r, FALSE, FALSE)>> \o DispatchActions(r)

TriggerRule(r) ==
    /\ Trigger(r, CallsOfFiring(r))
    /\ UNCHANGED orderVars

-----------------------------------------------------------------------------
(* placeOrder goes on: findActiveByActionId has answered.  Mutants: the    *)
(* table is not asked; orders that have ended count, too.                  *)
HasActiveOrder_Unasked(a) == FALSE
HasActiveOrder_Ended(a) == \E u \in Uid : u[1] = a /\ orderRows[u] # "absent"
HasActiveOrder(a) == ActiveRowsOf(a) # {}

LookupAnswered(i) ==
    /\ calls[i].op = "lookup"
    /\ LET u == calls[i].uid rest == RemoveAt(calls, i) IN
       IF HasActiveOrder(u[1]) \/ u \in tracked
       THEN calls' = rest /\ UNCHANGED tracked
       ELSE calls' = Append(rest, Insert(u)) /\ tracked' = tracked \cup {u}
    /\ UNCHANGED <<process, rows, requests, timer, engine, due, candle, orderRows>>

InsertDone(i) ==
    /\ calls[i].op = "insert"
    /\ orderRows' = [orderRows EXCEPT ![calls[i].uid] = "active"]
    /\ calls' = RemoveAt(calls, i)
    /\ UNCHANGED <<process, rows, requests, timer, engine, due, candle, tracked>>

(* An order comes to its end: its row says so, and it leaves the memory.   *)
OrderEnds(u) ==
    /\ phase = "up"
    /\ u \in tracked /\ orderRows[u] = "active"
    /\ orderRows' = [orderRows EXCEPT ![u] = "ended"]
    /\ tracked' = tracked \ {u}
    /\ UNCHANGED <<vars, candle>>

NextCandle ==
    /\ candle < MaxCandle /\ candle' = candle + 1
    /\ UNCHANGED <<vars, orderRows, tracked>>

(* OrderService.onModuleInit comes before the engine's.                    *)
StartAll ==
    /\ Start
    /\ tracked' = {u \in Uid : orderRows[u] = "active"}
    /\ UNCHANGED <<candle, orderRows>>
CrashAll == Crash /\ tracked' = {} /\ UNCHANGED <<candle, orderRows>>

-----------------------------------------------------------------------------
OrderAnswer(i) == MayAnswer(i) /\ (LookupAnswered(i) \/ InsertDone(i))
EngineStep ==
    /\ \/ TimerFires
       \/ \E l \in Load : Seeded(l)
       \/ \E q \in Request, r \in Rule : Ask(q, r)
       \/ \E i \in 1..Len(calls) : Answer(i)
    /\ UNCHANGED orderVars

DispatchNext ==
    \/ EngineStep \/ StartAll \/ CrashAll \/ NextCandle
    \/ \E r \in Rule : TriggerRule(r)
    \/ \E u \in Uid : OrderEnds(u)
    \/ \E i \in 1..Len(calls) : OrderAnswer(i)

AnswerAny ==
    \E i \in 1..Len(calls) : OrderAnswer(i) \/ (Answer(i) /\ UNCHANGED orderVars)
(* The database and the exchange answer, timers run out, and a process     *)
(* that is down is started again.                                          *)
DispatchSpec ==
    /\ DispatchInit /\ [][DispatchNext]_allVars
    /\ WF_allVars(StartAll) /\ WF_allVars(TimerFires /\ UNCHANGED orderVars)
    /\ WF_allVars(AnswerAny)
    /\ \A l \in Load : WF_allVars(Seeded(l) /\ UNCHANGED orderVars)
=============================================================================

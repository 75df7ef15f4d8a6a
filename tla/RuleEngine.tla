----------------------------- MODULE RuleEngine -----------------------------
(***************************************************************************)
(* src/rule-engine/rule-engine.service.ts with src/rule and the rules API: *)
(* the table of rules, the engine's copy of the active ones, the debounced *)
(* hot reload that refreshes the copy, and the writes that the engine and  *)
(* the API send to the table.                                              *)
(*                                                                         *)
(* A database call is sent by the code that awaits it and takes effect     *)
(* later; calls holds those that have been sent.  An action that answers a *)
(* call is its effect on the table and what the awaiting code then does.   *)
(* Whether a rule's activators match a tick is left to chance.             *)
(***************************************************************************)
EXTENDS Integers, Sequences, SequencesExt

CONSTANTS
    Rule,
    ActivationsOf,      \* a rule's actions on rules, in their order
    Request, Ops,       \* REST requests, and what they may ask for
    Load,               \* names for loads of the rules under way
    Modes,              \* values of MODE the process may be started with
    OverlapAllowed,     \* FALSE: a reload ends before the next one begins
    InOrder,            \* TRUE: database calls take effect as they are sent
    MaxCalls,           \* bound on calls under way when a rule fires
    MaxCrashes, MaxDbFaults     \* bounds on faults

ASSUME RuleAssumption ==
    /\ ActivationsOf \in [Rule -> Seq([type : {"activate", "deactivate"}, rule : Rule])]
    /\ Ops \subseteq {"create", "edit", "activate", "deactivate", "delete"}
    /\ Modes \subseteq {"idle", "plane", "live"}
    /\ OverlapAllowed \in BOOLEAN /\ InOrder \in BOOLEAN
    /\ MaxCalls \in Nat /\ MaxCrashes \in Nat /\ MaxDbFaults \in Nat

VARIABLES
    phase, mode,    \* of the process: "down", "starting" or "up"
    rows,           \* table rules: is a rule absent, off or on (active)
    calls,          \* database calls sent, oldest first
    requests,       \* REST requests not yet made
    timer,          \* is the debounce timer of onRulesChanged$ running
    loads,          \* initialize and reload calls under way
    cache,          \* rulesBySymbol: absent, armed (active) or spent
    subs, wired,    \* live market subscriptions; is marketSub set
    faults,
    due             \* history: rules activated since they last fired

vars == <<phase, mode, rows, calls, requests, timer, loads, cache, subs, wired,
          faults, due>>
process == <<phase, mode, faults>>
engine == <<loads, cache, subs, wired>>

-----------------------------------------------------------------------------
Ready == [pc |-> "idle", rules |-> {}]
State(on) == IF on THEN "on" ELSE "off"
Present(r) == rows[r] # "absent"
ActiveRules == {r \in Rule : rows[r] = "on"}

(* Calls.  asked marks a write whose sender wants the rule active.         *)
Set(r, on, asked) == [op |-> "set", rule |-> r, on |-> on, asked |-> asked]
Save(r, on) == [op |-> "save", rule |-> r, on |-> on, asked |-> on]
Delete(r) == [op |-> "delete", rule |-> r]
Get(r, op) == [op |-> "get", rule |-> r, then |-> op]
Find(l) == [op |-> "find", load |-> l]

IsWrite(c) == c.op \in {"set", "save", "delete"}
MayAnswer(i) == InOrder => i = 1

Init ==
    /\ phase = "down" /\ mode \in Modes
    /\ rows \in [Rule -> {"absent", "off", "on"}]
    /\ calls = <<>> /\ requests = Request
    /\ timer = FALSE
    /\ loads = [l \in Load |-> Ready]
    /\ cache = [r \in Rule |-> "absent"]
    /\ subs = 0 /\ wired = FALSE
    /\ faults = [crash |-> 0, db |-> 0]
    /\ due = ActiveRules

-----------------------------------------------------------------------------
(* Loading rules *)

(* onModuleInit: initialize sends its query before the API listens.        *)
Start ==
    /\ phase = "down"
    /\ mode' \in Modes
    /\ IF mode' = "idle"
       THEN phase' = "up" /\ UNCHANGED <<calls, loads>>
       ELSE \E l \in Load : /\ phase' = "starting"
                            /\ loads' = [loads EXCEPT ![l].pc = "read"]
                            /\ calls' = Append(calls, Find(l))
    /\ UNCHANGED <<rows, requests, timer, cache, subs, wired, faults, due>>

(* Mutant: the old subscription is kept.                                   *)
Unwired_Not == subs
Unwired == IF wired THEN subs - 1 ELSE subs

NoLoadGoing == \A l \in Load : loads[l].pc = "idle"

(* The debounce timer runs out, and reload is called.                      *)
TimerFires ==
    /\ phase = "up" /\ timer
    /\ timer' = FALSE
    /\ IF mode = "idle"
       THEN UNCHANGED <<calls, loads, subs, wired>>
       ELSE \E l \in Load :
              /\ loads[l].pc = "idle" /\ (OverlapAllowed \/ NoLoadGoing)
              /\ subs' = Unwired /\ wired' = FALSE
              /\ loads' = [loads EXCEPT ![l].pc = "read"]
              /\ calls' = Append(calls, Find(l))
    /\ UNCHANGED <<process, rows, requests, cache, due>>

(* findActive answers.  With no active rule the cache is emptied, but by   *)
(* initialize, which leaves it as it was: empty.                           *)
FindAnswered(i) ==
    /\ calls[i].op = "find"
    /\ LET l == calls[i].load IN
       IF ActiveRules = {}
       THEN /\ loads' = [loads EXCEPT ![l] = Ready]
            /\ cache' = [r \in Rule |-> "absent"]
            /\ phase' = "up"
       ELSE /\ loads' = [loads EXCEPT ![l] = [pc |-> "seed", rules |-> ActiveRules]]
            /\ UNCHANGED <<cache, phase>>
    /\ calls' = RemoveAt(calls, i)
    /\ UNCHANGED <<mode, rows, requests, timer, subs, wired, faults, due>>

(* The data provider has seeded its candles and connected: loadRules and   *)
(* wireMarketUpdates.                                                      *)
Loaded(rules) == [r \in Rule |-> IF r \in rules THEN "armed" ELSE "absent"]

Seeded(l) ==
    /\ loads[l].pc = "seed"
    /\ cache' = Loaded(loads[l].rules)
    /\ subs' = subs + 1 /\ wired' = TRUE
    /\ loads' = [loads EXCEPT ![l] = Ready]
    /\ phase' = "up"
    /\ UNCHANGED <<mode, rows, calls, requests, timer, faults, due>>

-----------------------------------------------------------------------------
(* Evaluating rules *)

Activation(a) == Set(a.rule, a.type = "activate", a.type = "activate")
ActionCalls(r) ==
    [j \in 1..Len(ActivationsOf[r]) |-> Activation(ActivationsOf[r][j])]

FireCalls(r) == <<Set(r, FALSE, FALSE)>> \o ActionCalls(r)

(* A market update matches all activators of an active rule in the cache:  *)
(* evaluateSymbol, dispatchActions and handleRuleActivation.  An update    *)
(* that matches several rules is several of these in a row.  The calls     *)
(* that order actions lead to are the matter of RuleDispatch.              *)
Trigger(r, sent) ==
    /\ phase = "up" /\ mode # "idle" /\ subs > 0
    /\ cache[r] = "armed"
    /\ Len(calls) < MaxCalls
    /\ cache' = [cache EXCEPT ![r] = "spent"]
    /\ calls' = calls \o sent
    /\ due' = due \ {r}
    /\ UNCHANGED <<process, rows, requests, timer, loads, subs, wired>>
Fire(r) == Trigger(r, FireCalls(r))

-----------------------------------------------------------------------------
(* The REST API, and writes to the table *)

(* A request arrives: create saves at once, the others read first.         *)
Ask(q, r) ==
    /\ phase = "up" /\ q \in requests
    /\ requests' = requests \ {q}
    /\ \E op \in Ops :
          calls' \in IF op = "create"
                     THEN {Append(calls, Save(r, on)) : on \in BOOLEAN}
                     ELSE {Append(calls, Get(r, op))}
    /\ UNCHANGED <<process, rows, timer, engine, due>>

(* getRule answers: nothing to do for a rule that is absent; otherwise the *)
(* row as it was read is written back, with the fields the request sets.   *)
Follow(r, op) ==
    CASE op = "activate" -> Set(r, TRUE, TRUE)
      [] op = "deactivate" -> Set(r, FALSE, FALSE)
      [] op = "edit" -> Set(r, rows[r] = "on", FALSE)
      [] op = "delete" -> Delete(r)

GetAnswered(i) ==
    /\ calls[i].op = "get"
    /\ LET c == calls[i] rest == RemoveAt(calls, i) IN
       calls' = IF Present(c.rule) THEN Append(rest, Follow(c.rule, c.then))
                                   ELSE rest
    /\ UNCHANGED <<process, rows, requests, timer, engine, due>>

Write(c) ==
    CASE c.op = "save" -> [rows EXCEPT ![c.rule] = State(c.on)]
      [] c.op = "delete" -> [rows EXCEPT ![c.rule] = "absent"]
      [] c.op = "set" -> [rows EXCEPT ![c.rule] =
                             IF @ = "absent" THEN @ ELSE State(c.on)]

(* Mutants: one of the three forgets notifyRulesChanged.                   *)
Notifies_NotUpdate(c) == c.op \in {"save", "delete"}
Notifies_NotSave(c) == c.op \in {"set", "delete"}
Notifies(c) == c.op \in {"set", "save", "delete"}

(* saveRule, updateRule and deleteRule: the write, then the notification,  *)
(* which starts the debounce timer anew.                                   *)
WriteDone(i) ==
    /\ IsWrite(calls[i])
    /\ LET c == calls[i] IN
       /\ rows' = Write(c)
       /\ timer' = (timer \/ Notifies(c))
       /\ due' = IF rows'[c.rule] = "on" /\ c.asked THEN due \cup {c.rule} ELSE due
    /\ calls' = RemoveAt(calls, i)
    /\ UNCHANGED <<process, requests, engine>>

-----------------------------------------------------------------------------
(* A database call fails: an engine that was loading rules gives up with   *)
(* its subscription ended; every other caller logs or returns the error.   *)
CallFails(i) ==
    /\ faults.db < MaxDbFaults
    /\ faults' = [faults EXCEPT !.db = @ + 1]
    /\ calls' = RemoveAt(calls, i)
    /\ IF calls[i].op = "find"
       THEN /\ loads' = [loads EXCEPT ![calls[i].load] = Ready]
            /\ phase' = "up"
       ELSE UNCHANGED <<loads, phase>>
    /\ UNCHANGED <<mode, rows, requests, timer, cache, subs, wired, due>>

Crash ==
    /\ phase # "down" /\ faults.crash < MaxCrashes
    /\ faults' = [faults EXCEPT !.crash = @ + 1]
    /\ phase' = "down"
    /\ calls' = <<>> /\ timer' = FALSE
    /\ loads' = [l \in Load |-> Ready]
    /\ cache' = [r \in Rule |-> "absent"]
    /\ subs' = 0 /\ wired' = FALSE
    /\ UNCHANGED <<mode, rows, requests, due>>

-----------------------------------------------------------------------------
Answer(i) == MayAnswer(i) /\ (FindAnswered(i) \/ GetAnswered(i) \/ WriteDone(i))

Next ==
    \/ Start \/ TimerFires \/ Crash
    \/ \E l \in Load : Seeded(l)
    \/ \E r \in Rule : Fire(r)
    \/ \E q \in Request, r \in Rule : Ask(q, r)
    \/ \E i \in 1..Len(calls) : Answer(i) \/ (MayAnswer(i) /\ CallFails(i))

Spec == Init /\ [][Next]_vars
=============================================================================

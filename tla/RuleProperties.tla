--------------------------- MODULE RuleProperties ---------------------------
(* What the rule engine promises, over the states of RuleEngine.           *)
EXTENDS RuleEngine

LoadState == [pc : {"idle", "read", "seed"}, rules : SUBSET Rule]
CallState == [op : {"set", "save"}, rule : Rule, on : BOOLEAN, asked : BOOLEAN]
        \cup [op : {"delete"}, rule : Rule]
        \cup [op : {"get"}, rule : Rule, then : Ops \ {"create"}]
        \cup [op : {"find"}, load : Load]

(* What the variables range over.                                          *)
TypeOK ==
    /\ phase \in {"down", "starting", "up"} /\ mode \in Modes
    /\ rows \in [Rule -> {"absent", "off", "on"}]
    /\ calls \in Seq(CallState)
    /\ requests \subseteq Request /\ timer \in BOOLEAN
    /\ loads \in [Load -> LoadState]
    /\ cache \in [Rule -> {"absent", "armed", "spent"}]
    /\ subs \in Nat /\ wired \in BOOLEAN
    /\ faults \in [crash : Nat, db : Nat]
    /\ due \subseteq Rule

(* Nothing is under way that could still change the table or the cache.    *)
Quiet == /\ phase = "up" /\ mode # "idle"
         /\ calls = <<>> /\ ~timer /\ NoLoadGoing

(* rule-engine.service.ts:125: when nothing is under way and no call has   *)
(* failed, the engine evaluates exactly the rules that are active in the   *)
(* table, and listens to the market once, or not at all if none is active: *)
(* the reloads miss no change and leave no old subscription behind.        *)
QuietEngineIsTable ==
    Quiet /\ faults.db = 0 =>
        /\ \A r \in Rule : cache[r] = "armed" <=> rows[r] = "on"
        /\ subs = IF ActiveRules = {} THEN 0 ELSE 1

(* Whatever calls have failed, once nothing is under way an engine that    *)
(* listens evaluates active rules only: a rule that was deactivated or     *)
(* deleted cannot go on placing orders.                                    *)
EvaluatesOnlyActive ==
    Quiet /\ subs > 0 => \A r \in Rule : cache[r] = "armed" => rows[r] = "on"

(* A rule fires once per activation: between two firings somebody, a user  *)
(* or an action of a rule, has asked for it to be active.  (A crash may    *)
(* lose the deactivation of a rule that has fired.)                        *)
Fires(r) == cache[r] = "armed" /\ cache'[r] = "spent"
FiresOnlyWhenDue ==
    [][\A r \in Rule : Fires(r) => r \in due \/ faults.crash > 0]_vars

(* An active rule is picked up: in the end it is evaluated, or no longer   *)
(* active.                                                                 *)
PickedUp ==
    \A r \in Rule :
        rows[r] = "on" ~> rows[r] # "on" \/ (cache[r] = "armed" /\ subs > 0)

=============================================================================

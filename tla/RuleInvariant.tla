---------------------------- MODULE RuleInvariant ----------------------------
(***************************************************************************)
(* Why the rule engine's copy of the rules agrees with the table.          *)
(*                                                                         *)
(* A change of the table always leaves the debounce timer running, and the *)
(* timer stops only when a load begins that will read the table anew.  So  *)
(* while no timer runs and no load waits for its answer, what was read     *)
(* last is what the table says, but for rules that have fired and whose    *)
(* deactivation is still to be written.                                    *)
(***************************************************************************)
EXTENDS RuleProperties

Going == {l \in Load : loads[l].pc # "idle"}

(* Loads do not overlap, and the ones that read have sent one query each.  *)
OneLoad ==
    /\ \A k, l \in Going : k = l
    /\ \A l \in Load : loads[l].pc = "seed" => loads[l].rules # {}
    /\ phase = "starting" => Going # {}
    /\ mode = "idle" => Going = {}
    /\ phase = "down" => Going = {} /\ calls = <<>> /\ ~timer

Queries(s) == {i \in DOMAIN s : s[i].op = "find"}
AtMostOneQuery(s) == \A i, j \in Queries(s) : i = j
OneQuery ==
    /\ AtMostOneQuery(calls)
    /\ \A i \in Queries(calls) : loads[calls[i].load].pc = "read"

(* There is a subscription if, and only if, marketSub refers to one, and   *)
(* none while rules are loaded.                                            *)
SubscribedOnce ==
    /\ subs = IF wired THEN 1 ELSE 0
    /\ wired => Going = {} /\ phase = "up"

(* No change was made since the table was read.                            *)
Fresh == ~timer /\ phase = "up" /\ mode # "idle"

SeedsTable ==
    ~timer => \A l \in Load : loads[l].pc = "seed" => loads[l].rules = ActiveRules

HeldIsActive ==
    Fresh /\ Going = {} /\ wired => \A r \in Rule : cache[r] = "armed" => rows[r] = "on"

Deactivating == \E i \in DOMAIN calls : IsWrite(calls[i])
ActiveIsHeld ==
    Fresh /\ Going = {} /\ faults.db = 0 =>
        /\ wired <=> ActiveRules # {}
        /\ \A r \in Rule : rows[r] = "on" => cache[r] = "armed" \/ Deactivating
        /\ \A r \in Rule : cache[r] = "armed" => rows[r] = "on"

IInv ==
    /\ TypeOK
    /\ OneLoad /\ OneQuery /\ SubscribedOnce
    /\ SeedsTable /\ HeldIsActive /\ ActiveIsHeld

-----------------------------------------------------------------------------
(* Why a rule fires once per activation, if calls take effect in order,    *)
(* none fails, and no edit writes back what it has read: a rule that has   *)
(* fired and is still active in the table is about to be deactivated, and  *)
(* any query will be answered after that.                                  *)

Asks(c) == c.op \in {"set", "save"} /\ c.on => c.asked
AllAsk(s) == \A i \in DOMAIN s : Asks(s[i])
Persisted(s, r) ==
    \E i \in DOMAIN s : s[i] = Set(r, FALSE, FALSE) /\ \A j \in Queries(s) : i < j

ActiveIsAsked == AllAsk(calls)
FiredIsPersisted == \A r \in Rule : rows[r] = "on" /\ r \notin due => Persisted(calls, r)
SeedsDue == \A l \in Load : loads[l].pc = "seed" => loads[l].rules \subseteq due
HeldDue == \A r \in Rule : cache[r] = "armed" => r \in due

Due == ActiveIsAsked /\ FiredIsPersisted /\ SeedsDue /\ HeldDue
DueInv == faults.crash = 0 => Due
=============================================================================

------------------------- MODULE DispatchProperties -------------------------
(* What rules and orders promise together.                                 *)
EXTENDS RuleDispatch, RuleProperties

(* rule-engine.service.ts:260, order.service.ts:85: however often a rule   *)
(* fires, because users and rules activate it again or a crash lost its    *)
(* deactivation, it has at most one order of a side in the works, as long  *)
(* as the database serves the process's calls in order and no reload       *)
(* begins before the last has ended.                                       *)
InTheWorks(a) == ActiveRowsOf(a) \cup {u \in tracked : u[1] = a}
OneActiveOrder == \A a \in ActionId : Cardinality(InTheWorks(a)) <= 1

(* order.service.ts:83: an order action in live mode is never dropped for  *)
(* an order that has ended: in the end its order, or an earlier one of the *)
(* same action, is active, unless the process ends first.                  *)
Asked(a) == \E i \in DOMAIN calls : calls[i].op = "lookup" /\ calls[i].uid[1] = a
OrderFollows ==
    \A a \in ActionId : Asked(a) ~> (ActiveRowsOf(a) # {} \/ phase # "up")
=============================================================================

--------------------------- MODULE MCRuleDispatch ---------------------------
(* A small instance of RuleDispatch for TLC: a rule that buys and activates *)
(* another, which deactivates the first.                                   *)
EXTENDS DispatchProperties, TLC

CONSTANTS r1, r2, q1, q2, l1

Handover == [r \in Rule |->
    IF r = r1 THEN <<[type |-> "buy"], [type |-> "activate", rule |-> r2]>>
    ELSE <<[type |-> "deactivate", rule |-> r1]>>]
Activations == [r \in Rule |-> SelectSeq(Handover[r], IsRuleActivation)]
=============================================================================

---------------------------- MODULE MCRuleEngine ----------------------------
(* Small instances of RuleEngine for TLC. *)
EXTENDS RuleProperties, TLC

CONSTANTS r1, r2, q1, q2, q3, l1, l2

(* A rule that activates another, which deactivates it.                    *)
On(r) == [type |-> "activate", rule |-> r]
Off(r) == [type |-> "deactivate", rule |-> r]
Handover == [r \in Rule |-> IF r = r1 THEN <<On(r2)>> ELSE <<Off(r1)>>]
Symmetry == Permutations(Request) \cup Permutations(Load)
=============================================================================

----------------------------- MODULE MCRulesView -----------------------------
(* A small instance of the rules page for TLC.                             *)
EXTENDS RulesViewProperties, TLC

CONSTANTS u1, u2, q1, q2
=============================================================================

------------------------------ MODULE MCReport ------------------------------
(* A small instance of the account and its report for TLC.                 *)
EXTENDS ReportProperties, TLC

CONSTANTS o1, o2, o3

SomeQuantities == {[type |-> "percent", value |-> 50],
                   [type |-> "percent", value |-> 100],
                   [type |-> "fixed", value |-> 2]}
SomeFunds == [quote |-> 6, base |-> 0]
Symmetry == Permutations(Id)
=============================================================================

---------------------------- MODULE MCOrdersView ----------------------------
(* A small instance of the pages of orders for TLC.                        *)
EXTENDS OrdersViewProperties
CONSTANTS c1, c2
=============================================================================

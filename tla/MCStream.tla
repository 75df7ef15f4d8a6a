------------------------------ MODULE MCStream ------------------------------
(* A small instance of a browser tab and the gateway for TLC.              *)
EXTENDS StreamProperties, TLC

CONSTANTS c1, c2
=============================================================================

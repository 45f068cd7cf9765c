------------------------------- MODULE MCPayout -------------------------------
(* Model-checking instance of Payout: the constants are in the cfg files.   *)
EXTENDS Payout, TLC

CONSTANTS a1, a2, k1, cycle
=============================================================================

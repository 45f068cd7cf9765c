---------------------------- MODULE MCCoinPurchase ----------------------------
(* Model-checking instance of CoinPurchase.                                 *)
EXTENDS CoinPurchase

CONSTANTS client, d1, d2
=============================================================================

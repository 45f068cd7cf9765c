---------------------------- MODULE MCShopOrders ----------------------------
(* Two of the three sessions can each take the last unit, the third is a   *)
(* cart of two lines with a unit each; the event of one is delivered twice.*)
EXTENDS ShopOrders, TLC

CONSTANTS s1, s2, s3

MCQty == (s1 :> 1) @@ (s2 :> 2) @@ (s3 :> 1)
MCLargest == [s \in {s1, s2, s3} |-> 1]
MCTries == (s1 :> 2) @@ (s2 :> 1) @@ (s3 :> 1)
=============================================================================

------------------------------- MODULE MCAuction -------------------------------
(* Model-checking instance of Auction.                                      *)
EXTENDS Auction, TLC

CONSTANTS b1, b2, c1, c2, c3

(* Two bids and a third request; every kind, and every pair of kinds.       *)
MCHandles == (c1 :> {"http"}) @@ (c2 :> {"ws", "end"}) @@ (c3 :> {"view", "end"})

(* Bidders are interchangeable, and so are enforcers: only safety is checked. *)
Symmetry == Permutations(Bidders) \cup Permutations(Enforcers)
=============================================================================

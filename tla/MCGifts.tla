------------------------------ MODULE MCGifts -------------------------------
(* One gift, and two admins who reverse it.                                *)
EXTENDS Gifts, TLC

CONSTANTS g1, r1, r2

MCStart == ("sender" :> 3) @@ ("receiver" :> 2) @@ ("platform" :> 1)

Interchangeable == Permutations({r1, r2})
=============================================================================

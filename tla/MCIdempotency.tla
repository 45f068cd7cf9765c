---------------------------- MODULE MCIdempotency ----------------------------
(* Model-checking instance of Idempotency: calls are interchangeable.       *)
EXTENDS Idempotency, TLC

CONSTANTS c1, c2, c3

Symmetry == Permutations(Calls)
=============================================================================

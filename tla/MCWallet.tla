------------------------------- MODULE MCWallet -------------------------------
(* Model-checking instance of Wallet: requests are interchangeable.         *)
EXTENDS Wallet, TLC

CONSTANTS p1, p2, p3, u1

Symmetry == Permutations(Procs)
=============================================================================

---------------------------- MODULE MCCallSession ---------------------------
(* Calls of one kind are interchangeable.                                  *)
EXTENDS CallSession, TLC

Interchangeable == Permutations(Ends) \cup Permutations(Approvals) \cup Permutations(Syncs)
=============================================================================

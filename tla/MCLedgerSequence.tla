--------------------------- MODULE MCLedgerSequence ---------------------------
(* Model-checking instance of LedgerSequence: the constants are in the cfg. *)
EXTENDS LedgerSequence, TLC

CONSTANTS w1, w2, w3

MCWriters == {w1, w2, w3}
MCLegacy  == {1, 4}

=============================================================================

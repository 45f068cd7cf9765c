------------------------------- MODULE AppendLog -------------------------------
(***************************************************************************)
(* What packages/economy/src/ledger.js promises: an append-only financial  *)
(* log.  A call of appendEntry adds exactly one row, under a sequence      *)
(* number no other row has, or it adds nothing.  How the numbers are       *)
(* allocated is the business of LedgerSequence, which implements this.     *)
(***************************************************************************)
EXTENDS Naturals

CONSTANTS
  Writers,      \* calls of appendEntry
  Legacy,       \* sequence numbers of the rows stored before the counter existed
  NoEntry       \* a call that has not added a row

VARIABLES
  rows,         \* the sequence numbers of the LedgerEntry collection
  entry         \* the row each call added, or NoEntry

Init ==
  /\ rows = Legacy
  /\ entry = [w \in Writers |-> NoEntry]

Add(w) ==
  /\ entry[w] = NoEntry
  /\ \E s \in rows' :
       /\ s \notin rows
       /\ rows' = rows \cup {s}
       /\ entry' = [entry EXCEPT ![w] = s]

Next == \E w \in Writers : Add(w)

Spec == Init /\ [][Next]_<<rows, entry>>
=============================================================================

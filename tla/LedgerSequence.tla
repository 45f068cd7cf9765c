---------------------------- MODULE LedgerSequence ----------------------------
(***************************************************************************)
(* The sequence allocator of the financial ledger                          *)
(* (packages/economy/src/ledger.js).  A row of the LedgerEntry collection  *)
(* carries a global sequence number under a unique index.  Numbers come    *)
(* from a Counter document that is incremented atomically and that the     *)
(* first caller to miss it seeds from the largest number stored so far.    *)
(* Every await of the code is a step of its own: any number of calls, in   *)
(* any number of API and worker processes, interleave between them.        *)
(***************************************************************************)
EXTENDS Naturals

CONSTANTS
  Writers,       \* calls of appendEntry, each made once
  Legacy,        \* numbers of the rows that predate the counter
  Missing,       \* the Counter document does not exist
  NoEntry,       \* of AppendLog: the call has added no row
  SeekLimit,     \* attempts of getNextSequence (8 in the code)
  InsertLimit,   \* attempts of appendEntry (10 in the code)
  MaxLosses      \* bound: how often the counters collection is lost

ASSUME LegacyAssumption  == Legacy \subseteq Nat
ASSUME MissingAssumption == Missing \notin Nat
ASSUME NoEntryAssumption == NoEntry \notin Nat
ASSUME LimitAssumption   == SeekLimit \in Nat \ {0} /\ InsertLimit \in Nat \ {0} /\ MaxLosses \in Nat

VARIABLES
  counter,       \* value of the Counter document, or Missing
  rows,          \* numbers of the stored LedgerEntry rows
  pc,            \* the await each call is at
  top,           \* the maximum each call's aggregate returned
  seq,           \* the number each call was last given
  seeks,         \* failed attempts of the call's current getNextSequence
  conflicts,     \* duplicate-key errors the call has met
  losses         \* how often the counter has been lost

vars == <<counter, rows, pc, top, seq, seeks, conflicts, losses>>

Awaits  == {"find", "aggregate", "create", "increment", "insert"}
Endings == {"done", "failed", "exhausted"}

TypeOK ==
  /\ counter \in Nat \cup {Missing}
  /\ rows \subseteq Nat
  /\ pc \in [Writers -> Awaits \cup Endings]
  /\ top \in [Writers -> Nat]
  /\ seq \in [Writers -> Nat]
  /\ seeks \in [Writers -> Nat]
  /\ conflicts \in [Writers -> Nat]
  /\ losses \in Nat

(* The $max of the sequence field, 0 for an empty collection.              *)
Largest(S) == {m \in S \cup {0} : \A r \in S : r <= m}

(* The rows are there from before, and the counter may be, level with them.*)
Init ==
  /\ rows = Legacy
  /\ \/ counter = Missing
     \/ counter \in Largest(Legacy)
  /\ pc = [w \in Writers |-> "find"]
  /\ top = [w \in Writers |-> 0]
  /\ seq = [w \in Writers |-> 0]
  /\ seeks = [w \in Writers |-> 0]
  /\ conflicts = [w \in Writers |-> 0]
  /\ losses = 0

Goto(w, from, to) == pc[w] = from /\ pc' = [pc EXCEPT ![w] = to]

(* seedLedgerSequenceCounterIfMissing: the lookup, and its early return.   *)
FindCounter(w) ==
  /\ Goto(w, "find", IF counter = Missing THEN "aggregate" ELSE "increment")
  /\ UNCHANGED <<counter, rows, top, seq, seeks, conflicts, losses>>

AggregateMax(w) ==
  /\ Goto(w, "aggregate", "create")
  /\ \E m \in Largest(rows) : top' = [top EXCEPT ![w] = m]
  /\ UNCHANGED <<counter, rows, seq, seeks, conflicts, losses>>

(* Mutant: the seeder upserts, so a late one sets the counter back.        *)
CreateCounterUpserting(w) ==
  /\ Goto(w, "create", "increment")
  /\ counter' = top[w]
  /\ UNCHANGED <<rows, top, seq, seeks, conflicts, losses>>

(* Counter.create; the duplicate-key error of a second seeder is ignored.  *)
CreateCounter(w) ==
  /\ Goto(w, "create", "increment")
  /\ counter' = IF counter = Missing THEN top[w] ELSE counter
  /\ UNCHANGED <<rows, top, seq, seeks, conflicts, losses>>

(* Mutant: the document findOneAndUpdate returned is not checked for null. *)
IncrementUnchecked(w) ==
  /\ Goto(w, "increment", "insert")
  /\ counter' = IF counter = Missing THEN counter ELSE counter + 1
  /\ seq' = [seq EXCEPT ![w] = IF counter = Missing THEN counter ELSE counter + 1]
  /\ UNCHANGED <<rows, top, seeks, conflicts, losses>>

(* The atomic $inc of getNextSequence; without a document it tries again,  *)
(* seeding included, SeekLimit times.                                      *)
Increment(w) ==
  \/ /\ counter # Missing
     /\ Goto(w, "increment", "insert")
     /\ counter' = counter + 1
     /\ seq' = [seq EXCEPT ![w] = counter + 1]
     /\ UNCHANGED <<rows, top, seeks, conflicts, losses>>
  \/ /\ counter = Missing
     /\ Goto(w, "increment", IF seeks[w] + 1 < SeekLimit THEN "find" ELSE "exhausted")
     /\ seeks' = [seeks EXCEPT ![w] = @ + 1]
     /\ UNCHANGED <<counter, rows, top, seq, conflicts, losses>>

(* Mutant: a duplicate key is retried until it goes away, without a limit. *)
InsertRowForever(w) ==
  /\ Goto(w, "insert", IF seq[w] \in rows THEN "insert" ELSE "done")
  /\ rows' = rows \cup {seq[w]}
  /\ UNCHANGED <<counter, top, seq, seeks, conflicts, losses>>

(* Mutant: a duplicate key is taken for the row this call stored before.   *)
InsertRowUnlessThere(w) ==
  /\ Goto(w, "insert", "done")
  /\ rows' = rows \cup {seq[w]}
  /\ UNCHANGED <<counter, top, seq, seeks, conflicts, losses>>

(* LedgerEntry.create under the unique index; a taken number costs one of  *)
(* InsertLimit attempts and the next one asks for a new number.            *)
InsertRow(w) ==
  \/ /\ seq[w] \notin rows
     /\ Goto(w, "insert", "done")
     /\ rows' = rows \cup {seq[w]}
     /\ UNCHANGED <<counter, top, seq, seeks, conflicts, losses>>
  \/ /\ seq[w] \in rows
     /\ Goto(w, "insert", IF conflicts[w] + 1 < InsertLimit THEN "find" ELSE "exhausted")
     /\ seeks' = [seeks EXCEPT ![w] = 0]
     /\ conflicts' = [conflicts EXCEPT ![w] = @ + 1]
     /\ UNCHANGED <<counter, rows, top, seq, losses>>

(* Any other database error, or the death of the process, ends the call at *)
(* whatever await it is; a number it holds is a gap for ever.              *)
CallFails(w) ==
  /\ pc[w] \in Awaits
  /\ pc' = [pc EXCEPT ![w] = "failed"]
  /\ UNCHANGED <<counter, rows, top, seq, seeks, conflicts, losses>>

(* Environment: the counters collection is dropped or restored without it. *)
(* No code of the repository does this; the retry loops are there for it.  *)
LoseCounter ==
  /\ counter # Missing
  /\ losses < MaxLosses
  /\ counter' = Missing
  /\ losses' = losses + 1
  /\ UNCHANGED <<rows, pc, top, seq, seeks, conflicts>>

Step(w) ==
  \/ FindCounter(w)
  \/ AggregateMax(w)
  \/ CreateCounter(w)
  \/ Increment(w)
  \/ InsertRow(w)

Next ==
  \/ \E w \in Writers : Step(w) \/ CallFails(w)
  \/ LoseCounter

(* A call that is running goes on: the event loop serves every callback.   *)
Fairness == \A w \in Writers : WF_vars(Step(w))

Spec == Init /\ [][Next]_vars /\ Fairness

-----------------------------------------------------------------------------
Holds(w) == pc[w] = "insert"

(* Seeding races with seeding and with allocation, yet no number is given  *)
(* out twice or below a stored one: as long as the counter is not lost, two*)
(* calls about to insert hold different numbers, and neither is taken.     *)
NoSharedNumber ==
  losses = 0 =>
    \A v \in Writers : Holds(v) =>
      /\ seq[v] \notin rows
      /\ \A w \in Writers : Holds(w) /\ seq[v] = seq[w] => v = w

(* The retry loops end: every call returns or throws.                      *)
EveryCallEnds == \A w \in Writers : <>(pc[w] \in Endings)

(* Each call adds exactly one row under a new number, or none: the ledger  *)
(* implements the append-only log, whatever seeding and retries do.        *)
Log == INSTANCE AppendLog WITH
         entry <- [w \in Writers |-> IF pc[w] = "done" THEN seq[w] ELSE NoEntry]

AppendsOnce == Log!Spec
=============================================================================

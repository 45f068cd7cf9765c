----------------------------- MODULE BillingProofs -----------------------------
(***************************************************************************)
(* What is proved of the two mechanisms every movement of money rests on.  *)
(* The sequence allocator of the ledger, for any number of calls, any      *)
(* stored rows and any limits: its types, that two calls never share a     *)
(* number, and that it implements the append-only log.  And a billing key, *)
(* for any number of calls and faults: same key, same result (SameOutcome) *)
(* and no false report of success (SuccessIsReal).                         *)
(***************************************************************************)
EXTENDS LedgerSequence, Idempotency, TLAPS

(* Why the seed is right.  While the counter is missing (and was never     *)
(* lost) nobody has been past the seeding, so the rows cannot outgrow the  *)
(* maximum a seeder has read; once it exists it dominates every number.    *)
Seeded ==
  losses = 0 =>
    \/ /\ counter # Missing
       /\ \A r \in rows : r <= counter
       /\ \A w \in Writers : Holds(w) => seq[w] <= counter
    \/ /\ counter = Missing
       /\ \A w \in Writers : pc[w] \in {"find", "aggregate", "create", "failed"}
       /\ \A w \in Writers : pc[w] = "create" => \A r \in rows : r <= top[w]

LEMMA LargestIsUpperBound ==
  ASSUME NEW S \in SUBSET Nat, NEW m \in Largest(S)
  PROVE  m \in Nat /\ \A r \in S : r <= m
<1>1. m \in S \cup {0}
  BY DEF Largest
<1>2. m \in Nat
  BY <1>1
<1>3. QED
  BY <1>2 DEF Largest

(* Every reachable state is well typed.                                    *)
THEOREM TypeCorrect == Spec => []TypeOK
<1> USE LegacyAssumption, MissingAssumption, LimitAssumption
<1>1. Init => TypeOK
  <2>1. \A m \in Largest(Legacy) : m \in Nat
    BY LargestIsUpperBound
  <2>2. Init => counter \in Nat \cup {Missing}
    BY <2>1 DEF Init
  <2>3. QED
    BY <2>2 DEF Init, TypeOK, Awaits
<1>2. TypeOK /\ [Next]_vars => TypeOK'
  <2> SUFFICES ASSUME TypeOK, [Next]_vars PROVE TypeOK'
    OBVIOUS
  <2> USE DEF TypeOK, Awaits, Endings, Goto
  <2>1. ASSUME NEW w \in Writers, FindCounter(w) PROVE TypeOK'
    BY <2>1 DEF FindCounter
  <2>2. ASSUME NEW w \in Writers, AggregateMax(w) PROVE TypeOK'
    <3>1. PICK m \in Largest(rows) : top' = [top EXCEPT ![w] = m]
      BY <2>2 DEF AggregateMax
    <3>2. m \in Nat
      BY LargestIsUpperBound
    <3>3. QED
      BY <2>2, <3>1, <3>2 DEF AggregateMax
  <2>3. ASSUME NEW w \in Writers, CreateCounter(w) PROVE TypeOK'
    <3>1. counter' \in Nat \cup {Missing}
      BY <2>3 DEF CreateCounter
    <3>2. QED
      BY <2>3, <3>1 DEF CreateCounter
  <2>4. ASSUME NEW w \in Writers, Increment(w) PROVE TypeOK'
    <3>1. CASE counter = Missing
      <4>1. pc' \in [Writers -> Awaits \cup Endings]
        BY <2>4, <3>1 DEF Increment
      <4>2. seeks' \in [Writers -> Nat]
        BY <2>4, <3>1 DEF Increment
      <4>3. QED
        BY <2>4, <3>1, <4>1, <4>2 DEF Increment
    <3>2. CASE counter # Missing
      <4>1. counter \in Nat /\ counter + 1 \in Nat
        BY <3>2, SMT DEF TypeOK
      <4>2. QED
        BY <2>4, <3>2, <4>1 DEF Increment
    <3>3. QED
      BY <3>1, <3>2
  <2>5. ASSUME NEW w \in Writers, InsertRow(w) PROVE TypeOK'
    <3>1. pc' \in [Writers -> Awaits \cup Endings]
      BY <2>5 DEF InsertRow
    <3>2. rows' \subseteq Nat
      <4>1. seq[w] \in Nat
        OBVIOUS
      <4>2. rows' = rows \cup {seq[w]} \/ rows' = rows
        BY <2>5 DEF InsertRow
      <4>3. QED
        BY <4>1, <4>2, Zenon
    <3>3. seeks' \in [Writers -> Nat] /\ conflicts' \in [Writers -> Nat]
      BY <2>5 DEF InsertRow
    <3>4. QED
      BY <2>5, <3>1, <3>2, <3>3 DEF InsertRow
  <2>6. ASSUME NEW w \in Writers, CallFails(w) PROVE TypeOK'
    BY <2>6 DEF CallFails
  <2>7. CASE LoseCounter
    BY <2>7 DEF LoseCounter
  <2>8. CASE UNCHANGED vars
    BY <2>8 DEF vars
  <2>9. QED
    BY <2>1, <2>2, <2>3, <2>4, <2>5, <2>6, <2>7, <2>8 DEF Next, Step
<1>3. QED
  BY <1>1, <1>2, PTL DEF Spec

(* As long as the counter is not lost, calls about to insert hold distinct *)
(* numbers above every stored one: no append ever meets a duplicate key.   *)
THEOREM NumbersAreUnique == Spec => []NoSharedNumber
<1> USE LegacyAssumption, MissingAssumption, LimitAssumption DEF Holds
<1>1. Init => Seeded /\ NoSharedNumber
  BY DEF Init, Seeded, NoSharedNumber, Largest
<1>2. TypeOK /\ Seeded /\ NoSharedNumber /\ [Next]_vars => (Seeded /\ NoSharedNumber)'
  <2> SUFFICES ASSUME TypeOK, Seeded, NoSharedNumber, [Next]_vars
               PROVE  Seeded' /\ NoSharedNumber'
    OBVIOUS
  <2> USE DEF TypeOK, Seeded, NoSharedNumber, Goto, Awaits, Endings
  <2>1. ASSUME NEW w \in Writers, FindCounter(w) PROVE Seeded' /\ NoSharedNumber'
    BY <2>1 DEF FindCounter
  <2>2. ASSUME NEW w \in Writers, AggregateMax(w) PROVE Seeded' /\ NoSharedNumber'
    <3>1. PICK m \in Largest(rows) : top' = [top EXCEPT ![w] = m]
      BY <2>2 DEF AggregateMax
    <3>2. \A r \in rows : r <= m
      BY LargestIsUpperBound
    <3>3. QED
      BY <2>2, <3>1, <3>2 DEF AggregateMax
  <2>3. ASSUME NEW w \in Writers, CreateCounter(w) PROVE Seeded' /\ NoSharedNumber'
    BY <2>3 DEF CreateCounter
  <2>4. ASSUME NEW w \in Writers, Increment(w) PROVE Seeded' /\ NoSharedNumber'
    <3>1. CASE counter = Missing
      BY <2>4, <3>1 DEF Increment
    <3>2. CASE counter # Missing
      <4>1. counter \in Nat
        BY <3>2
      <4>2. /\ pc[w] = "increment"
            /\ pc' = [pc EXCEPT ![w] = "insert"]
            /\ counter' = counter + 1
            /\ seq' = [seq EXCEPT ![w] = counter + 1]
            /\ rows' = rows /\ losses' = losses
        BY <2>4, <3>2 DEF Increment
      <4>3. ASSUME losses = 0
            PROVE  /\ \A r \in rows : r <= counter
                   /\ \A v \in Writers : Holds(v) => seq[v] <= counter
        BY <3>2, <4>3
      <4>4. counter' # Missing
        BY <4>1, <4>2
      <4>5. Seeded'
        BY <4>1, <4>2, <4>3, <4>4
      <4>6. NoSharedNumber'
        BY <4>1, <4>2, <4>3
      <4>7. QED
        BY <4>5, <4>6
    <3>3. QED
      BY <3>1, <3>2
  <2>5. ASSUME NEW w \in Writers, InsertRow(w) PROVE Seeded' /\ NoSharedNumber'
    BY <2>5 DEF InsertRow
  <2>6. ASSUME NEW w \in Writers, CallFails(w) PROVE Seeded' /\ NoSharedNumber'
    BY <2>6 DEF CallFails
  <2>7. CASE LoseCounter
    BY <2>7 DEF LoseCounter
  <2>8. CASE UNCHANGED vars
    BY <2>8 DEF vars
  <2>9. QED
    BY <2>1, <2>2, <2>3, <2>4, <2>5, <2>6, <2>7, <2>8 DEF Next, Step
<1>3. QED
  BY <1>1, <1>2, TypeCorrect, PTL DEF Spec

(* What the log shows of a call: the row it added, once it has returned.   *)
EntryBar == [w \in Writers |-> IF pc[w] = "done" THEN seq[w] ELSE NoEntry]

(* Only an insertion that the unique index accepts changes the log.        *)
LEMMA LogUntouched ==
  ASSUME TypeOK, NEW w \in Writers,
         \/ FindCounter(w) \/ AggregateMax(w) \/ CreateCounter(w) \/ Increment(w)
         \/ CallFails(w)
         \/ InsertRow(w) /\ seq[w] \in rows
  PROVE  rows' = rows /\ EntryBar' = EntryBar
<1> USE DEF TypeOK, Goto, Awaits, Endings, EntryBar
<1>1. CASE InsertRow(w) /\ seq[w] \in rows
  BY <1>1 DEF InsertRow
<1>2. CASE Increment(w) \/ CallFails(w)
  BY <1>2 DEF Increment, CallFails
<1>3. CASE FindCounter(w) \/ AggregateMax(w) \/ CreateCounter(w)
  BY <1>3 DEF FindCounter, AggregateMax, CreateCounter
<1> QED
  BY <1>1, <1>2, <1>3

(* That insertion is the log's own step: a new number for a call that had  *)
(* added nothing.                                                          *)
LEMMA InsertAddsRow ==
  ASSUME TypeOK, NEW w \in Writers, InsertRow(w), seq[w] \notin rows
  PROVE  Log!Add(w)
<1> USE DEF TypeOK, Goto, Awaits, Endings
<1>1. /\ pc[w] = "insert"
      /\ pc' = [pc EXCEPT ![w] = "done"]
      /\ rows' = rows \cup {seq[w]}
      /\ seq' = seq
  BY DEF InsertRow
<1>2. EntryBar[w] = NoEntry /\ EntryBar' = [EntryBar EXCEPT ![w] = seq[w]]
  BY <1>1 DEF EntryBar
<1> QED
  BY <1>1, <1>2 DEF Log!Add, EntryBar

(* Whatever is lost, seeded or retried, each call adds one row under a new *)
(* number or none: the allocator implements AppendLog.                     *)
THEOREM ImplementsAppendLog == Spec => AppendsOnce
<1>1. ASSUME Init PROVE Log!Init
  BY <1>1 DEF Init, Log!Init
<1>2. ASSUME TypeOK, [Next]_vars, rows' # rows \/ EntryBar' # EntryBar
      PROVE  Log!Next
  <2>1. vars' # vars
    BY <1>2 DEF vars, EntryBar
  <2>2. \E w \in Writers : InsertRow(w) /\ seq[w] \notin rows
    <3>1. ~ LoseCounter
      BY <1>2 DEF LoseCounter, EntryBar
    <3>2. PICK w \in Writers : Step(w) \/ CallFails(w)
      BY <1>2, <2>1, <3>1 DEF Next
    <3> QED
      BY <1>2, <3>2, LogUntouched DEF Step
  <2> QED
    BY <1>2, <2>2, InsertAddsRow DEF Log!Next
<1>3. TypeOK /\ [Next]_vars => [Log!Next]_<<rows, EntryBar>>
  BY <1>2
<1> QED
  BY <1>1, <1>3, TypeCorrect, PTL DEF Spec, AppendsOnce, Log!Spec, EntryBar

-----------------------------------------------------------------------------
(* Where a call stands: it creates a record from its own finished run, and *)
(* replays only a record that is there.                                    *)
Progress(c) ==
  /\ stage[c] = "create" =>
       /\ outcome[c] \in Outcomes
       /\ outcome[c].by = c
       /\ outcome[c].status = "completed" => c \in effects
  /\ stage[c] = "replay" => record # None

(* An answer is the record, or else a failure whose record was lost.       *)
Honest(c) ==
  Told(c) => answer[c] = record \/ (unrecorded /\ answer[c].status = "failed")

IInv ==
  /\ KeyTypeOK
  /\ record # None /\ record.status = "completed" => record.by \in effects
  /\ \A c \in Calls : Progress(c)
  /\ \A c \in Calls : Honest(c)

LEMMA NoneIsNoOutcome ==
  None \notin Outcomes /\ \A c \in Calls : Unknown(c) \notin Outcomes
<1>1. Outcomes \subseteq [status : {"completed", "failed", "unknown"}, by : Calls]
  BY DEF Outcomes
<1>2. \A c \in Calls : Unknown(c) \notin Outcomes
  BY DEF Outcomes, Unknown
<1>3. QED
  BY <1>1, <1>2, NoneAssumption

LEMMA InitIInv == ASSUME KeyInit PROVE IInv
<1>1. KeyTypeOK
  <2>1. 0 \in 0 .. MaxFaults
    BY FaultsAssumption
  <2>2. stage \in [Calls -> Stages \cup {"done", "dead"}]
    BY DEF KeyInit, Stages
  <2>3. effects \subseteq Calls
    BY DEF KeyInit
  <2>4. outcome \in [Calls -> Outcomes \cup {None}]
    BY DEF KeyInit
  <2>5. answer \in [Calls -> Outcomes \cup {Unknown(c) : c \in Calls} \cup {None}]
    BY DEF KeyInit
  <2>6. QED
    BY <2>1, <2>2, <2>3, <2>4, <2>5 DEF KeyInit, KeyTypeOK
<1>2. \A c \in Calls : Progress(c)
  BY DEF KeyInit, Progress
<1>3. \A c \in Calls : Honest(c)
  BY NoneIsNoOutcome DEF KeyInit, Honest, Told
<1>4. QED
  BY <1>1, <1>2, <1>3 DEF KeyInit, IInv

(* One lemma per action: the step keeps the invariant.                     *)
LEMMA LookupStep == ASSUME IInv, NEW c \in Calls, Lookup(c) PROVE IInv'
<1> USE DEF IInv, Lookup, Answer, Proceed
<1>1. KeyTypeOK'
  BY DEF KeyTypeOK, Stages
<1>2. \A d \in Calls : Progress(d)'
  BY DEF Progress, KeyTypeOK
<1>3. \A d \in Calls : Honest(d)'
  BY DEF Honest, Told, KeyTypeOK
<1>4. QED
  BY <1>1, <1>2, <1>3

LEMMA RunStep == ASSUME IInv, NEW c \in Calls, RunOperation(c) PROVE IInv'
<1> USE DEF IInv, RunOperation, Proceed
<1>1. PICK o \in Outcomes :
        /\ o.by = c
        /\ outcome' = [outcome EXCEPT ![c] = o]
        /\ effects' = effects \cup {c} \/ (o.status = "failed" /\ effects' = effects)
  OBVIOUS
<1>2. effects \subseteq effects' /\ effects' \subseteq Calls
  BY <1>1 DEF KeyTypeOK
<1>3. KeyTypeOK'
  BY <1>1, <1>2 DEF KeyTypeOK, Stages
<1>4. ASSUME NEW d \in Calls PROVE Progress(d)'
  <2>1. o.status = "completed" => c \in effects'
    BY <1>1
  <2>2. CASE d = c
    BY <1>1, <2>1, <2>2 DEF Progress, KeyTypeOK
  <2>3. CASE d # c
    BY <1>1, <1>2, <2>3 DEF Progress, KeyTypeOK
  <2>4. QED
    BY <2>2, <2>3
<1>5. \A d \in Calls : Honest(d)'
  BY DEF Honest, Told
<1>6. QED
  BY <1>2, <1>3, <1>4, <1>5

LEMMA CreateStep == ASSUME IInv, NEW c \in Calls, CreateRecord(c) PROVE IInv'
<1> USE DEF IInv, CreateRecord, Answer, Proceed
<1>1. outcome[c] \in Outcomes /\ outcome[c].by = c
        /\ (outcome[c].status = "completed" => c \in effects)
  BY DEF Progress
<1>2. CASE record = None
  <2>1. KeyTypeOK'
    BY <1>1, <1>2 DEF KeyTypeOK, Stages
  <2>2. \A d \in Calls : Progress(d)'
    BY <1>1, <1>2, NoneIsNoOutcome DEF Progress, KeyTypeOK
  <2>3. \A d \in Calls : Honest(d)'
    BY <1>1, <1>2, NoneIsNoOutcome DEF Honest, Told, KeyTypeOK
  <2>4. record' # None /\ record'.status = "completed" => record'.by \in effects'
    BY <1>1, <1>2
  <2>5. QED
    BY <2>1, <2>2, <2>3, <2>4
<1>3. CASE record # None
  <2>1. KeyTypeOK'
    BY <1>3 DEF KeyTypeOK, Stages
  <2>2. \A d \in Calls : Progress(d)'
    BY <1>3 DEF Progress, KeyTypeOK
  <2>3. \A d \in Calls : Honest(d)'
    BY <1>3 DEF Honest, Told
  <2>4. QED
    BY <1>3, <2>1, <2>2, <2>3
<1>4. QED
  BY <1>2, <1>3

LEMMA ReplayStep == ASSUME IInv, NEW c \in Calls, Replay(c) PROVE IInv'
<1> USE DEF IInv, Replay, Answer, Proceed
<1>1. record # None
  BY DEF Progress
<1>2. KeyTypeOK'
  BY <1>1 DEF KeyTypeOK, Stages
<1>3. \A d \in Calls : Progress(d)'
  BY DEF Progress, KeyTypeOK
<1>4. \A d \in Calls : Honest(d)'
  BY DEF Honest, Told, KeyTypeOK
<1>5. QED
  BY <1>2, <1>3, <1>4

LEMMA FaultStep == ASSUME IInv, NEW c \in Calls, DatabaseFails(c) PROVE IInv'
<1> USE DEF IInv, DatabaseFails, Answer, Proceed
<1>0. faults' \in 0 .. MaxFaults
  BY FaultsAssumption DEF KeyTypeOK
<1>1. CASE stage[c] = "create" /\ outcome[c].status = "failed"
             /\ answer' = [answer EXCEPT ![c] = outcome[c]] /\ unrecorded'
  <2>1. outcome[c] \in Outcomes
    BY <1>1 DEF Progress
  <2>2. KeyTypeOK'
    BY <1>0, <1>1, <2>1 DEF KeyTypeOK, Stages
  <2>3. \A d \in Calls : Progress(d)'
    BY DEF Progress, KeyTypeOK
  <2>4. \A d \in Calls : Honest(d)'
    BY <1>1 DEF Honest, Told, KeyTypeOK
  <2>5. QED
    BY <2>2, <2>3, <2>4
<1>2. CASE answer' = [answer EXCEPT ![c] = Unknown(c)] /\ UNCHANGED unrecorded
  <2>1. KeyTypeOK'
    BY <1>0, <1>2 DEF KeyTypeOK, Stages
  <2>2. \A d \in Calls : Progress(d)'
    BY DEF Progress, KeyTypeOK
  <2>3. \A d \in Calls : Honest(d)'
    BY <1>2, NoneIsNoOutcome DEF Honest, Told, KeyTypeOK
  <2>4. QED
    BY <2>1, <2>2, <2>3
<1>3. QED
  BY <1>1, <1>2

LEMMA DieStep == ASSUME IInv, NEW c \in Calls, Die(c) PROVE IInv'
<1> USE DEF IInv, Die, Proceed
<1>0. faults' \in 0 .. MaxFaults
  BY FaultsAssumption DEF KeyTypeOK
<1>1. effects \subseteq effects' /\ effects' \subseteq Calls
  BY DEF KeyTypeOK
<1>2. KeyTypeOK'
  BY <1>0, <1>1 DEF KeyTypeOK, Stages
<1>3. \A d \in Calls : Progress(d)'
  BY <1>1 DEF Progress, KeyTypeOK
<1>4. \A d \in Calls : Honest(d)'
  BY DEF Honest, Told
<1>5. QED
  BY <1>1, <1>2, <1>3, <1>4

LEMMA NextIInv == IInv /\ [KeyNext]_keyVars => IInv'
<1>1. CASE UNCHANGED keyVars
  BY <1>1 DEF keyVars, IInv, KeyTypeOK, Progress, Honest, Told
<1>2. ASSUME IInv, NEW c \in Calls,
             \/ Lookup(c) \/ RunOperation(c) \/ CreateRecord(c)
             \/ Replay(c) \/ DatabaseFails(c) \/ Die(c)
      PROVE  IInv'
  BY <1>2, LookupStep, RunStep, CreateStep, ReplayStep, FaultStep, DieStep
<1>3. QED
  BY <1>1, <1>2 DEF KeyNext

LEMMA Inductive == KeySpec => []IInv
<1>1. QED
  BY InitIInv, NextIInv, PTL DEF KeySpec

(* Every variable keeps its type, whatever fails.                          *)
THEOREM KeyTypesCorrect == KeySpec => []KeyTypeOK
<1>1. IInv => KeyTypeOK
  BY DEF IInv
<1>2. QED
  BY <1>1, Inductive, PTL

(* All calls that learn an outcome learn the same one, however many calls  *)
(* with the key there are and however they overlap.                        *)
THEOREM SameKeySameResult == KeySpec => []SameOutcome
<1>1. IInv => SameOutcome
  BY DEF IInv, Honest, SameOutcome
<1>2. QED
  BY <1>1, Inductive, PTL

(* Nobody is told of a success that did not happen or is not on record.    *)
THEOREM NoFalseSuccess == KeySpec => []SuccessIsReal
<1>1. ASSUME IInv, NEW c \in Calls, Told(c), answer[c].status = "completed"
      PROVE  answer[c] = record /\ answer[c].by \in effects
  <2>1. answer[c] = record
    BY <1>1 DEF IInv, Honest
  <2>2. record # None
    BY <1>1, <2>1, NoneIsNoOutcome DEF Told
  <2>3. QED
    BY <1>1, <2>1, <2>2 DEF IInv
<1>2. IInv => SuccessIsReal
  BY <1>1 DEF SuccessIsReal
<1>3. QED
  BY <1>2, Inductive, PTL

(* The first outcome on record stays, whatever later runs come to.         *)
THEOREM FirstRecordStays == KeySpec => RecordIsFinal
<1>1. ASSUME record # None, [KeyNext]_keyVars PROVE record' = record
  <2>1. CASE UNCHANGED keyVars
    BY <2>1 DEF keyVars
  <2>2. ASSUME NEW c \in Calls,
               \/ Lookup(c) \/ RunOperation(c) \/ CreateRecord(c)
               \/ Replay(c) \/ DatabaseFails(c) \/ Die(c)
        PROVE  record' = record
    BY <1>1, <2>2 DEF Lookup, RunOperation, CreateRecord, Replay, DatabaseFails, Die
  <2>3. QED
    BY <1>1, <2>1, <2>2 DEF KeyNext
<1>2. [KeyNext]_keyVars => [record # None => record' = record]_keyVars
  BY <1>1
<1>3. QED
  BY <1>2, PTL DEF KeySpec, RecordIsFinal
=============================================================================

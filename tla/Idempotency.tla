------------------------------ MODULE Idempotency ------------------------------
(***************************************************************************)
(* executeWithIdempotency of packages/billing/src/idempotency.js, for one  *)
(* key: every charge and payout goes through it.  Calls look the key up,   *)
(* run the operation if there is no record, and then race to create the    *)
(* one record the unique index allows; losers replay the winner's outcome. *)
(***************************************************************************)
EXTENDS Naturals

CONSTANTS
  Calls,        \* calls with the key, in any number of processes
  None,         \* no record, or no answer
  MaxFaults     \* bound: database errors and deaths of processes

ASSUME NoneAssumption   == None \notin [status : {"completed", "failed", "unknown"}, by : Calls]
ASSUME FaultsAssumption == MaxFaults \in Nat

VARIABLES
  record,       \* the IdempotencyRecord of the key, or None
  stage,        \* the await each call is at
  outcome,      \* how the call's own run of the operation ended
  effects,      \* the calls whose run took effect at the provider
  answer,       \* what the call told its caller
  unrecorded,   \* history: a failure was reported though its record was lost
  faults        \* how many faults there have been

(* State and specification carry names that LedgerSequence does not use,  *)
(* so that one module can extend both.                                     *)
keyVars == <<record, stage, outcome, effects, answer, unrecorded, faults>>

(* A result names the run it comes from: external ids carry a timestamp.   *)
Outcomes == [status : {"completed", "failed"}, by : Calls]

(* A database error tells the caller nothing about the operation.          *)
Unknown(c) == [status |-> "unknown", by |-> c]

Stages == {"lookup", "run", "create", "replay"}

KeyTypeOK ==
  /\ record \in Outcomes \cup {None}
  /\ stage \in [Calls -> Stages \cup {"done", "dead"}]
  /\ outcome \in [Calls -> Outcomes \cup {None}]
  /\ effects \subseteq Calls
  /\ answer \in [Calls -> Outcomes \cup {Unknown(c) : c \in Calls} \cup {None}]
  /\ unrecorded \in BOOLEAN
  /\ faults \in 0 .. MaxFaults

KeyInit ==
  /\ record = None
  /\ stage = [c \in Calls |-> "lookup"]
  /\ outcome = [c \in Calls |-> None]
  /\ effects = {}
  /\ answer = [c \in Calls |-> None]
  /\ unrecorded = FALSE
  /\ faults = 0

Proceed(c, to) == stage' = [stage EXCEPT ![c] = to]

(* Return or throw to the caller: a stored failure is thrown as            *)
(* IDEMPOTENT_REPLAY.                                                      *)
Answer(c, o) ==
  /\ Proceed(c, "done")
  /\ answer' = [answer EXCEPT ![c] = o]

(* Mutant: the key is claimed by a record of a third status.               *)
LookupClaiming(c) ==
  /\ stage[c] = "lookup"
  /\ IF record = None
     THEN Proceed(c, "run") /\ record' = [status |-> "pending", by |-> c] /\ UNCHANGED answer
     ELSE Answer(c, record) /\ UNCHANGED record
  /\ UNCHANGED <<outcome, effects, unrecorded, faults>>

Lookup(c) ==
  /\ stage[c] = "lookup"
  /\ IF record = None
     THEN Proceed(c, "run") /\ UNCHANGED answer
     ELSE Answer(c, record)
  /\ UNCHANGED <<record, outcome, effects, unrecorded, faults>>

(* The operation: it can throw after it took effect.                       *)
RunOperation(c) ==
  /\ stage[c] = "run"
  /\ Proceed(c, "create")
  /\ \E o \in {o \in Outcomes : o.by = c} :
       /\ outcome' = [outcome EXCEPT ![c] = o]
       /\ \/ effects' = effects \cup {c}
          \/ o.status = "failed" /\ UNCHANGED effects
  /\ UNCHANGED <<record, answer, unrecorded, faults>>

(* Mutant: a duplicate key is ignored, and the call answers with its own.  *)
CreateRecordOrIgnore(c) ==
  /\ stage[c] = "create"
  /\ record' = IF record = None THEN outcome[c] ELSE record
  /\ Answer(c, outcome[c])
  /\ UNCHANGED <<outcome, effects, unrecorded, faults>>

(* IdempotencyRecord.create; a duplicate key means to read the winner's.   *)
CreateRecord(c) ==
  /\ stage[c] = "create"
  /\ IF record = None
     THEN record' = outcome[c] /\ Answer(c, outcome[c])
     ELSE Proceed(c, "replay") /\ UNCHANGED <<record, answer>>
  /\ UNCHANGED <<outcome, effects, unrecorded, faults>>

Replay(c) ==
  /\ stage[c] = "replay"
  /\ Answer(c, record)
  /\ UNCHANGED <<record, outcome, effects, unrecorded, faults>>

(* Mutant: errors of the record's creation are swallowed after success too.*)
DatabaseFailsSilently(c) ==
  /\ faults < MaxFaults
  /\ stage[c] = "create"
  /\ faults' = faults + 1
  /\ Answer(c, outcome[c])
  /\ unrecorded' = TRUE
  /\ UNCHANGED <<record, outcome, effects>>

(* A database call throws.  If the record of a failed run cannot be        *)
(* created, that is swallowed and the run's own error is thrown; any other *)
(* database error is the caller's answer.                                  *)
DatabaseFails(c) ==
  /\ faults < MaxFaults
  /\ faults' = faults + 1
  /\ \/ /\ stage[c] = "create" /\ outcome[c].status = "failed"
        /\ Answer(c, outcome[c])
        /\ unrecorded' = TRUE
     \/ /\ stage[c] \in {"lookup", "replay"} \/ (stage[c] = "create" /\ outcome[c].status = "completed")
        /\ Answer(c, Unknown(c))
        /\ UNCHANGED unrecorded
  /\ UNCHANGED <<record, outcome, effects>>

(* The process dies; a run it was in may have taken effect.                *)
Die(c) ==
  /\ faults < MaxFaults
  /\ stage[c] \in Stages
  /\ faults' = faults + 1
  /\ Proceed(c, "dead")
  /\ \/ UNCHANGED effects
     \/ stage[c] = "run" /\ effects' = effects \cup {c}
  /\ UNCHANGED <<record, outcome, answer, unrecorded>>

KeyNext ==
  \E c \in Calls :
    \/ Lookup(c)
    \/ RunOperation(c)
    \/ CreateRecord(c)
    \/ Replay(c)
    \/ DatabaseFails(c)
    \/ Die(c)

KeySpec == KeyInit /\ [][KeyNext]_keyVars

-----------------------------------------------------------------------------
Told(c) == answer[c] \in Outcomes

(* "Same key returns same result": however calls overlap, die and meet     *)
(* database errors, those that learn an outcome learn the same one, unless *)
(* the record of a failure was lost.                                       *)
SameOutcome ==
  ~unrecorded => \A c, d \in Calls : Told(c) /\ Told(d) => answer[c] = answer[d]

(* The first outcome recorded is for good: no later run, failed or not,    *)
(* replaces what calls may have been told already.                         *)
RecordIsFinal == [][record # None => record' = record]_keyVars

(* Success is real: who is told the operation completed is told of a run   *)
(* that took effect and that is on record, lost records or not.            *)
SuccessIsReal ==
  \A c \in Calls :
    Told(c) /\ answer[c].status = "completed" =>
      answer[c] = record /\ answer[c].by \in effects

(* idempotency.js: "no duplicate charges/payouts".                         *)
NoDuplicateEffect == \A c, d \in effects : c = d
=============================================================================

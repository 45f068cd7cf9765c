-------------------------------- MODULE Payout --------------------------------
(***************************************************************************)
(* The life of creator payouts: packages/billing/src/payouts.js (approve   *)
(* and reject), packages/api/src/services/paymentOrchestration.js (checks, *)
(* automated cycle, batch scheduler) and the admin routes of               *)
(* packages/api/src/routes/payments.js.  Each handler reads a document,    *)
(* awaits, and saves a status computed from what it read; no save is       *)
(* conditional and no lock covers the document.  The money a request took  *)
(* from the wallet (module Wallet) must go out once or come back once.     *)
(* The provider call runs under executeWithIdempotency, whose record makes *)
(* its outcome final (module Idempotency).  What the call does is outside  *)
(* the model: with Stripe it asks for a transfer; for PayPal, Wise and the *)
(* bank it writes a row of the audit log and nothing else (paypal.js:7-20, *)
(* payoutService.js:56-116), and the money itself is moved elsewhere, if   *)
(* it is.                                                                  *)
(***************************************************************************)
EXTENDS Integers

CONSTANTS
  Payouts,     \* payout requests, as numbers: their createdAt order
  Admins,      \* processes serving the admin routes
  Clerks,      \* processes serving the two batch routes
  Cycle,       \* the process that runs runAutomatedPayoutCycle
  MaxFaults    \* bound: how many calls throw or die

ASSUME PayoutsAssumption == Payouts \subseteq Nat
ASSUME RolesAssumption   == Cycle \notin Admins \cup Clerks /\ Admins \cap Clerks = {}
ASSUME FaultsAssumption  == MaxFaults \in Nat

VARIABLES
  status,      \* PayoutRequest.status, "none" before the document exists
  manual,      \* payoutRiskTier is manual_review
  held,        \* holdUntil is still in the future
  cleared,     \* the creator passes the KYC and verification checks
  record,      \* the idempotency record of the payout's provider call
  sent,        \* how often a call of the provider took effect
  refunds,     \* how often the amount was put back into the wallet
  job,         \* what each process is doing
  raced,       \* history: a save replaced a status its handler had not read
  faults       \* calls that have thrown or died

docs == <<status, manual, held, cleared>>
money == <<record, sent, refunds>>
vars == <<docs, money, job, raced, faults>>

Callers  == Admins \cup Clerks \cup {Cycle}
Statuses == {"none", "pending", "processing", "approved", "paid", "rejected"}
Open     == {"pending", "processing"}
Ops      == {"approve", "reject", "cycle", "batch"}
Awaits   == {"check", "approve", "mark", "pay", "settle", "reject", "refuse", "refund", "overwrite"}

Idle   == [op |-> "none"]
Jobs   == {Idle} \cup [op : Ops, pc : Awaits, cur : Payouts, todo : SUBSET Payouts, read : Statuses]

TypeOK ==
  /\ status \in [Payouts -> Statuses]
  /\ manual \in [Payouts -> BOOLEAN]
  /\ held \in [Payouts -> BOOLEAN]
  /\ cleared \in [Payouts -> BOOLEAN]
  /\ record \in [Payouts -> {"none", "completed", "failed"}]
  /\ sent \in [Payouts -> Nat]
  /\ refunds \in [Payouts -> Nat]
  /\ job \in [Callers -> Jobs]
  /\ raced \in BOOLEAN
  /\ faults \in 0 .. MaxFaults

Init ==
  /\ status = [p \in Payouts |-> "none"]
  /\ manual = [p \in Payouts |-> FALSE]
  /\ held = [p \in Payouts |-> FALSE]
  /\ cleared = [p \in Payouts |-> TRUE]
  /\ record = [p \in Payouts |-> "none"]
  /\ sent = [p \in Payouts |-> 0]
  /\ refunds = [p \in Payouts |-> 0]
  /\ job = [c \in Callers |-> Idle]
  /\ raced = FALSE
  /\ faults = 0

-----------------------------------------------------------------------------
(* The process c is at await a of a handler, for its current payout.       *)
At(c, a) == job[c].op # "none" /\ job[c].pc = a
Cur(c)   == job[c].cur

FirstAwait(op) == CASE op = "reject" -> "reject" [] op = "batch" -> "overwrite" [] OTHER -> "check"

(* The jobs that take on a payout of S next.  The cycle goes by createdAt. *)
Taking(op, S) ==
  IF S = {} THEN {Idle}
  ELSE {[op |-> op, pc |-> FirstAwait(op), cur |-> p, todo |-> S \ {p}, read |-> "none"] :
          p \in {q \in S : op = "cycle" => \A r \in S : q <= r}}

Begin(c, op, S) ==
  /\ job[c] = Idle
  /\ \E j \in Taking(op, S) : job' = [job EXCEPT ![c] = j]

Goto(c, a)   == job' = [job EXCEPT ![c].pc = a]
GotoWith(c, a, s) == job' = [job EXCEPT ![c].pc = a, ![c].read = s]
Continue(c)  == \E j \in Taking(job[c].op, job[c].todo) : job' = [job EXCEPT ![c] = j]
Abort(c)     == job' = [job EXCEPT ![c] = Idle]

(* save() and updateOne: unconditional.                                    *)
Save(p, s, expected) ==
  /\ status' = [status EXCEPT ![p] = s]
  /\ raced' = (raced \/ status[p] # expected)

-----------------------------------------------------------------------------
(* requestCreatorPayout, as seen from here: the document appears.          *)
Request(p) ==
  /\ status[p] = "none"
  /\ \A q \in Payouts : q < p => status[q] # "none"
  /\ status' = [status EXCEPT ![p] = "pending"]
  /\ \E review, hold \in BOOLEAN :
       /\ ~(review /\ hold)
       /\ manual' = [manual EXCEPT ![p] = review]
       /\ held' = [held EXCEPT ![p] = hold]
  /\ UNCHANGED <<cleared, money, job, raced, faults>>

(* The filter of the scheduler and of the cycle.                           *)
Automatic(p) == ~manual[p] /\ ~held[p]

(* Admin routes: approve a batch of payouts, or reject one.                *)
StartApproval(a) ==
  /\ \E S \in SUBSET {p \in Payouts : status[p] # "none"} : S # {} /\ Begin(a, "approve", S)
  /\ UNCHANGED <<docs, money, raced, faults>>

StartRejection(a) ==
  /\ \E p \in Payouts : status[p] = "pending" /\ Begin(a, "reject", {p})
  /\ UNCHANGED <<docs, money, raced, faults>>

(* Mutant: the cycle works through the pending payouts only.               *)
StartCyclePendingOnly ==
  /\ Begin(Cycle, "cycle", {p \in Payouts : status[p] = "pending" /\ Automatic(p)})
  /\ UNCHANGED <<docs, money, raced, faults>>

(* Mutant: the cycle's filter forgets the tier and the hold.               *)
StartCycleUnfiltered ==
  /\ Begin(Cycle, "cycle", {p \in Payouts : status[p] \in Open})
  /\ UNCHANGED <<docs, money, raced, faults>>

(* runAutomatedPayoutCycle lists what it will work through.                *)
StartCycle ==
  /\ Begin(Cycle, "cycle", {p \in Payouts : status[p] \in Open /\ Automatic(p)})
  /\ UNCHANGED <<docs, money, raced, faults>>

(* processPayouts lists pending payouts with the filter, the batch-claim   *)
(* route without.                                                          *)
StartBatch(k) ==
  /\ Begin(k, "batch", {p \in Payouts : status[p] = "pending" /\ Automatic(p)})
  /\ UNCHANGED <<docs, money, raced, faults>>

ClaimPending(k) ==
  /\ Begin(k, "batch", {p \in Payouts : status[p] = "pending"})
  /\ UNCHANGED <<docs, money, raced, faults>>

(* The list may be stale; the update looks at the id only.                 *)
Overwrite(k) ==
  /\ At(k, "overwrite")
  /\ Save(Cur(k), "processing", "pending")
  /\ Continue(k)
  /\ UNCHANGED <<manual, held, cleared, money, faults>>

(* executePayoutWithChecks wants a pending payout, the cycle does not look *)
(* again.  Whoever fails the checks is rejected; an admin's approval also  *)
(* rejects the shadow-banned, whom the cycle does not ask about.           *)
Check(c) ==
  /\ At(c, "check")
  /\ \/ /\ job[c].op = "approve" /\ status[Cur(c)] # "pending"
        /\ Continue(c)
     \/ /\ job[c].op = "approve" => status[Cur(c)] = "pending"
        /\ Goto(c, IF cleared[Cur(c)] THEN "approve" ELSE "reject")
     \/ /\ job[c].op = "approve" /\ status[Cur(c)] = "pending"
        /\ Goto(c, "reject")
  /\ UNCHANGED <<docs, money, raced, faults>>

(* approvePayout: the lookup; its throw is caught and the batch goes on.   *)
ReadToApprove(c) ==
  /\ At(c, "approve")
  /\ \/ /\ status[Cur(c)] \in Open
        /\ GotoWith(c, "mark", status[Cur(c)])
     \/ /\ status[Cur(c)] \notin Open
        /\ Continue(c)
  /\ UNCHANGED <<docs, money, raced, faults>>

MarkApproved(c) ==
  /\ At(c, "mark")
  /\ Save(Cur(c), "approved", job[c].read)
  /\ Goto(c, "pay")
  /\ UNCHANGED <<manual, held, cleared, money, faults>>

(* Mutant: a stored failure is replayed as a result.                       *)
PayReplayingFailure(c) ==
  /\ At(c, "pay")
  /\ \/ /\ record[Cur(c)] # "none"
        /\ Goto(c, "settle")
        /\ UNCHANGED money
     \/ /\ record[Cur(c)] = "none"
        /\ record' = [record EXCEPT ![Cur(c)] = "failed"]
        /\ Continue(c)
        /\ UNCHANGED <<sent, refunds>>
  /\ UNCHANGED <<docs, raced, faults>>

(* The provider, once per key: a record replays its outcome.  A call that  *)
(* throws may have taken effect before it threw.  A second call counts     *)
(* as a second payment: Stripe would know its key, but the ids made for    *)
(* PayPal and Wise carry a time stamp.                                     *)
Pay(c) ==
  /\ At(c, "pay")
  /\ \/ /\ record[Cur(c)] = "completed"
        /\ Goto(c, "settle")
        /\ UNCHANGED money
     \/ /\ record[Cur(c)] = "failed"
        /\ Continue(c)
        /\ UNCHANGED money
     \/ /\ record[Cur(c)] = "none"
        /\ record' = [record EXCEPT ![Cur(c)] = "completed"]
        /\ sent' = [sent EXCEPT ![Cur(c)] = @ + 1]
        /\ Goto(c, "settle")
        /\ UNCHANGED refunds
     \/ /\ record[Cur(c)] = "none"
        /\ record' = [record EXCEPT ![Cur(c)] = "failed"]
        /\ \E n \in {0, 1} : sent' = [sent EXCEPT ![Cur(c)] = @ + n]
        /\ Continue(c)
        /\ UNCHANGED refunds
  /\ UNCHANGED <<docs, raced, faults>>

MarkPaid(c) ==
  /\ At(c, "settle")
  /\ Save(Cur(c), "paid", "approved")
  /\ Continue(c)
  /\ UNCHANGED <<manual, held, cleared, money, faults>>

(* Mutant: whatever has not been paid can be rejected.                     *)
ReadToRejectUnpaid(c) ==
  /\ At(c, "reject")
  /\ IF status[Cur(c)] # "paid" THEN GotoWith(c, "refuse", status[Cur(c)]) ELSE Abort(c)
  /\ UNCHANGED <<docs, money, raced, faults>>

(* rejectPayout: its PAYOUT_NOT_PENDING is not caught, and ends the batch  *)
(* and the cycle.                                                          *)
ReadToReject(c) ==
  /\ At(c, "reject")
  /\ IF status[Cur(c)] = "pending" THEN GotoWith(c, "refuse", "pending") ELSE Abort(c)
  /\ UNCHANGED <<docs, money, raced, faults>>

MarkRejected(c) ==
  /\ At(c, "refuse")
  /\ Save(Cur(c), "rejected", job[c].read)
  /\ Goto(c, "refund")
  /\ UNCHANGED <<manual, held, cleared, money, faults>>

(* Mutant: the refund carries the sign of a withdrawal.                    *)
RefundNegated(c) ==
  /\ At(c, "refund")
  /\ refunds' = [refunds EXCEPT ![Cur(c)] = @ - 1]
  /\ Continue(c)
  /\ UNCHANGED <<docs, record, sent, raced, faults>>

(* The $inc under the wallet lock.  A lock someone else holds throws, with *)
(* the payout rejected and the money not returned.                         *)
Refund(c) ==
  /\ At(c, "refund")
  /\ \/ /\ refunds' = [refunds EXCEPT ![Cur(c)] = @ + 1]
        /\ Continue(c)
     \/ /\ Abort(c)
        /\ UNCHANGED refunds
  /\ UNCHANGED <<docs, record, sent, raced, faults>>

(* A call throws, or its process dies.  A throw of approvePayout (wallet   *)
(* lock contention after the provider call, say) is caught by its callers. *)
(* The call may take effect and its record never be written.               *)
Fail(c) ==
  /\ faults < MaxFaults
  /\ job[c] # Idle
  /\ \/ Abort(c)
     \/ job[c].pc \in {"approve", "mark", "pay", "settle"} /\ Continue(c)
  /\ \/ UNCHANGED sent
     \/ /\ job[c].pc = "pay" /\ record[Cur(c)] = "none"
        /\ sent' = [sent EXCEPT ![Cur(c)] = @ + 1]
  /\ faults' = faults + 1
  /\ UNCHANGED <<docs, record, refunds, raced>>

(* Environment: holdUntil passes; KYC or verification comes and goes.      *)
HoldEnds(p) ==
  /\ held[p]
  /\ held' = [held EXCEPT ![p] = FALSE]
  /\ UNCHANGED <<status, manual, cleared, money, job, raced, faults>>

ClearanceChanges(p) ==
  /\ status[p] \in Open
  /\ cleared' = [cleared EXCEPT ![p] = ~@]
  /\ UNCHANGED <<status, manual, held, money, job, raced, faults>>

Handle(c) ==
  \/ Check(c)
  \/ ReadToApprove(c)
  \/ MarkApproved(c)
  \/ Pay(c)
  \/ MarkPaid(c)
  \/ ReadToReject(c)
  \/ MarkRejected(c)
  \/ Refund(c)

Next ==
  \/ \E p \in Payouts : Request(p) \/ HoldEnds(p) \/ ClearanceChanges(p)
  \/ \E a \in Admins : StartApproval(a) \/ StartRejection(a)
  \/ StartCycle
  \/ \E k \in Clerks : StartBatch(k) \/ ClaimPending(k) \/ Overwrite(k)
  \/ \E c \in Callers : Handle(c) \/ Fail(c)

(* A handler that runs goes on, time passes, and the cycle is run again    *)
(* and again by the external scheduler; nobody else needs to do anything.  *)
Fairness ==
  /\ WF_vars(StartCycle)
  /\ \A c \in Callers : WF_vars(Handle(c))
  /\ \A k \in Clerks : WF_vars(Overwrite(k))
  /\ \A p \in Payouts : WF_vars(HoldEnds(p))

Spec == Init /\ [][Next]_vars /\ Fairness

-----------------------------------------------------------------------------
(* A payout is sent to the provider once or returns to the wallet once,    *)
(* and never both.                                                         *)
OneWayOut == \A p \in Payouts : sent[p] + refunds[p] <= 1

(* While every save replaces the status its handler had read, no crash,    *)
(* throw, replay or contended lock makes the money go twice or both ways:  *)
(* only the overlap of handlers on one document does.                      *)
UnracedOneWayOut == ~raced => OneWayOut

(* payouts.js, "no duplicate payouts": what went out to the creator's bank *)
(* does not go back to the wallet as well.                                 *)
NoDuplicatePayout == \A p \in Payouts : sent[p] > 0 => refunds[p] = 0

(* However handlers overlap, a payout is paid only if a call of the        *)
(* provider took effect and its record says that it returned.  That is all *)
(* that paid stands for where the call is only an audit row.               *)
PaidIsSent ==
  \A p \in Payouts : status[p] = "paid" => sent[p] > 0 /\ record[p] = "completed"

(* Manual-review payouts go out by an admin's approval only, and no cycle  *)
(* sends a payout before its hold has ended.                               *)
CycleKeepsOff == [][Pay(Cycle) => Automatic(Cur(Cycle))]_vars

Decided(p) == status[p] \notin Open

(* While all creators pass the checks, the cycle gets to every payout it   *)
(* may process: batch routes that move payouts to processing under it, and *)
(* calls that throw or die, do not make it miss one for ever.              *)
CycleServesAll ==
  [](\A p \in Payouts : cleared[p]) =>
    \A p \in Payouts : (status[p] \in Open /\ ~manual[p]) ~> Decided(p)

(* paymentOrchestration.js says the cycle processes both 'pending' and     *)
(* 'processing' payouts.  Whether other creators pass the checks or not,   *)
(* it gets to those who do.                                                *)
CycleServesCleared ==
  \A p \in Payouts :
    [](status[p] # "none" => cleared[p]) =>
      ((status[p] \in Open /\ ~manual[p]) ~> Decided(p))
=============================================================================

----------------------------- MODULE CoinPurchase -----------------------------
(***************************************************************************)
(* What a paid coin purchase does to a wallet: the client's confirmation,  *)
(* the two Stripe events that report the payment, and the events that move *)
(* the balance directly (a Stripe refund, a PayPal capture), all in        *)
(* packages/api/src/routes/payments.js.  Stripe and PayPal send an event   *)
(* again until it is answered with 200.  A handler first marks the event   *)
(* as seen (lib/webhookDedupe.js); confirmation and payment events then    *)
(* credit under the money lock (financialIntegrity/moneyLock.js) and one   *)
(* key of executeWithIdempotency, of which this is a use.                  *)
(***************************************************************************)
EXTENDS Naturals, FiniteSets

CONSTANTS
  Clients,       \* confirmations
  Deliveries,    \* deliveries of events: first ones and repeated ones
  PaymentEvents, \* payment_intent.succeeded, checkout.session.completed
  DirectEvents,  \* charge.refunded, PAYMENT.CAPTURE.COMPLETED
  FaultLimit,    \* bound: database errors and deaths before an answer
  OutageLimit,   \* bound: other failures
  Nobody         \* no process, no record, no answer

Procs  == Clients \cup Deliveries
Events == PaymentEvents \cup DirectEvents
Outcomes == [status : {"completed", "failed"}, by : Procs]

ASSUME RolesAssumption  == Clients \cap Deliveries = {} /\ PaymentEvents \cap DirectEvents = {}
ASSUME NobodyAssumption == /\ Nobody \notin Procs \cup Events
                           /\ Nobody \notin [status : {"completed", "failed", "unknown"}, by : Procs]
ASSUME LimitsAssumption == FaultLimit \in Nat /\ OutageLimit \in Nat

VARIABLES
  marked,    \* the events whose key millo:wh:dedupe:{provider}:{id} is set
  acked,     \* the events the provider knows were received
  key,       \* whose SET created the money lock of the user, or Nobody
  record,    \* the IdempotencyRecord coin_confirm_pi_{id}, or Nobody
  rows,      \* ledger rows coin_purchase of the payment
  credits,   \* how often each process has added the coins to the wallet
  applied,   \* how often each direct event has changed the wallet
  event,     \* the event of each delivery, Nobody for a confirmation
  pc,        \* the await each process is at
  outcome,   \* how its run of the operation ended
  told,      \* what executeWithIdempotency told it
  incidents, \* history: what has gone wrong
  faults, outages

local   == <<event, outcome, told>>
effects == <<rows, credits, applied>>
vars == <<marked, acked, key, record, effects, local, pc, incidents, faults, outages>>

Unknown(p) == [status |-> "unknown", by |-> p]
Answers    == Outcomes \cup {Unknown(p) : p \in Procs}
Calling    == {"lookup", "check", "credit", "create", "replay"}
Before     == {"mark", "lock", "apply"} \cup Calling
After      == {"unlock", "respond"}
Incidents  == {"slow", "refused", "unmarked", "unread", "doubtful", "unrecorded"}

TypeOK ==
  /\ marked \subseteq Events /\ acked \subseteq Events
  /\ key \in Procs \cup {Nobody}
  /\ record \in Outcomes \cup {Nobody}
  /\ rows \in Nat
  /\ credits \in [Procs -> 0 .. 2]
  /\ applied \in [DirectEvents -> Nat]
  /\ event \in [Procs -> Events \cup {Nobody}]
  /\ pc \in [Procs -> {"idle", "done", "dead"} \cup Before \cup After]
  /\ outcome \in [Procs -> Outcomes \cup {Nobody}]
  /\ told \in [Procs -> Answers \cup {Nobody}]
  /\ incidents \subseteq Incidents
  /\ faults \in 0 .. FaultLimit /\ outages \in 0 .. OutageLimit

Init ==
  /\ marked = {} /\ acked = {}
  /\ key = Nobody
  /\ record = Nobody
  /\ rows = 0
  /\ credits = [p \in Procs |-> 0]
  /\ applied = [e \in DirectEvents |-> 0]
  /\ event = [p \in Procs |-> Nobody]
  /\ pc = [p \in Procs |-> "idle"]
  /\ outcome = [p \in Procs |-> Nobody]
  /\ told = [p \in Procs |-> Nobody]
  /\ incidents = {}
  /\ faults = 0 /\ outages = 0

Goto(p, to) == pc' = [pc EXCEPT ![p] = to]
Happens(incident) ==
  /\ outages < OutageLimit
  /\ outages' = outages + 1
  /\ incidents' = incidents \cup incident
NothingHappens == UNCHANGED <<incidents, outages>>
Answer(p, o) == told' = [told EXCEPT ![p] = o] /\ Goto(p, "unlock")
Ends(p, status) == outcome' = [outcome EXCEPT ![p] = [status |-> status, by |-> p]]

-----------------------------------------------------------------------------
(* The client says that Stripe has confirmed its payment: nothing is left  *)
(* to do if the ledger has the purchase.                                   *)
Confirm(p) ==
  /\ p \in Clients /\ pc[p] = "idle"
  /\ Goto(p, IF rows > 0 THEN "done" ELSE "lock")
  /\ UNCHANGED <<marked, acked, key, record, effects, local, incidents, faults, outages>>

(* The provider sends an event it has no 200 for.                          *)
Deliver(p) ==
  /\ p \in Deliveries /\ pc[p] = "idle"
  /\ \E e \in Events \ acked : event' = [event EXCEPT ![p] = e]
  /\ Goto(p, "mark")
  /\ UNCHANGED <<marked, acked, key, record, effects, outcome, told, incidents, faults, outages>>

Handle(p) == Goto(p, IF event[p] \in DirectEvents THEN "apply" ELSE "lock")

(* Mutant: a duplicate delivery is marked, and handled all the same.       *)
MarkOnly(p) ==
  /\ pc[p] = "mark"
  /\ Handle(p)
  /\ marked' = marked \cup {event[p]}
  /\ NothingHappens
  /\ UNCHANGED <<acked, key, record, effects, local, faults>>

(* markWebhookFirstSeen: the mark comes before the work.  Without an       *)
(* answer from Redis every delivery is a first one.                        *)
Mark(p) ==
  /\ pc[p] = "mark"
  /\ \/ /\ event[p] \in marked
        /\ Goto(p, "respond")
        /\ NothingHappens /\ UNCHANGED marked
     \/ /\ event[p] \notin marked
        /\ marked' = marked \cup {event[p]}
        /\ Handle(p)
        /\ NothingHappens
     \/ /\ Happens({"unmarked"})
        /\ Handle(p)
        /\ UNCHANGED marked
  /\ UNCHANGED <<acked, key, record, effects, local, faults>>

(* A refund or a capture: $inc under the wallet's key.  Any error, such as *)
(* a key that is held, is logged and the event is answered with 200.       *)
ApplyDirectly(p) ==
  /\ pc[p] = "apply"
  /\ \/ applied' = [applied EXCEPT ![event[p]] = @ + 1]
     \/ UNCHANGED applied
  /\ Goto(p, "respond")
  /\ UNCHANGED <<marked, acked, key, record, rows, credits, local, incidents, faults, outages>>

(* Mutant: SET without NX.                                                 *)
TakeMoneyLockAlways(p) ==
  /\ pc[p] = "lock"
  /\ key' = p
  /\ Goto(p, "lookup")
  /\ UNCHANGED <<marked, acked, record, effects, local, incidents, faults, outages>>

(* A held lock is an error to the client, and a 500 to the provider, which *)
(* will send the event again, marked as it is.  The lock is the user's:    *)
(* another purchase, an invoice or a payout of theirs can have it as well  *)
(* (moneyLock.js:24).  Or payments are not live, and the event is skipped  *)
(* with a 200.                                                             *)
TakeMoneyLock(p) ==
  /\ pc[p] = "lock"
  /\ \/ key = Nobody /\ key' = p /\ Goto(p, "lookup") /\ UNCHANGED incidents
     \/ key # Nobody /\ Goto(p, "done") /\ UNCHANGED <<key, incidents>>
     \/ /\ incidents' = incidents \cup {"refused"}
        /\ Goto(p, "done") \/ (p \in Deliveries /\ Goto(p, "respond"))
        /\ UNCHANGED key
  /\ UNCHANGED <<marked, acked, record, effects, local, faults, outages>>

(* Mutant: the key is claimed by a record of a third status.               *)
LookupClaiming(p) ==
  /\ pc[p] = "lookup"
  /\ IF record = Nobody
     THEN Goto(p, "check") /\ record' = [status |-> "pending", by |-> p] /\ UNCHANGED told
     ELSE Answer(p, record) /\ UNCHANGED record
  /\ UNCHANGED <<marked, acked, key, effects, event, outcome, incidents, faults, outages>>

Lookup(p) ==
  /\ pc[p] = "lookup"
  /\ IF record = Nobody THEN Goto(p, "check") /\ UNCHANGED told ELSE Answer(p, record)
  /\ UNCHANGED <<marked, acked, key, record, effects, event, outcome, incidents, faults, outages>>

(* Mutant: the operation does not look at the ledger.                      *)
CheckNothing(p) ==
  /\ pc[p] = "check"
  /\ Goto(p, "credit")
  /\ NothingHappens
  /\ UNCHANGED <<marked, acked, key, record, effects, local, faults>>

(* dupLedger: a purchase on the ledger is not credited again.              *)
CheckLedger(p) ==
  /\ pc[p] = "check"
  /\ \/ rows > 0 /\ Ends(p, "completed") /\ Goto(p, "create") /\ NothingHappens
     \/ rows = 0 /\ Goto(p, "credit") /\ NothingHappens /\ UNCHANGED outcome
     \/ Happens({"unread"}) /\ Ends(p, "failed") /\ Goto(p, "create")
  /\ UNCHANGED <<marked, acked, key, record, effects, event, told, faults>>

(* economy.credit, whose inside is Wallet: it adds the coins and a row; or *)
(* the wallet's key is held and it throws; or something fails on the way,  *)
(* and then it has added the coins up to twice, with at most as many rows, *)
(* and has thrown unless its second attempt went through.                  *)
Credit(p) ==
  /\ pc[p] = "credit"
  /\ Goto(p, "create")
  /\ \/ /\ credits' = [credits EXCEPT ![p] = 1] /\ rows' = rows + 1
        /\ Ends(p, "completed") /\ NothingHappens
     \/ /\ Ends(p, "failed") /\ NothingHappens /\ UNCHANGED <<credits, rows>>
     \/ \E n \in 1 .. 2 : \E r \in 0 .. n :
          /\ credits' = [credits EXCEPT ![p] = n] /\ rows' = rows + r
          /\ Ends(p, "failed") \/ (r > 0 /\ Ends(p, "completed"))
          /\ Happens({"doubtful"})
  /\ UNCHANGED <<marked, acked, key, record, applied, event, told, faults>>

(* Mutant: only a success is recorded.                                     *)
CreateIfCompleted(p) ==
  /\ pc[p] = "create"
  /\ record' = IF record = Nobody /\ outcome[p].status = "completed" THEN outcome[p] ELSE record
  /\ Answer(p, outcome[p])
  /\ UNCHANGED <<marked, acked, key, effects, event, outcome, incidents, faults, outages>>

(* Mutant: the record is upserted.                                         *)
UpsertRecord(p) ==
  /\ pc[p] = "create"
  /\ record' = outcome[p]
  /\ Answer(p, outcome[p])
  /\ UNCHANGED <<marked, acked, key, effects, event, outcome, incidents, faults, outages>>

CreateRecord(p) ==
  /\ pc[p] = "create"
  /\ IF record = Nobody THEN record' = outcome[p] /\ Answer(p, outcome[p])
     ELSE Goto(p, "replay") /\ UNCHANGED <<record, told>>
  /\ UNCHANGED <<marked, acked, key, effects, event, outcome, incidents, faults, outages>>

Replay(p) ==
  /\ pc[p] = "replay"
  /\ Answer(p, record)
  /\ UNCHANGED <<marked, acked, key, record, effects, event, outcome, incidents, faults, outages>>

(* The record cannot be read or written: a failure is then lost, and any   *)
(* other error is the caller's answer.                                     *)
DatabaseFails(p) ==
  /\ faults < FaultLimit
  /\ faults' = faults + 1
  /\ \/ /\ pc[p] = "create" /\ outcome[p].status = "failed"
        /\ Answer(p, outcome[p])
        /\ incidents' = incidents \cup {"unrecorded"}
     \/ /\ pc[p] \in {"lookup", "replay"} \/ (pc[p] = "create" /\ outcome[p].status = "completed")
        /\ Answer(p, Unknown(p))
        /\ UNCHANGED incidents
  /\ UNCHANGED <<marked, acked, key, record, effects, event, outcome, outages>>

Unlock(p) ==
  /\ pc[p] = "unlock"
  /\ key' = IF key = p THEN Nobody ELSE key
  /\ Goto(p, IF p \in Clients THEN "done" ELSE "respond")
  /\ UNCHANGED <<marked, acked, record, effects, local, incidents, faults, outages>>

(* 200, whatever has happened; the provider may not get it.                *)
Respond(p) ==
  /\ pc[p] = "respond"
  /\ acked' = acked \cup {event[p]} \/ UNCHANGED acked
  /\ Goto(p, "done")
  /\ UNCHANGED <<marked, key, record, effects, local, incidents, faults, outages>>

(* The process dies; the money lock stays until it lapses.                 *)
Die(p) ==
  /\ pc[p] \in Before \cup After
  /\ \/ told[p] = Nobody /\ faults < FaultLimit /\ faults' = faults + 1 /\ NothingHappens
     \/ told[p] # Nobody /\ Happens({}) /\ UNCHANGED faults
  /\ Goto(p, "dead")
  /\ UNCHANGED <<marked, acked, key, record, effects, local>>

LockLapses ==
  /\ key # Nobody
  /\ IF pc[key] = "dead" THEN NothingHappens ELSE Happens({"slow"})
  /\ key' = Nobody
  /\ UNCHANGED <<marked, acked, record, effects, local, pc, faults>>

(* A mark lasts two days by default, and Stripe repeats for up to three.   *)
MarkLapses(e) ==
  /\ e \in marked
  /\ marked' = marked \ {e}
  /\ Happens({"unmarked"})
  /\ UNCHANGED <<acked, key, record, effects, local, pc, faults>>

Step(p) ==
  \/ Mark(p) \/ ApplyDirectly(p) \/ TakeMoneyLock(p) \/ Lookup(p) \/ CheckLedger(p)
  \/ Credit(p) \/ CreateRecord(p) \/ Replay(p) \/ Unlock(p) \/ Respond(p)

Next ==
  \/ \E p \in Procs : Step(p) \/ Confirm(p) \/ Deliver(p) \/ DatabaseFails(p) \/ Die(p)
  \/ LockLapses
  \/ \E e \in Events : MarkLapses(e)

(* Node resumes handlers, providers repeat what is not acknowledged; no    *)
(* client has to confirm.                                                  *)
Fairness == \A p \in Procs : WF_vars(Step(p)) /\ WF_vars(Deliver(p))

Spec == Init /\ [][Next]_vars /\ Fairness

-----------------------------------------------------------------------------
Credited(p) == credits[p] > 0

(* However confirmations and deliveries overlap, are repeated or die, the  *)
(* coins are added once, unless the lock has lapsed under its owner or     *)
(* economy.credit has itself gone wrong: also when the record is lost or   *)
(* Redis forgets the marks (payments.js:2279, 2403, 413).                  *)
CreditedAtMostOnce ==
  incidents \cap {"slow", "doubtful"} = {} =>
    \A p, q \in Procs : Credited(p) /\ Credited(q) => p = q /\ credits[p] = 1

(* A failure that is on record, and so is replayed for ever, is one of a   *)
(* payment that has not been credited (payments.js:2330), unless besides   *)
(* the lock or the credit the check of the ledger has failed.              *)
FailureIsReal ==
  incidents \cap {"slow", "doubtful", "unread"} = {} /\ record # Nobody /\ record.status = "failed"
    => \A p \in Procs : ~Credited(p)

(* Who is told that the purchase is complete can find it on the ledger, in *)
(* the wallet as well, whatever has gone wrong.                            *)
CompletedIsCredited ==
  \A p \in Procs : told[p] # Nobody /\ told[p].status = "completed" =>
    rows > 0 /\ \E q \in Procs : Credited(q)

(* A refund or a capture, which have no record of their own, move the      *)
(* balance once however often they are delivered, as long as Redis answers *)
(* and no mark lapses before the last delivery (payments.js:2249, 2829).   *)
DirectlyOnce == "unmarked" \notin incidents => \A e \in DirectEvents : applied[e] <= 1

(* A payment that Stripe reports is credited, or its failure is on record: *)
(* a report that finds the lock held by another one of the same payment    *)
(* leaves it to that one, though its event is marked and no repetition     *)
(* will be handled.  That is so unless a process has died, the record      *)
(* could not be read or written, or a report was refused, because another  *)
(* operation of the user had the lock or payments were not live: then the  *)
(* purchase may stay uncredited for ever (payments.js:2347).               *)
PaymentIsSettled ==
  (\E p \in Procs : event[p] \in PaymentEvents)
    ~> ((\E p \in Procs : Credited(p)) \/ (record # Nobody /\ record.status = "failed")
        \/ faults > 0 \/ "refused" \in incidents)

(* The handlers use executeWithIdempotency as it is meant: with the check  *)
(* and the credit as its operation, they implement Idempotency.            *)
Point(p) ==
  CASE told[p] # Nobody -> "done"
    [] told[p] = Nobody /\ pc[p] \in {"check", "credit"} -> "run"
    [] told[p] = Nobody /\ pc[p] \in {"create", "replay", "dead"} -> pc[p]
    [] OTHER -> "lookup"

Call == INSTANCE Idempotency WITH
  Calls      <- Procs,
  None       <- Nobody,
  MaxFaults  <- FaultLimit,
  stage      <- [p \in Procs |-> Point(p)],
  effects    <- {p \in Procs : Credited(p) \/ (outcome[p] # Nobody /\ outcome[p].status = "completed")},
  answer     <- told,
  unrecorded <- ("unrecorded" \in incidents)

CallsOnce == Call!KeySpec
=============================================================================

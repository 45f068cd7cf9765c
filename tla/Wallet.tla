-------------------------------- MODULE Wallet --------------------------------
(***************************************************************************)
(* A user's wallet under concurrent requests: coins.credit and coins.debit *)
(* of packages/economy/src/coins.js, and the payout request of             *)
(* packages/api/src/services/paymentOrchestration.js, which patches the    *)
(* same balance directly.  All three take the Redis key                    *)
(* millo:lock:wallet:{userId}; the economy package releases it without     *)
(* looking whose it is (utils/redisLock.js), the API package compares a    *)
(* token first (lib/withRedisLock.js).  When its locked attempt throws,    *)
(* economy runs the same body a second time without any lock.              *)
(***************************************************************************)
EXTENDS Integers

CONSTANTS
  Users,
  Procs,      \* requests in flight, each handled once
  Amounts,    \* the amounts they ask for, in cents
  Opening,    \* bound: the largest opening balance
  Faults,     \* the faults that may happen: a subset of FaultKinds
  Free        \* the key is not set

FaultKinds == {"slow", "mongo", "redis", "crash"}

ASSUME AmountsAssumption == Amounts \subseteq Nat \ {0}
ASSUME OpeningAssumption == Opening \in Nat
ASSUME FaultsAssumption  == Faults \subseteq FaultKinds
ASSUME FreeAssumption    == Free \notin Procs

VARIABLES
  wallet,     \* Wallet.balanceCents
  ledger,     \* getLedgerBalance: the sum of the user's ledger rows
  reserved,   \* the sum of the user's payout requests
  lock,       \* whose SET created the key, or Free
  job,        \* the request each process handles
  pc,         \* the await it is at
  seen,       \* the balance it has read, 0 when it has no use for it
  locked,     \* it is on its first, locked attempt
  disturbed   \* history: a key lapsed under its owner, a call failed, or a
              \* body ran without the lock

vars == <<wallet, ledger, reserved, lock, job, pc, seen, locked, disturbed>>

Kinds   == {"credit", "debit", "withdraw"}
Request == [kind : Kinds, user : Users, amount : Amounts]
Body    == {"read", "write", "log", "audit"}
Leaving == {"succeeded", "failed"}        \* in the finally block
Inside  == Body \cup Leaving
Endings == {"returned", "threw", "contended", "crashed"}

TypeOK ==
  /\ wallet \in [Users -> Int]
  /\ ledger \in [Users -> Int]
  /\ reserved \in [Users -> Nat]
  /\ lock \in [Users -> Procs \cup {Free}]
  /\ job \in [Procs -> Request]
  /\ pc \in [Procs -> {"lock"} \cup Inside \cup Endings]
  /\ seen \in [Procs -> Int]
  /\ locked \in [Procs -> BOOLEAN]
  /\ disturbed \in BOOLEAN

Init ==
  /\ wallet \in [Users -> 0 .. Opening]
  /\ ledger = wallet
  /\ reserved = [u \in Users |-> 0]
  /\ lock = [u \in Users |-> Free]
  /\ job \in [Procs -> Request]
  /\ pc = [p \in Procs |-> "lock"]
  /\ seen = [p \in Procs |-> 0]
  /\ locked = [p \in Procs |-> TRUE]
  /\ disturbed = FALSE

User(p)   == job[p].user
Amount(p) == job[p].amount
Kind(p)   == job[p].kind
Economy(p) == Kind(p) \in {"credit", "debit"}

(* doDebit goes straight to its conditional update; the others read first. *)
BodyStart(p) == IF Kind(p) = "debit" THEN "write" ELSE "read"

Reply(outcome) == IF outcome = "succeeded" THEN "returned" ELSE "threw"

(* Where an attempt goes when its body ends: a locked one to the finally   *)
(* block, an unlocked one back to the caller.                              *)
BodyEnds(p, outcome) ==
  pc' = [pc EXCEPT ![p] = IF locked[p] THEN outcome ELSE Reply(outcome)]

-----------------------------------------------------------------------------
(* Mutant: SET without NX; whoever comes gets the key.                     *)
AcquireAlways(p) ==
  /\ pc[p] = "lock"
  /\ lock' = [lock EXCEPT ![User(p)] = p]
  /\ pc' = [pc EXCEPT ![p] = BodyStart(p)]
  /\ UNCHANGED <<wallet, ledger, reserved, job, seen, locked, disturbed>>

(* SET key NX PX: a try-lock, a held key is an error to the caller.        *)
Acquire(p) ==
  /\ pc[p] = "lock"
  /\ \/ /\ lock[User(p)] = Free
        /\ lock' = [lock EXCEPT ![User(p)] = p]
        /\ pc' = [pc EXCEPT ![p] = BodyStart(p)]
     \/ /\ lock[User(p)] # Free
        /\ pc' = [pc EXCEPT ![p] = "contended"]
        /\ UNCHANGED lock
  /\ UNCHANGED <<wallet, ledger, reserved, job, seen, locked, disturbed>>

(* Mutant: the payout request does not compare the amount to the balance.  *)
ReadBalanceOnly(p) ==
  /\ pc[p] = "read"
  /\ seen' = [seen EXCEPT ![p] = wallet[User(p)]]
  /\ pc' = [pc EXCEPT ![p] = "write"]
  /\ UNCHANGED <<wallet, ledger, reserved, lock, job, locked, disturbed>>

(* Wallet.findOne of doCredit and of the payout request, which refuses if  *)
(* the balance it has read, less what fraud holds, is too small, or if the *)
(* user has a pending request; so it may refuse whatever the balance is.   *)
ReadBalance(p) ==
  /\ pc[p] = "read"
  /\ seen' = [seen EXCEPT ![p] = wallet[User(p)]]
  /\ \/ /\ Kind(p) = "withdraw"
        /\ BodyEnds(p, "failed")
     \/ /\ Kind(p) = "withdraw" => wallet[User(p)] >= Amount(p)
        /\ pc' = [pc EXCEPT ![p] = "write"]
  /\ UNCHANGED <<wallet, ledger, reserved, lock, job, locked, disturbed>>

(* save() stores the balance computed from what was read; doDebit instead  *)
(* decrements in the database if the balance there is large enough.        *)
NewBalance(p) ==
  CASE Kind(p) = "credit"   -> seen[p] + Amount(p)
    [] Kind(p) = "withdraw" -> seen[p] - Amount(p)
    [] Kind(p) = "debit"    -> wallet[User(p)] - Amount(p)

(* Mutant: doDebit decrements without the $gte condition.                  *)
WriteBalanceUnguarded(p) ==
  /\ pc[p] = "write"
  /\ wallet' = [wallet EXCEPT ![User(p)] = NewBalance(p)]
  /\ seen' = [seen EXCEPT ![p] = 0]
  /\ pc' = [pc EXCEPT ![p] = "log"]
  /\ UNCHANGED <<ledger, reserved, lock, job, locked, disturbed>>

WriteBalance(p) ==
  /\ pc[p] = "write"
  /\ \/ /\ Kind(p) = "debit" => wallet[User(p)] >= Amount(p)
        /\ wallet' = [wallet EXCEPT ![User(p)] = NewBalance(p)]
        /\ seen' = [seen EXCEPT ![p] = 0]
        /\ pc' = [pc EXCEPT ![p] = "log"]
     \/ /\ Kind(p) = "debit" /\ wallet[User(p)] < Amount(p)
        /\ BodyEnds(p, "failed")
        /\ UNCHANGED <<wallet, seen>>
  /\ UNCHANGED <<ledger, reserved, lock, job, locked, disturbed>>

(* Mutant: a payout request stores the negative amount a debit row has.    *)
LogMovementNegated(p) ==
  /\ pc[p] = "log"
  /\ pc' = [pc EXCEPT ![p] = "audit"]
  /\ IF Economy(p)
     THEN /\ ledger' = [ledger EXCEPT ![User(p)] =
                          @ + IF Kind(p) = "credit" THEN Amount(p) ELSE -Amount(p)]
          /\ UNCHANGED reserved
     ELSE /\ reserved' = [reserved EXCEPT ![User(p)] = @ - Amount(p)]
          /\ UNCHANGED ledger
  /\ UNCHANGED <<wallet, lock, job, seen, locked, disturbed>>

(* ledger.appendEntry, or PayoutRequest.create for the payout request.     *)
LogMovement(p) ==
  /\ pc[p] = "log"
  /\ pc' = [pc EXCEPT ![p] = "audit"]
  /\ \/ /\ Kind(p) = "credit"
        /\ ledger' = [ledger EXCEPT ![User(p)] = @ + Amount(p)]
        /\ UNCHANGED reserved
     \/ /\ Kind(p) = "debit"
        /\ ledger' = [ledger EXCEPT ![User(p)] = @ - Amount(p)]
        /\ UNCHANGED reserved
     \/ /\ Kind(p) = "withdraw"
        /\ reserved' = [reserved EXCEPT ![User(p)] = @ + Amount(p)]
        /\ UNCHANGED ledger
  /\ UNCHANGED <<wallet, lock, job, seen, locked, disturbed>>

(* The financial audit row and the Transaction row end the body.           *)
WriteAudit(p) ==
  /\ pc[p] = "audit"
  /\ BodyEnds(p, "succeeded")
  /\ UNCHANGED <<wallet, ledger, reserved, lock, job, seen, locked, disturbed>>

(* A database call of the body throws.                                     *)
MongoFails(p) ==
  /\ "mongo" \in Faults
  /\ pc[p] \in Body
  /\ BodyEnds(p, "failed")
  /\ disturbed' = TRUE
  /\ UNCHANGED <<wallet, ledger, reserved, lock, job, seen, locked>>

(* After the lock the API hands its result on.  credit and debit catch     *)
(* whatever was thrown, and run the body again without the lock.           *)
AfterLock(p, outcome) ==
  IF Economy(p) /\ outcome = "failed"
  THEN /\ pc' = [pc EXCEPT ![p] = BodyStart(p)]
       /\ locked' = [locked EXCEPT ![p] = FALSE]
       /\ disturbed' = TRUE
  ELSE /\ pc' = [pc EXCEPT ![p] = Reply(outcome)]
       /\ UNCHANGED <<locked, disturbed>>

(* The finally block.  Economy deletes the key whoever set it; the API     *)
(* deletes it only if the token in it is its own.                          *)
Release(p) ==
  /\ pc[p] \in Leaving
  /\ lock' = IF Economy(p) \/ lock[User(p)] = p
             THEN [lock EXCEPT ![User(p)] = Free]
             ELSE lock
  /\ AfterLock(p, pc[p])
  /\ UNCHANGED <<wallet, ledger, reserved, job, seen>>

(* The release command is rejected and the key stays.  The API swallows    *)
(* that; in economy the rejection replaces the result, even a success.     *)
ReleaseFails(p) ==
  /\ "redis" \in Faults
  /\ pc[p] \in Leaving
  /\ AfterLock(p, IF Economy(p) THEN "failed" ELSE pc[p])
  /\ UNCHANGED <<wallet, ledger, reserved, lock, job, seen>>

Crash(p) ==
  /\ "crash" \in Faults
  /\ pc[p] \in Inside
  /\ pc' = [pc EXCEPT ![p] = "crashed"]
  /\ disturbed' = TRUE
  /\ UNCHANGED <<wallet, ledger, reserved, lock, job, seen, locked>>

(* The process that set u's key is still between its SET and its release.  *)
Working(u) == lock[u] # Free /\ pc[lock[u]] \in Inside /\ locked[lock[u]]

(* Redis drops the key when its PX runs out, which is before the end of    *)
(* the section only if the section is slow.                                *)
Lapse(u) ==
  /\ lock[u] # Free
  /\ Working(u) => "slow" \in Faults
  /\ lock' = [lock EXCEPT ![u] = Free]
  /\ disturbed' = (disturbed \/ Working(u))
  /\ UNCHANGED <<wallet, ledger, reserved, job, pc, seen, locked>>

Run(p) ==
  \/ Acquire(p)
  \/ ReadBalance(p)
  \/ WriteBalance(p)
  \/ LogMovement(p)
  \/ WriteAudit(p)
  \/ Release(p)

Next ==
  \/ \E p \in Procs : Run(p) \/ MongoFails(p) \/ ReleaseFails(p) \/ Crash(p)
  \/ \E u \in Users : Lapse(u)

Spec == Init /\ [][Next]_vars

-----------------------------------------------------------------------------
(* No interleaving, second attempt or lost lock overdraws a wallet.        *)
NonNegative == \A u \in Users : wallet[u] >= 0

(* What the owner of u's key has moved but not yet written down.           *)
InFlight(u) ==
  IF lock[u] # Free /\ pc[lock[u]] = "log" /\ User(lock[u]) = u
  THEN IF Kind(lock[u]) = "credit" THEN Amount(lock[u]) ELSE -Amount(lock[u])
  ELSE 0

(* The lock does its work: unless a key lapsed under its owner, a call     *)
(* failed or economy went on without the lock, the balance is what the     *)
(* ledger and the payout requests say, up to the movement in flight.       *)
Reconciled ==
  ~disturbed =>
    \A u \in Users : wallet[u] = ledger[u] - reserved[u] + InFlight(u)

(* What has become of a request that is at await a, or at its end.         *)
Reported(a) ==
  CASE a \in {"lock", "read", "write"}                 -> "open"
    [] a \in {"log", "audit", "succeeded", "returned"} -> "made"
    [] OTHER                                           -> "refused"

Promise == INSTANCE Account
             WITH request <- job, balance <- wallet, outcome <- [p \in Procs |-> Reported(pc[p])]

(* As long as nothing disturbs it, three requests of different code that   *)
(* read, compute and save are one movement each, made once if the balance  *)
(* of that instant covers it and then reported as made, or reported as     *)
(* refused and not made: every step is one of Account (coins.js credit and *)
(* debit, requestCreatorPayout, behind one key).                           *)
MovesAtOnce == Promise!Init /\ [][~disturbed' => Promise!Next]_(Promise!vars)

(* coins.test.js: "ledger balance matches wallet balance", once every call *)
(* has ended, whatever the calls were.  Double spending is impossible.     *)
BalanceMatchesLedger ==
  (\A p \in Procs : pc[p] \in Endings) =>
    \A u \in Users : wallet[u] = ledger[u] - reserved[u]
=============================================================================

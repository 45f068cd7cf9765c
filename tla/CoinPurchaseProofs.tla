-------------------------- MODULE CoinPurchaseProofs --------------------------
(***************************************************************************)
(* For any number of confirmations, deliveries, events and faults: the     *)
(* coins of one payment are added once, nobody is told of a purchase that  *)
(* did not happen, and the handlers implement Idempotency.                 *)
(***************************************************************************)
EXTENDS CoinPurchase, TLAPS

Points == {"idle", "done", "dead"} \cup Before \cup After

(* The type invariant by parts.                                            *)
SharedType == /\ marked \subseteq Events /\ acked \subseteq Events
              /\ key \in Procs \cup {Nobody} /\ record \in Outcomes \cup {Nobody}
EffectType == rows \in Nat /\ credits \in [Procs -> 0 .. 2] /\ applied \in [DirectEvents -> Nat]
LocalType  == /\ event \in [Procs -> Events \cup {Nobody}] /\ pc \in [Procs -> Points]
              /\ outcome \in [Procs -> Outcomes \cup {Nobody}]
              /\ told \in [Procs -> Answers \cup {Nobody}]
FaultType  == /\ incidents \subseteq Incidents
              /\ faults \in 0 .. FaultLimit /\ outages \in 0 .. OutageLimit

LEMMA Parts == /\ TypeOK <=> SharedType /\ EffectType /\ LocalType /\ FaultType
               /\ TypeOK' <=> (SharedType /\ EffectType /\ LocalType /\ FaultType)'
  BY DEF TypeOK, SharedType, EffectType, LocalType, FaultType, Points

(* What a process has at each await.                                       *)
Fresh == {"idle", "mark", "apply", "lock", "lookup", "check", "credit"}
Shape(p) ==
  /\ pc[p] \in Fresh => outcome[p] = Nobody
  /\ pc[p] \in Fresh \cup {"create", "replay"} => told[p] = Nobody
  /\ pc[p] \in {"create", "replay"} => outcome[p] # Nobody
  /\ pc[p] = "replay" => record # Nobody
  /\ pc[p] = "unlock" => told[p] # Nobody
  /\ outcome[p] # Nobody => outcome[p].by = p
  /\ p \in Deliveries /\ pc[p] # "idle" => event[p] \in Events
  /\ p \in Clients => pc[p] \notin {"mark", "apply", "respond"}
  /\ pc[p] = "apply" => event[p] \in DirectEvents
Typed == TypeOK /\ \A p \in Procs : Shape(p)

LEMMA NobodyApart ==
  /\ Nobody \notin Outcomes /\ Nobody \notin Procs /\ Nobody \notin Events
  /\ \A p \in Procs : Unknown(p) # Nobody /\ Unknown(p) \notin Outcomes /\ Unknown(p) \in Answers
  /\ Outcomes \subseteq Answers
<1>1. Outcomes \subseteq [status : {"completed", "failed", "unknown"}, by : Procs]
  BY DEF Outcomes
<1>2. \A p \in Procs : Unknown(p) \in [status : {"completed", "failed", "unknown"}, by : Procs]
  BY DEF Unknown
<1>3. \A p \in Procs : Unknown(p) \notin Outcomes
  BY DEF Outcomes, Unknown
<1>4. (\A p \in Procs : Unknown(p) \in Answers) /\ Outcomes \subseteq Answers
  BY DEF Answers
<1>5. QED
  BY <1>1, <1>2, <1>3, <1>4, NobodyAssumption

(* Only p moves.                                                           *)
Alone(p) == \A q \in Procs \ {p} : /\ pc'[q] = pc[q] /\ told'[q] = told[q]
                                   /\ outcome'[q] = outcome[q] /\ event'[q] = event[q]

LEMMA OthersShape ==
  ASSUME \A q \in Procs : Shape(q), NEW p \in Procs, Alone(p), Shape(p)',
         record # Nobody => record' # Nobody
  PROVE  (\A q \in Procs : Shape(q))'
  BY DEF Shape, Alone

LEMMA Moves == ASSUME LocalType, NEW p \in Procs, NEW x, Goto(p, x)
               PROVE  pc'[p] = x /\ (\A q \in Procs \ {p} : pc'[q] = pc[q])
                      /\ (x \in Points => pc' \in [Procs -> Points])
  BY DEF LocalType, Goto

LEMMA SameShared == ASSUME SharedType, UNCHANGED <<marked, acked, key, record>> PROVE SharedType'
  BY DEF SharedType
LEMMA SameEffects == ASSUME EffectType, UNCHANGED effects PROVE EffectType'
  BY DEF EffectType, effects
LEMMA SameFaults == ASSUME FaultType, UNCHANGED <<incidents, faults, outages>> PROVE FaultType'
  BY DEF FaultType

(* A step that only moves on.                                              *)
LEMMA GoesOn ==
  ASSUME LocalType, NEW p \in Procs, NEW x \in Points, Goto(p, x), UNCHANGED local
  PROVE  LocalType' /\ Alone(p) /\ pc'[p] = x
  BY Moves DEF LocalType, Alone, local

LEMMA IncidentType ==
  ASSUME FaultType, NEW i \in SUBSET Incidents, Happens(i) PROVE
  incidents' \subseteq Incidents /\ outages' \in 0 .. OutageLimit
  BY LimitsAssumption DEF FaultType, Happens

(* It answers its caller.                                                  *)
LEMMA Answers1 ==
  ASSUME LocalType, NEW p \in Procs, NEW o \in Answers, Answer(p, o), UNCHANGED <<event, outcome>>
  PROVE  LocalType' /\ Alone(p) /\ pc'[p] = "unlock" /\ told'[p] = o
<1>1. "unlock" \in Points
  BY DEF Points, After
<1>2. QED
  BY <1>1, Moves DEF LocalType, Answer, Alone

-----------------------------------------------------------------------------
LEMMA InitTyped == Init => Typed
<1> SUFFICES ASSUME Init PROVE Typed
  OBVIOUS
<1>1. SharedType
  BY DEF Init, SharedType
<1>2. EffectType
  <2>1. 0 \in 0 .. 2
    OBVIOUS
  <2>2. QED
    BY <2>1 DEF Init, EffectType
<1>3. LocalType
  BY DEF Init, LocalType, Points
<1>4. FaultType
  BY LimitsAssumption DEF Init, FaultType
<1>5. \A p \in Procs : Shape(p)
  BY DEF Init, Shape, Fresh
<1>6. QED
  BY <1>1, <1>2, <1>3, <1>4, <1>5, Parts DEF Typed

LEMMA ArrivalTyped ==
  ASSUME Typed, NEW p \in Procs, Confirm(p) \/ Deliver(p) PROVE Typed' /\ Alone(p)
<1>1. SharedType /\ EffectType /\ LocalType /\ FaultType /\ \A q \in Procs : Shape(q)
  BY Parts DEF Typed
<1>2. SharedType' /\ EffectType' /\ FaultType'
  BY <1>1, SameShared, SameEffects, SameFaults DEF Confirm, Deliver
<1>3. {"done", "lock", "mark"} \subseteq Points
  BY DEF Points, Before
<1>4. CASE Confirm(p)
  <2>1. LocalType' /\ Alone(p) /\ pc'[p] \in {"done", "lock"} /\ p \in Clients
    BY <1>1, <1>3, <1>4, GoesOn DEF Confirm
  <2>2. Shape(p)'
    BY <1>1, <1>4, <2>1, RolesAssumption DEF Shape, Fresh, Confirm, local
  <2>3. QED
    BY <1>1, <1>2, <1>4, <2>1, <2>2, OthersShape, Parts DEF Typed, Confirm
<1>5. CASE Deliver(p)
  <2>1. PICK e \in Events \ acked : event' = [event EXCEPT ![p] = e]
    BY <1>5 DEF Deliver
  <2>2. pc' \in [Procs -> Points] /\ pc'[p] = "mark" /\ \A q \in Procs \ {p} : pc'[q] = pc[q]
    BY <1>1, <1>3, <1>5, Moves DEF Deliver
  <2>3. LocalType' /\ Alone(p) /\ event'[p] = e
    BY <1>1, <1>5, <2>1, <2>2 DEF LocalType, Alone, Deliver
  <2>4. Shape(p)'
    BY <1>1, <1>5, <2>2, <2>3, RolesAssumption DEF Shape, Fresh, Deliver
  <2>5. QED
    BY <1>1, <1>2, <1>5, <2>3, <2>4, OthersShape, Parts DEF Typed, Deliver
<1>6. QED
  BY <1>4, <1>5

LEMMA MarkTyped == ASSUME Typed, NEW p \in Procs, Mark(p) PROVE Typed' /\ Alone(p)
<1>1. SharedType /\ EffectType /\ LocalType /\ FaultType /\ \A q \in Procs : Shape(q)
  BY Parts DEF Typed
<1>2. event[p] \in Events /\ p \notin Clients
  BY <1>1 DEF Mark, Shape, Procs
<1>3. SharedType' /\ EffectType'
  BY <1>1, <1>2, SameEffects DEF Mark, SharedType
<1>4. FaultType'
  <2>1. {"unmarked"} \in SUBSET Incidents
    BY DEF Incidents
  <2>2. QED
    BY <1>1, <2>1, IncidentType DEF Mark, FaultType, NothingHappens
<1>5. Goto(p, "respond") \/ Goto(p, "lock") \/ (Goto(p, "apply") /\ event[p] \in DirectEvents)
  BY DEF Mark, Handle
<1>6. {"respond", "lock", "apply"} \subseteq Points
  BY DEF Points, Before, After
<1>7. LocalType' /\ Alone(p) /\ pc'[p] \in {"respond", "lock", "apply"}
      /\ (pc'[p] = "apply" => event[p] \in DirectEvents)
  BY <1>1, <1>5, <1>6, GoesOn DEF Mark
<1>8. Shape(p)'
  BY <1>1, <1>2, <1>7 DEF Shape, Fresh, Mark, local
<1>9. QED
  BY <1>1, <1>3, <1>4, <1>7, <1>8, OthersShape, Parts DEF Typed, Mark

LEMMA ApplyTyped == ASSUME Typed, NEW p \in Procs, ApplyDirectly(p) PROVE Typed' /\ Alone(p)
<1>1. SharedType /\ EffectType /\ LocalType /\ FaultType /\ \A q \in Procs : Shape(q)
  BY Parts DEF Typed
<1>2. event[p] \in DirectEvents /\ p \notin Clients
  BY <1>1 DEF ApplyDirectly, Shape
<1>3. SharedType' /\ FaultType'
  BY <1>1, SameShared, SameFaults DEF ApplyDirectly
<1>4. EffectType'
  BY <1>1, <1>2 DEF ApplyDirectly, EffectType
<1>5. "respond" \in Points
  BY DEF Points, After
<1>6. LocalType' /\ Alone(p) /\ pc'[p] = "respond"
  BY <1>1, <1>5, GoesOn DEF ApplyDirectly
<1>7. Shape(p)'
  BY <1>1, <1>2, <1>6 DEF Shape, Fresh, ApplyDirectly, local
<1>8. QED
  BY <1>1, <1>3, <1>4, <1>6, <1>7, OthersShape, Parts DEF Typed, ApplyDirectly

LEMMA TakeMoneyLockTyped ==
  ASSUME Typed, NEW p \in Procs, TakeMoneyLock(p) PROVE Typed' /\ Alone(p)
<1>1. SharedType /\ EffectType /\ LocalType /\ FaultType /\ \A q \in Procs : Shape(q)
  BY Parts DEF Typed
<1>2. SharedType' /\ EffectType' /\ FaultType'
  BY <1>1, SameEffects DEF TakeMoneyLock, SharedType, FaultType, Incidents
<1>3. {"lookup", "done", "respond"} \subseteq Points
  BY DEF Points, Before, After, Calling
<1>4. /\ LocalType' /\ Alone(p) /\ pc'[p] \in {"lookup", "done", "respond"}
      /\ pc'[p] = "respond" => p \in Deliveries
  BY <1>1, <1>3, GoesOn DEF TakeMoneyLock
<1>5. Shape(p)'
  BY <1>1, <1>4, RolesAssumption DEF Shape, Fresh, TakeMoneyLock, local
<1>6. QED
  BY <1>1, <1>2, <1>4, <1>5, OthersShape, Parts DEF Typed, TakeMoneyLock

LEMMA LookupTyped == ASSUME Typed, NEW p \in Procs, Lookup(p) PROVE Typed' /\ Alone(p)
<1>1. SharedType /\ EffectType /\ LocalType /\ FaultType /\ \A q \in Procs : Shape(q)
  BY Parts DEF Typed
<1>2. SharedType' /\ EffectType' /\ FaultType'
  BY <1>1, SameShared, SameEffects, SameFaults DEF Lookup
<1>3. CASE record = Nobody
  <2>1. "check" \in Points
    BY DEF Points, Before, Calling
  <2>2. LocalType' /\ Alone(p) /\ pc'[p] = "check"
    BY <1>1, <1>3, <2>1, GoesOn DEF Lookup, local
  <2>3. Shape(p)'
    BY <1>1, <1>3, <2>2 DEF Shape, Fresh, Lookup
  <2>4. QED
    BY <1>1, <1>2, <2>2, <2>3, OthersShape, Parts DEF Typed, Lookup
<1>4. CASE record # Nobody
  <2>1. record \in Answers
    BY <1>1, <1>4, NobodyApart DEF SharedType
  <2>2. LocalType' /\ Alone(p) /\ pc'[p] = "unlock" /\ told'[p] = record
    BY <1>1, <1>4, <2>1, Answers1 DEF Lookup
  <2>3. Shape(p)'
    BY <1>1, <1>4, <2>2 DEF Shape, Fresh, Lookup
  <2>4. QED
    BY <1>1, <1>2, <2>2, <2>3, OthersShape, Parts DEF Typed, Lookup
<1>5. QED
  BY <1>3, <1>4

LEMMA EndsType ==
  ASSUME LocalType, NEW p \in Procs, NEW st \in {"completed", "failed"}, Ends(p, st)
  PROVE  /\ outcome' \in [Procs -> Outcomes \cup {Nobody}]
         /\ outcome'[p] = [status |-> st, by |-> p] /\ outcome'[p] \in Outcomes
         /\ outcome'[p] # Nobody /\ outcome'[p].by = p
         /\ \A q \in Procs \ {p} : outcome'[q] = outcome[q]
<1>1. [status |-> st, by |-> p] \in Outcomes
  BY DEF Outcomes
<1>2. QED
  BY <1>1, NobodyApart DEF LocalType, Ends

LEMMA CheckLedgerTyped ==
  ASSUME Typed, NEW p \in Procs, CheckLedger(p) PROVE Typed' /\ Alone(p)
<1>1. SharedType /\ EffectType /\ LocalType /\ FaultType /\ \A q \in Procs : Shape(q)
  BY Parts DEF Typed
<1>2. SharedType' /\ EffectType'
  BY <1>1, SameShared, SameEffects DEF CheckLedger
<1>3. FaultType'
  <2>1. {"unread"} \in SUBSET Incidents
    BY DEF Incidents
  <2>2. QED
    BY <1>1, <2>1, IncidentType DEF CheckLedger, FaultType, NothingHappens
<1>4. {"credit", "create"} \subseteq Points
  BY DEF Points, Before, Calling
<1>5. CASE Goto(p, "credit") /\ UNCHANGED outcome
  <2>1. LocalType' /\ Alone(p) /\ pc'[p] = "credit"
    BY <1>1, <1>4, <1>5, GoesOn DEF CheckLedger, local
  <2>2. Shape(p)'
    BY <1>1, <1>5, <2>1 DEF Shape, Fresh, CheckLedger
  <2>3. QED
    BY <1>1, <1>2, <1>3, <2>1, <2>2, OthersShape, Parts DEF Typed, CheckLedger
<1>6. ASSUME NEW st \in {"completed", "failed"}, Ends(p, st), Goto(p, "create")
      PROVE  Typed' /\ Alone(p)
  <2>1. LocalType' /\ Alone(p) /\ pc'[p] = "create"
    BY <1>1, <1>4, <1>6, Moves, EndsType DEF CheckLedger, LocalType, Alone
  <2>2. Shape(p)'
    BY <1>1, <1>6, <2>1, EndsType DEF Shape, Fresh, CheckLedger
  <2>3. QED
    BY <1>1, <1>2, <1>3, <2>1, <2>2, OthersShape, Parts DEF Typed, CheckLedger
<1>7. QED
  BY <1>5, <1>6 DEF CheckLedger

(* How a credit ends: with n movements of the wallet and r rows.           *)
LEMMA CreditEnds ==
  ASSUME rows \in Nat, NEW p \in Procs, Credit(p)
  PROVE  \E n \in 0 .. 2, r \in 0 .. 2, st \in {"completed", "failed"} :
           /\ Ends(p, st) /\ rows' = rows + r /\ r <= n /\ (st = "completed" => r > 0)
           /\ credits' = IF n = 0 THEN credits ELSE [credits EXCEPT ![p] = n]
           /\ \/ NothingHappens /\ n <= 1 /\ r = n /\ (st = "completed" <=> n = 1)
              \/ Happens({"doubtful"}) /\ n > 0
<1>1. CASE credits' = [credits EXCEPT ![p] = 1] /\ rows' = rows + 1 /\ Ends(p, "completed") /\ NothingHappens
  BY <1>1
<1>2. CASE Ends(p, "failed") /\ NothingHappens /\ UNCHANGED <<credits, rows>>
  BY <1>2
<1>3. ASSUME NEW n \in 1 .. 2, NEW r \in 0 .. n,
             credits' = [credits EXCEPT ![p] = n], rows' = rows + r, Happens({"doubtful"}),
             Ends(p, "failed") \/ (r > 0 /\ Ends(p, "completed"))
      PROVE  \E m \in 0 .. 2, s \in 0 .. 2, st \in {"completed", "failed"} :
               /\ Ends(p, st) /\ rows' = rows + s /\ s <= m /\ (st = "completed" => s > 0)
               /\ credits' = IF m = 0 THEN credits ELSE [credits EXCEPT ![p] = m]
               /\ \/ NothingHappens /\ m <= 1 /\ s = m /\ (st = "completed" <=> m = 1)
                  \/ Happens({"doubtful"}) /\ m > 0
  <2>1. n \in 0 .. 2 /\ r \in 0 .. 2 /\ r <= n /\ n > 0 /\ n # 0
    OBVIOUS
  <2>2. PICK st \in {"completed", "failed"} : Ends(p, st) /\ (st = "completed" => r > 0)
    BY <1>3
  <2>3. credits' = IF n = 0 THEN credits ELSE [credits EXCEPT ![p] = n]
    BY <1>3, <2>1
  <2>4. QED
    BY <1>3, <2>1, <2>2, <2>3
<1>4. QED
  BY <1>1, <1>2, <1>3 DEF Credit

LEMMA CreditTyped == ASSUME Typed, NEW p \in Procs, Credit(p) PROVE Typed' /\ Alone(p)
<1>1. SharedType /\ EffectType /\ LocalType /\ FaultType /\ \A q \in Procs : Shape(q)
  BY Parts DEF Typed
<1>2. SharedType'
  BY <1>1, SameShared DEF Credit
<1>3. PICK n \in 0 .. 2, r \in 0 .. 2, st \in {"completed", "failed"} :
        /\ Ends(p, st) /\ rows' = rows + r
        /\ credits' = [credits EXCEPT ![p] = n] \/ UNCHANGED credits
        /\ NothingHappens \/ Happens({"doubtful"})
  BY <1>1, CreditEnds DEF EffectType
<1>4. EffectType'
  BY <1>1, <1>3 DEF EffectType, Credit
<1>5. FaultType'
  <2>1. {"doubtful"} \in SUBSET Incidents
    BY DEF Incidents
  <2>2. QED
    BY <1>1, <1>3, <2>1, IncidentType DEF Credit, FaultType, NothingHappens
<1>6. "create" \in Points /\ Goto(p, "create")
  BY DEF Points, Before, Calling, Credit
<1>7. LocalType' /\ Alone(p) /\ pc'[p] = "create"
  BY <1>1, <1>3, <1>6, Moves, EndsType DEF Credit, LocalType, Alone
<1>8. Shape(p)'
  BY <1>1, <1>3, <1>7, EndsType DEF Shape, Fresh, Credit
<1>9. QED
  BY <1>1, <1>2, <1>4, <1>5, <1>7, <1>8, OthersShape, Parts DEF Typed, Credit

LEMMA CreateRecordTyped ==
  ASSUME Typed, NEW p \in Procs, CreateRecord(p) PROVE Typed' /\ Alone(p)
<1>1. SharedType /\ EffectType /\ LocalType /\ FaultType /\ \A q \in Procs : Shape(q)
  BY Parts DEF Typed
<1>2. outcome[p] \in Outcomes /\ outcome[p] # Nobody
  BY <1>1 DEF CreateRecord, Shape, LocalType
<1>3. SharedType' /\ EffectType' /\ FaultType'
  BY <1>1, <1>2, SameEffects, SameFaults DEF CreateRecord, SharedType
<1>4. CASE record = Nobody
  <2>1. LocalType' /\ Alone(p) /\ pc'[p] = "unlock" /\ told'[p] = outcome[p]
    BY <1>1, <1>2, <1>4, NobodyApart, Answers1 DEF CreateRecord
  <2>2. Shape(p)'
    BY <1>1, <1>2, <1>4, <2>1 DEF Shape, Fresh, CreateRecord
  <2>3. QED
    BY <1>1, <1>3, <1>4, <2>1, <2>2, OthersShape, Parts DEF Typed
<1>5. CASE record # Nobody
  <2>1. "replay" \in Points
    BY DEF Points, Before, Calling
  <2>2. LocalType' /\ Alone(p) /\ pc'[p] = "replay"
    BY <1>1, <1>5, <2>1, GoesOn DEF CreateRecord, local
  <2>3. Shape(p)'
    BY <1>1, <1>2, <1>5, <2>2 DEF Shape, Fresh, CreateRecord
  <2>4. QED
    BY <1>1, <1>3, <1>5, <2>2, <2>3, OthersShape, Parts DEF Typed, CreateRecord
<1>6. QED
  BY <1>4, <1>5

LEMMA ReplayTyped == ASSUME Typed, NEW p \in Procs, Replay(p) PROVE Typed' /\ Alone(p)
<1>1. SharedType /\ EffectType /\ LocalType /\ FaultType /\ \A q \in Procs : Shape(q)
  BY Parts DEF Typed
<1>2. record \in Answers /\ record # Nobody
  BY <1>1, NobodyApart DEF Replay, Shape, SharedType
<1>3. SharedType' /\ EffectType' /\ FaultType'
  BY <1>1, SameShared, SameEffects, SameFaults DEF Replay
<1>4. LocalType' /\ Alone(p) /\ pc'[p] = "unlock" /\ told'[p] = record
  BY <1>1, <1>2, Answers1 DEF Replay
<1>5. Shape(p)'
  BY <1>1, <1>2, <1>4 DEF Shape, Fresh, Replay
<1>6. QED
  BY <1>1, <1>3, <1>4, <1>5, OthersShape, Parts DEF Typed, Replay

LEMMA DatabaseFailsTyped ==
  ASSUME Typed, NEW p \in Procs, DatabaseFails(p) PROVE Typed' /\ Alone(p)
<1>1. SharedType /\ EffectType /\ LocalType /\ FaultType /\ \A q \in Procs : Shape(q)
  BY Parts DEF Typed
<1>2. SharedType' /\ EffectType'
  BY <1>1, SameShared, SameEffects DEF DatabaseFails
<1>3. FaultType'
  <2>1. faults' \in 0 .. FaultLimit
    BY <1>1, LimitsAssumption DEF DatabaseFails, FaultType
  <2>2. incidents' \subseteq Incidents
    BY <1>1 DEF DatabaseFails, FaultType, Incidents
  <2>3. outages' \in 0 .. OutageLimit
    BY <1>1 DEF DatabaseFails, FaultType
  <2>4. QED
    BY <2>1, <2>2, <2>3 DEF FaultType
<1>4. PICK o \in Answers : Answer(p, o) /\ o # Nobody
  <2>1. CASE Answer(p, Unknown(p))
    BY <2>1, NobodyApart
  <2>2. CASE pc[p] = "create" /\ Answer(p, outcome[p])
    BY <1>1, <2>2, NobodyApart DEF Shape, LocalType
  <2>3. QED
    BY <2>1, <2>2 DEF DatabaseFails
<1>5. LocalType' /\ Alone(p) /\ pc'[p] = "unlock" /\ told'[p] = o
  BY <1>1, <1>4, Answers1 DEF DatabaseFails
<1>6. pc[p] \in {"create", "lookup", "replay"}
  BY DEF DatabaseFails
<1>7. Shape(p)'
  BY <1>1, <1>4, <1>5, <1>6 DEF Shape, Fresh, DatabaseFails
<1>8. QED
  BY <1>1, <1>2, <1>3, <1>5, <1>7, OthersShape, Parts DEF Typed, DatabaseFails

LEMMA LeavingTyped ==
  ASSUME Typed, NEW p \in Procs, Unlock(p) \/ Respond(p) \/ Die(p) PROVE Typed' /\ Alone(p)
<1>1. SharedType /\ EffectType /\ LocalType /\ FaultType /\ \A q \in Procs : Shape(q)
  BY Parts DEF Typed
<1>2. p \in Clients \/ event[p] \in Events
  BY <1>1 DEF Unlock, Respond, Die, Shape, Procs, Before, After, Calling
<1>3. SharedType'
  BY <1>1, <1>2 DEF Unlock, Respond, Die, SharedType, Shape
<1>4. EffectType'
  BY <1>1, SameEffects DEF Unlock, Respond, Die
<1>5. FaultType'
  BY <1>1, LimitsAssumption DEF Unlock, Respond, Die, FaultType, Happens, NothingHappens
<1>6. {"done", "respond", "dead"} \subseteq Points
  BY DEF Points, After
<1>7. LocalType' /\ Alone(p) /\ pc'[p] \in {"done", "respond", "dead"} /\ (pc'[p] = "respond" => p \notin Clients)
  BY <1>1, <1>6, GoesOn DEF Unlock, Respond, Die
<1>8. Shape(p)'
  BY <1>1, <1>2, <1>7, RolesAssumption DEF Shape, Fresh, Unlock, Respond, Die, local
<1>9. QED
  BY <1>1, <1>3, <1>4, <1>5, <1>7, <1>8, OthersShape, Parts DEF Typed, Unlock, Respond, Die

LEMMA LockLapsesTyped == ASSUME Typed, LockLapses PROVE Typed'
<1>1. SharedType /\ EffectType /\ LocalType /\ FaultType /\ \A q \in Procs : Shape(q)
  BY Parts DEF Typed
<1>2. SharedType' /\ EffectType'
  BY <1>1, SameEffects DEF LockLapses, SharedType
<1>3. {"slow"} \in SUBSET Incidents
  BY DEF Incidents
<1>4. FaultType'
  BY <1>1, <1>3, IncidentType DEF LockLapses, FaultType, NothingHappens
<1>5. LocalType' /\ \A q \in Procs : Shape(q)'
  BY <1>1 DEF LockLapses, LocalType, Shape, local
<1>6. QED
  BY <1>2, <1>4, <1>5, Parts DEF Typed

Forgotten == \E e \in Events : MarkLapses(e)

LEMMA ForgottenFrame ==
  ASSUME Forgotten
  PROVE  /\ UNCHANGED <<acked, key, record, rows, credits, applied, event, outcome, told, pc, faults>>
         /\ marked' \subseteq marked /\ incidents' = incidents \cup {"unmarked"}
         /\ Happens({"unmarked"})
  BY DEF Forgotten, MarkLapses, Happens, effects, local

LEMMA ForgottenTyped == ASSUME Typed, Forgotten PROVE Typed'
<1>1. SharedType /\ EffectType /\ LocalType /\ FaultType /\ \A q \in Procs : Shape(q)
  BY Parts DEF Typed
<1>2. {"unmarked"} \in SUBSET Incidents
  BY DEF Incidents
<1>3. FaultType'
  BY <1>1, <1>2, IncidentType, ForgottenFrame DEF FaultType
<1>4. SharedType' /\ EffectType' /\ LocalType' /\ \A q \in Procs : Shape(q)'
  BY <1>1, ForgottenFrame DEF SharedType, EffectType, LocalType, Shape
<1>5. QED
  BY <1>3, <1>4, Parts DEF Typed

LEMMA StepTyped ==
  ASSUME Typed, NEW p \in Procs, Step(p) \/ Confirm(p) \/ Deliver(p) \/ DatabaseFails(p) \/ Die(p)
  PROVE  Typed' /\ Alone(p)
  BY ArrivalTyped, MarkTyped, ApplyTyped, TakeMoneyLockTyped, LookupTyped, CheckLedgerTyped,
     CreditTyped, CreateRecordTyped, ReplayTyped, DatabaseFailsTyped, LeavingTyped, Zenon DEF Step

LEMMA TypedInductive == Typed /\ [Next]_vars => Typed'
<1> SUFFICES ASSUME Typed, [Next]_vars PROVE Typed'
  OBVIOUS
<1>1. CASE UNCHANGED vars
  <2>1. SharedType' /\ EffectType' /\ LocalType' /\ FaultType'
    BY <1>1, Parts, SameShared, SameEffects, SameFaults DEF Typed, vars, LocalType, local
  <2>2. \A q \in Procs : Shape(q)'
    BY <1>1 DEF Typed, Shape, vars, local
  <2>3. QED
    BY <2>1, <2>2, Parts DEF Typed
<1>2. QED
  BY <1>1, StepTyped, LockLapsesTyped, ForgottenTyped, Zenon DEF Next, Forgotten

(* Every variable keeps its type, whoever acts in whatever order.          *)
THEOREM TypeCorrect == Spec => []TypeOK
<1>1. Typed => TypeOK
  BY DEF Typed
<1>2. QED
  BY <1>1, InitTyped, TypedInductive, PTL DEF Spec

-----------------------------------------------------------------------------
(* What is said to be complete is on the ledger, and what is on the ledger *)
(* is in the wallet.                                                       *)
Complete(o) == o # Nobody /\ o.status = "completed"
Backed ==
  /\ rows > 0 => \E q \in Procs : Credited(q)
  /\ \A p \in Procs : Complete(outcome[p]) \/ Complete(told[p]) => rows > 0
  /\ Complete(record) => rows > 0

LEMMA KeepsBacked ==
  ASSUME Typed, Backed, UNCHANGED <<rows, credits>>,
         Complete(record') => rows > 0,
         \A p \in Procs : Complete(outcome'[p]) \/ Complete(told'[p]) => rows > 0
  PROVE  Backed'
  BY DEF Backed, Credited, Complete

LEMMA CreditBacked == ASSUME Typed, Backed, NEW p \in Procs, Credit(p) PROVE Backed'
<1>1. EffectType /\ LocalType /\ Alone(p)
  BY CreditTyped, Parts DEF Typed
<1>2. PICK n \in 0 .. 2, r \in 0 .. 2, st \in {"completed", "failed"} :
        /\ Ends(p, st) /\ rows' = rows + r /\ r <= n /\ (st = "completed" => r > 0)
        /\ credits' = IF n = 0 THEN credits ELSE [credits EXCEPT ![p] = n]
  BY <1>1, CreditEnds DEF EffectType
<1>3. rows' >= rows /\ rows \in Nat /\ rows' \in Nat
  BY <1>1, <1>2 DEF EffectType
<1>4. ASSUME rows' > 0 PROVE \E q \in Procs : Credited(q)'
  <2>1. CASE n > 0
    <3>1. credits'[p] = n
      BY <1>1, <1>2, <2>1 DEF EffectType
    <3>2. QED
      BY <2>1, <3>1 DEF Credited
  <2>2. CASE n = 0
    BY <1>1, <1>2, <1>3, <1>4, <2>2 DEF Backed, Credited
  <2>3. QED
    BY <2>1, <2>2
<1>5. ASSUME NEW q \in Procs, Complete(outcome'[q]) \/ Complete(told'[q]) PROVE rows' > 0
  <2>1. CASE q = p /\ Complete(outcome'[q])
    <3>1. outcome'[p] = [status |-> st, by |-> p]
      BY <1>1, <1>2, EndsType
    <3>2. st = "completed"
      BY <2>1, <3>1 DEF Complete
    <3>3. QED
      BY <1>1, <1>2, <3>2 DEF EffectType
  <2>2. CASE Complete(told'[q]) \/ (q # p /\ Complete(outcome'[q]))
    <3>1. rows > 0
      BY <1>1, <1>5, <2>2 DEF Backed, Alone, Credit
    <3>2. QED
      BY <1>3, <3>1
  <2>3. QED
    BY <1>5, <2>1, <2>2
<1>6. Complete(record') => rows' > 0
  BY <1>3 DEF Backed, Credit
<1>7. QED
  BY <1>4, <1>5, <1>6 DEF Backed

LEMMA OtherBacked ==
  ASSUME Typed, Backed, NEW p \in Procs,
         (Step(p) /\ ~Credit(p)) \/ Confirm(p) \/ Deliver(p) \/ DatabaseFails(p) \/ Die(p)
  PROVE  Backed'
<1>1. Alone(p) /\ LocalType /\ SharedType
  BY StepTyped, Parts DEF Typed
<1>2. UNCHANGED <<rows, credits>>
  BY DEF Step, Mark, ApplyDirectly, TakeMoneyLock, Lookup, CheckLedger, CreateRecord, Replay, Unlock,
         Respond, Confirm, Deliver, DatabaseFails, Die, effects
<1>3. record' \in {record, outcome[p]}
  BY DEF Step, Mark, ApplyDirectly, TakeMoneyLock, Lookup, CheckLedger, CreateRecord, Replay, Unlock,
         Respond, Confirm, Deliver, DatabaseFails, Die
<1>4. told'[p] \in {told[p], record, outcome[p], Unknown(p)}
  <2>1. \/ UNCHANGED told
        \/ \E o \in {record, outcome[p], Unknown(p)} : told' = [told EXCEPT ![p] = o]
    BY DEF Step, Mark, ApplyDirectly, TakeMoneyLock, Lookup, CheckLedger, CreateRecord, Replay, Unlock,
           Respond, Confirm, Deliver, DatabaseFails, Die, Answer, local
  <2>2. QED
    BY <1>1, <2>1 DEF LocalType
<1>5. outcome'[p] = outcome[p] \/ outcome'[p].status = "failed" \/ rows > 0
  <2>1. CASE CheckLedger(p)
    <3>1. CASE Ends(p, "failed")
      <4>1. outcome'[p] = [status |-> "failed", by |-> p]
        BY <1>1, <3>1, EndsType
      <4>2. QED
        BY <4>1
    <3>2. QED
      BY <2>1, <3>1 DEF CheckLedger
  <2>2. CASE ~CheckLedger(p)
    BY <2>2 DEF Step, Mark, ApplyDirectly, TakeMoneyLock, Lookup, CreateRecord, Replay, Unlock,
                Respond, Confirm, Deliver, DatabaseFails, Die, local
  <2>3. QED
    BY <2>1, <2>2
<1>6. ~Complete(Unknown(p))
  BY DEF Complete, Unknown
<1>7. Complete(outcome'[p]) \/ Complete(told'[p]) => rows > 0
  BY <1>4, <1>5, <1>6 DEF Backed, Complete
<1>8. QED
  BY <1>1, <1>2, <1>3, <1>7, KeepsBacked DEF Backed, Alone

LEMMA BackedInductive == Typed /\ Backed /\ [Next]_vars => Backed'
<1> SUFFICES ASSUME Typed, Backed, [Next]_vars PROVE Backed'
  OBVIOUS
<1>1. CASE LockLapses \/ UNCHANGED vars
  BY <1>1, KeepsBacked DEF LockLapses, vars, local, effects, Backed
<1>2. CASE Forgotten
  BY <1>2, ForgottenFrame, KeepsBacked DEF Backed
<1>3. QED
  BY <1>1, <1>2, CreditBacked, OtherBacked, Zenon DEF Next, Forgotten

(* Nobody is told of a complete purchase that is not on the ledger and in  *)
(* the wallet, whatever fails, lapses or dies (payments.js:2403).          *)
THEOREM CompletionIsReal == Spec => []CompletedIsCredited
<1>1. Init => Typed /\ Backed
  BY InitTyped DEF Init, Backed, Complete
<1>2. (Typed /\ Backed) /\ [Next]_vars => (Typed /\ Backed)'
  BY TypedInductive, BackedInductive
<1>3. Backed => CompletedIsCredited
  BY DEF Backed, Complete, CompletedIsCredited
<1>4. QED
  BY <1>1, <1>2, <1>3, PTL DEF Spec

-----------------------------------------------------------------------------
(* While Redis keeps the marks, an event that is being applied is marked   *)
(* and has not been applied, and nobody else is applying it.               *)
Applying(p) == pc[p] = "apply" => event[p] \in marked /\ applied[event[p]] = 0
Marks ==
  "unmarked" \notin incidents =>
    /\ \A e \in DirectEvents : applied[e] <= 1 /\ (applied[e] > 0 => e \in marked)
    /\ \A p \in Procs : Applying(p)
    /\ \A p, q \in Procs : pc[p] = "apply" /\ pc[q] = "apply" /\ event[p] = event[q] => p = q

LEMMA MarkMarks == ASSUME Typed, Marks, NEW p \in Procs, Mark(p) PROVE Marks'
<1> SUFFICES ASSUME "unmarked" \notin incidents' PROVE Marks'
  BY DEF Marks
<1>1. Alone(p) /\ LocalType /\ EffectType
  BY MarkTyped, Parts DEF Typed
<1>2. ~Happens({"unmarked"}) /\ UNCHANGED incidents
  BY DEF Mark, Happens, NothingHappens
<1>3. UNCHANGED <<applied, event>>
  BY DEF Mark, effects, local
<1>4. CASE event[p] \in marked
  <2>1. pc'[p] # "apply" /\ UNCHANGED marked
    BY <1>1, <1>2, <1>4, Moves DEF Mark
  <2>2. QED
    BY <1>1, <1>2, <1>3, <2>1 DEF Marks, Applying, Alone
<1>5. CASE event[p] \notin marked
  <2>1. marked' = marked \cup {event[p]}
    BY <1>2, <1>5 DEF Mark
  <2>2. pc'[p] = "apply" => event[p] \in DirectEvents
    BY <1>1, <1>2, Moves DEF Mark, Handle
  <2>3. event[p] \in DirectEvents => applied[event[p]] = 0
    BY <1>1, <1>2, <1>5 DEF Marks, EffectType
  <2>4. \A q \in Procs \ {p} : pc[q] = "apply" => event[q] # event[p]
    BY <1>2, <1>5 DEF Marks, Applying
  <2>5. QED
    BY <1>1, <1>2, <1>3, <2>1, <2>2, <2>3, <2>4 DEF Marks, Applying, Alone
<1>6. QED
  BY <1>4, <1>5

LEMMA ApplyMarks == ASSUME Typed, Marks, NEW p \in Procs, ApplyDirectly(p) PROVE Marks'
<1> SUFFICES ASSUME "unmarked" \notin incidents PROVE Marks'
  BY DEF Marks, ApplyDirectly
<1>1. Alone(p) /\ LocalType /\ EffectType /\ EffectType' /\ event[p] \in DirectEvents
  BY ApplyTyped, Parts DEF Typed, Shape, ApplyDirectly
<1>2. UNCHANGED <<event, marked, incidents>> /\ pc'[p] = "respond"
  BY <1>1, Moves DEF ApplyDirectly, local
<1>3. event[p] \in marked /\ applied[event[p]] = 0
  BY DEF Marks, Applying, ApplyDirectly
<1>4. /\ applied'[event[p]] \in {0, 1}
      /\ \A e \in DirectEvents \ {event[p]} : applied'[e] = applied[e]
  BY <1>1, <1>3 DEF ApplyDirectly, EffectType
<1>5. \A e \in DirectEvents : applied'[e] <= 1 /\ (applied'[e] > 0 => e \in marked')
  BY <1>2, <1>3, <1>4 DEF Marks
<1>6. ASSUME NEW q \in Procs, pc'[q] = "apply" PROVE Applying(q)'
  <2>1. q # p /\ pc[q] = "apply"
    BY <1>1, <1>2, <1>6 DEF Alone
  <2>2. event[q] # event[p] /\ event[q] \in DirectEvents
    BY <2>1 DEF Marks, ApplyDirectly, Typed, Shape
  <2>3. QED
    BY <1>2, <1>4, <2>1, <2>2 DEF Marks, Applying
<1>7. \A q, r \in Procs : pc'[q] = "apply" /\ pc'[r] = "apply" /\ event'[q] = event'[r] => q = r
  BY <1>1, <1>2 DEF Marks, Alone
<1>8. QED
  BY <1>5, <1>6, <1>7 DEF Marks, Applying

LEMMA OtherMarks ==
  ASSUME Typed, Marks, NEW p \in Procs,
         \/ Step(p) /\ ~Mark(p) /\ ~ApplyDirectly(p)
         \/ Confirm(p) \/ Deliver(p) \/ DatabaseFails(p) \/ Die(p)
  PROVE  Marks'
<1>1. Alone(p) /\ LocalType
  BY StepTyped, Parts DEF Typed
<1>2. UNCHANGED <<marked, applied>> /\ incidents \subseteq incidents'
  BY DEF Step, TakeMoneyLock, Lookup, CheckLedger, Credit, CreateRecord, Replay, Unlock, Respond,
         Confirm, Deliver, DatabaseFails, Die, effects, Happens, NothingHappens
<1>3. pc'[p] # "apply"
  <2>1. \E x \in Points \ {"apply"} : Goto(p, x)
    BY DEF Step, TakeMoneyLock, Lookup, CheckLedger, Credit, CreateRecord, Replay, Unlock, Respond,
           Confirm, Deliver, DatabaseFails, Die, Answer, Points, Before, After, Calling
  <2>2. QED
    BY <1>1, <2>1, Moves
<1>4. QED
  BY <1>1, <1>2, <1>3 DEF Marks, Applying, Alone

LEMMA MarksInductive == Typed /\ Marks /\ [Next]_vars => Marks'
<1> SUFFICES ASSUME Typed, Marks, [Next]_vars PROVE Marks'
  OBVIOUS
<1>1. CASE LockLapses \/ UNCHANGED vars
  BY <1>1 DEF LockLapses, vars, local, effects, Happens, NothingHappens, Marks, Applying
<1>2. CASE Forgotten
  BY <1>2, ForgottenFrame DEF Marks
<1>3. QED
  BY <1>1, <1>2, MarkMarks, ApplyMarks, OtherMarks, Zenon DEF Next, Forgotten

(* However often a refund or a capture is delivered, it moves the balance  *)
(* once, as long as Redis answers and no mark lapses before the last       *)
(* delivery (payments.js:2249, 2829).                                      *)
THEOREM DirectEventsApplyOnce == Spec => []DirectlyOnce
<1>1. Init => Typed /\ Marks
  BY InitTyped DEF Init, Marks, Applying
<1>2. (Typed /\ Marks) /\ [Next]_vars => (Typed /\ Marks)'
  BY TypedInductive, MarksInductive
<1>3. Marks => DirectlyOnce
  BY DEF Marks, DirectlyOnce
<1>4. QED
  BY <1>1, <1>2, <1>3, PTL DEF Spec

-----------------------------------------------------------------------------
(* What the money lock gives the process that holds it, unless it lapses   *)
(* under its owner: the record and the ledger are as it has read them.     *)
Locking == Calling \cup {"unlock"}
Guards(p) ==
  /\ pc[p] \in Locking => key = p
  /\ pc[p] \in {"check", "credit"} => record = Nobody
  /\ pc[p] = "credit" => rows = 0
Exclusive == "slow" \notin incidents => \A p \in Procs : Guards(p)

(* What has been credited is one credit, and it is on the ledger.          *)
Single ==
  incidents \cap {"slow", "doubtful"} = {} =>
    /\ \A q \in Procs : Credited(q) => rows > 0 /\ credits[q] = 1
    /\ \A p, q \in Procs : Credited(p) /\ Credited(q) => p = q

(* A failure, on record or about to be, is one of a payment that is not.   *)
Failed(o) == o # Nobody /\ o.status = "failed"
Real ==
  incidents \cap {"slow", "doubtful", "unread"} = {} =>
    /\ Failed(record) => rows = 0
    /\ \A p \in Procs : pc[p] = "create" /\ Failed(outcome[p]) => rows = 0

Once == Typed /\ Exclusive /\ Single /\ Real

LEMMA IncidentsGrow == [Next]_vars => incidents \subseteq incidents'
  BY DEF Next, Step, Mark, ApplyDirectly, TakeMoneyLock, Lookup, CheckLedger, Credit, CreateRecord,
         Replay, Unlock, Respond, Confirm, Deliver, DatabaseFails, Die, LockLapses, MarkLapses, vars, Happens,
         NothingHappens

(* A step of one process, which holds the lock, or finds it free, or       *)
(* leaves it, the record and the ledger alone.                             *)
LEMMA StepExclusive ==
  ASSUME Exclusive, NEW p \in Procs, Alone(p), incidents \subseteq incidents',
         "slow" \notin incidents' => Guards(p)',
         pc[p] \in Locking \/ (UNCHANGED <<record, rows>> /\ key \in {key', Nobody})
  PROVE  Exclusive'
<1> SUFFICES ASSUME "slow" \notin incidents', NEW q \in Procs \ {p} PROVE Guards(q)'
  BY DEF Exclusive
<1>1. Guards(p) /\ Guards(q) /\ pc'[q] = pc[q] /\ q # Nobody
  BY NobodyAssumption DEF Exclusive, Alone
<1>2. {"check", "credit"} \subseteq Locking
  BY DEF Locking, Calling
<1>3. QED
  BY <1>1, <1>2 DEF Guards

LEMMA Unguarded == ASSUME NEW p \in Procs, pc'[p] \notin Locking PROVE Guards(p)'
  BY DEF Guards, Locking, Calling

LEMMA OutsideExclusive ==
  ASSUME Typed, Exclusive, [Next]_vars, NEW p \in Procs,
         Mark(p) \/ ApplyDirectly(p) \/ Respond(p) \/ Confirm(p) \/ Deliver(p) \/ Die(p)
  PROVE  Exclusive'
<1>1. Alone(p) /\ LocalType
  BY StepTyped, Parts DEF Typed, Step
<1>2. UNCHANGED <<record, rows, key>>
  BY DEF Mark, ApplyDirectly, Respond, Confirm, Deliver, Die, effects
<1>3. \E x \in {"lock", "apply", "respond", "done", "mark", "dead"} : Goto(p, x)
  BY DEF Mark, ApplyDirectly, Respond, Confirm, Deliver, Die, Handle
<1>4. pc'[p] \notin Locking
  BY <1>1, <1>3, Moves DEF Locking, Calling
<1>5. QED
  BY <1>1, <1>2, <1>4, Unguarded, StepExclusive, IncidentsGrow

LEMMA TakeExclusive ==
  ASSUME Typed, Exclusive, [Next]_vars, NEW p \in Procs, TakeMoneyLock(p) PROVE Exclusive'
<1>1. Alone(p) /\ LocalType
  BY StepTyped, Parts DEF Typed, Step
<1>2. UNCHANGED <<record, rows>> /\ key \in {key', Nobody}
  BY DEF TakeMoneyLock, effects
<1>3. (pc'[p] = "lookup" /\ key' = p) \/ pc'[p] \in {"done", "respond"}
  BY <1>1, Moves DEF TakeMoneyLock
<1>4. Guards(p)'
  BY <1>3 DEF Guards, Locking, Calling
<1>5. QED
  BY <1>1, <1>2, <1>4, StepExclusive, IncidentsGrow

LEMMA InsideExclusive ==
  ASSUME Typed, Exclusive, [Next]_vars, NEW p \in Procs,
         Lookup(p) \/ CheckLedger(p) \/ Credit(p) \/ CreateRecord(p) \/ Replay(p) \/ Unlock(p)
         \/ DatabaseFails(p)
  PROVE  Exclusive'
<1>1. Alone(p) /\ LocalType /\ pc[p] \in Locking /\ incidents \subseteq incidents'
  BY StepTyped, IncidentsGrow, Parts
  DEF Typed, Step, Locking, Calling, Lookup, CheckLedger, Credit, CreateRecord, Replay, Unlock,
      DatabaseFails
<1>2. ASSUME "slow" \notin incidents' PROVE Guards(p)'
  <2>1. Guards(p) /\ key = p
    BY <1>1, <1>2 DEF Exclusive, Guards
  <2>2. CASE Lookup(p) /\ record = Nobody
    <3>1. pc'[p] = "check" /\ UNCHANGED <<key, record>>
      BY <1>1, <2>2, Moves DEF Lookup
    <3>2. QED
      BY <2>1, <2>2, <3>1 DEF Guards
  <2>3. CASE CheckLedger(p)
    <3>1. UNCHANGED <<key, record, rows>> /\ (pc'[p] = "create" \/ (pc'[p] = "credit" /\ rows = 0))
      BY <1>1, <2>3, Moves DEF CheckLedger, effects
    <3>2. QED
      BY <2>1, <2>3, <3>1 DEF Guards, CheckLedger
  <2>4. CASE Unlock(p)
    <3>1. pc'[p] \in {"done", "respond"}
      BY <1>1, <2>4, Moves DEF Unlock
    <3>2. QED
      BY <3>1, Unguarded DEF Locking, Calling
  <2>5. CASE Credit(p) \/ CreateRecord(p) \/ Replay(p) \/ DatabaseFails(p) \/ (Lookup(p) /\ record # Nobody)
    <3>1. UNCHANGED key /\ (Goto(p, "create") \/ Goto(p, "replay") \/ Goto(p, "unlock"))
      BY <2>5 DEF Credit, CreateRecord, Replay, DatabaseFails, Lookup, Answer
    <3>2. pc'[p] \in {"create", "replay", "unlock"}
      BY <1>1, <3>1, Moves
    <3>3. QED
      BY <2>1, <3>1, <3>2 DEF Guards
  <2>6. QED
    BY <2>2, <2>3, <2>4, <2>5
<1>3. QED
  BY <1>1, <1>2, StepExclusive

LEMMA LapseExclusive == ASSUME Typed, Exclusive, LockLapses PROVE Exclusive'
<1> SUFFICES ASSUME "slow" \notin incidents', NEW q \in Procs PROVE Guards(q)'
  BY DEF Exclusive
<1>1. pc[key] = "dead" /\ UNCHANGED <<incidents, pc, record, rows>>
  BY DEF LockLapses, Happens, NothingHappens, effects
<1>2. Guards(q)
  BY <1>1 DEF Exclusive
<1>3. pc[q] \notin Locking
  BY <1>1, <1>2 DEF Guards, Locking, Calling
<1>4. QED
  BY <1>1, <1>3, Unguarded

LEMMA ExclusiveInductive == Typed /\ Exclusive /\ [Next]_vars => Exclusive'
<1> SUFFICES ASSUME Typed, Exclusive, [Next]_vars PROVE Exclusive'
  OBVIOUS
<1>1. CASE UNCHANGED vars
  BY <1>1 DEF vars, local, effects, Exclusive, Guards
<1>2. CASE Forgotten
  BY <1>2, ForgottenFrame DEF Exclusive, Guards
<1>3. QED
  BY <1>1, <1>2, OutsideExclusive, TakeExclusive, InsideExclusive, LapseExclusive, Zenon
  DEF Next, Step, Forgotten

LEMMA CreditOnce ==
  ASSUME Once, [Next]_vars, NEW p \in Procs, Credit(p) PROVE Single' /\ Real'
<1> SUFFICES ASSUME incidents' \cap {"slow", "doubtful"} = {} PROVE Single' /\ Real'
  BY DEF Single, Real
<1>1. /\ Typed /\ Alone(p) /\ EffectType /\ LocalType
      /\ incidents \cap {"slow", "doubtful"} = {} /\ Guards(p) /\ pc[p] = "credit"
  BY CreditTyped, IncidentsGrow, Parts DEF Once, Typed, Exclusive, Credit
<1>2. rows = 0 /\ record = Nobody /\ \A q \in Procs : ~Credited(q)
  BY <1>1 DEF Guards, Once, Single
<1>3. PICK n \in 0 .. 2, r \in 0 .. 2, st \in {"completed", "failed"} :
        /\ Ends(p, st) /\ rows' = rows + r /\ r <= n /\ (st = "completed" => r > 0)
        /\ credits' = IF n = 0 THEN credits ELSE [credits EXCEPT ![p] = n]
        /\ \/ NothingHappens /\ n <= 1 /\ r = n /\ (st = "completed" <=> n = 1)
           \/ Happens({"doubtful"}) /\ n > 0
  BY <1>1, CreditEnds DEF EffectType
<1>4. n \in {0, 1} /\ r = n /\ (st = "completed" <=> n = 1)
  BY <1>3 DEF Happens
<1>5. \A q \in Procs \ {p} : credits'[q] = credits[q] /\ ~Credited(q)'
  BY <1>1, <1>2, <1>3 DEF EffectType, Credited
<1>6. credits'[p] = n
  BY <1>1, <1>2, <1>3, <1>4 DEF EffectType, Credited
<1>7. Single'
  BY <1>2, <1>3, <1>4, <1>5, <1>6 DEF Single, Credited
<1>8. record' = Nobody
  BY <1>2 DEF Credit
<1>9. ASSUME NEW q \in Procs, pc'[q] = "create", Failed(outcome'[q]) PROVE rows' = 0
  <2>1. q = p
    BY <1>1, <1>9 DEF Alone, Once, Exclusive, Guards, Locking, Calling
  <2>2. outcome'[p] = [status |-> st, by |-> p]
    BY <1>1, <1>3, EndsType
  <2>3. st = "failed"
    BY <1>9, <2>1, <2>2 DEF Failed
  <2>4. QED
    BY <1>2, <1>3, <1>4, <2>3
<1>10. QED
  BY <1>7, <1>8, <1>9 DEF Real, Failed

LEMMA OtherOnce ==
  ASSUME Once, [Next]_vars, NEW p \in Procs,
         (Step(p) /\ ~Credit(p)) \/ Confirm(p) \/ Deliver(p) \/ DatabaseFails(p) \/ Die(p)
  PROVE  Single' /\ Real'
<1>1. Typed /\ Alone(p) /\ LocalType
  BY StepTyped, Parts DEF Once, Typed
<1>2. UNCHANGED <<rows, credits>> /\ incidents \subseteq incidents'
  BY IncidentsGrow
  DEF Step, Mark, ApplyDirectly, TakeMoneyLock, Lookup, CheckLedger, CreateRecord, Replay, Unlock,
      Respond, Confirm, Deliver, DatabaseFails, Die, effects
<1>3. Single'
  BY <1>2 DEF Once, Single, Credited
<1>4. record' = record \/ (record' = outcome[p] /\ pc[p] = "create")
  BY DEF Step, Mark, ApplyDirectly, TakeMoneyLock, Lookup, CheckLedger, CreateRecord, Replay, Unlock,
         Respond, Confirm, Deliver, DatabaseFails, Die
<1>5. ASSUME incidents' \cap {"slow", "doubtful", "unread"} = {}, pc'[p] = "create", Failed(outcome'[p])
      PROVE  FALSE
  <2>1. CASE CheckLedger(p)
    <3>1. ~Happens({"unread"})
      BY <1>5 DEF Happens
    <3>2. CASE Ends(p, "completed")
      <4>1. outcome'[p] = [status |-> "completed", by |-> p]
        BY <1>1, <3>2, EndsType
      <4>2. QED
        BY <1>5, <4>1 DEF Failed
    <3>3. CASE Goto(p, "credit")
      BY <1>1, <1>5, <3>3, Moves
    <3>4. QED
      BY <2>1, <3>1, <3>2, <3>3 DEF CheckLedger
  <2>2. CASE ~CheckLedger(p)
    <3>1. \E x \in Points \ {"create"} : Goto(p, x)
      BY <2>2 DEF Step, Mark, Handle, ApplyDirectly, TakeMoneyLock, Lookup, CreateRecord, Replay, Unlock,
                  Respond, Confirm, Deliver, DatabaseFails, Die, Answer, Points, Before, After, Calling
    <3>2. QED
      BY <1>1, <1>5, <3>1, Moves
  <2>3. QED
    BY <2>1, <2>2
<1>6. Real'
  BY <1>1, <1>2, <1>4, <1>5 DEF Once, Real, Alone
<1>7. QED
  BY <1>3, <1>6

LEMMA OnceInductive == Once /\ [Next]_vars => Once'
<1> SUFFICES ASSUME Once, [Next]_vars PROVE Once'
  OBVIOUS
<1>1. Typed' /\ Exclusive'
  BY TypedInductive, ExclusiveInductive DEF Once
<1>2. CASE LockLapses \/ Forgotten \/ UNCHANGED vars
  <2>1. UNCHANGED <<rows, credits, record, pc, outcome>> /\ incidents \subseteq incidents'
    BY <1>2, IncidentsGrow, ForgottenFrame DEF LockLapses, vars, local, effects
  <2>2. Single' /\ Real'
    BY <2>1 DEF Once, Single, Real, Credited
  <2>3. QED
    BY <1>1, <2>2 DEF Once
<1>3. Single' /\ Real'
  BY <1>1, <1>2, CreditOnce, OtherOnce, Zenon DEF Next, Once, Forgotten
<1>4. QED
  BY <1>1, <1>3 DEF Once

LEMMA InitOnce == Init => Once
<1> SUFFICES ASSUME Init PROVE Once
  OBVIOUS
<1>1. Exclusive
  BY DEF Init, Exclusive, Guards, Locking, Calling
<1>2. Single
  BY DEF Init, Single, Credited
<1>3. Real
  BY DEF Init, Real, Failed
<1>4. QED
  BY <1>1, <1>2, <1>3, InitTyped DEF Once

(* The coins of one payment are added once, however confirmations and      *)
(* deliveries overlap and fail, unless the lock lapses under its owner or  *)
(* economy.credit itself goes wrong (payments.js:2279, 2403, 413).         *)
THEOREM CreditedOnce == Spec => []CreditedAtMostOnce
<1>1. Once => CreditedAtMostOnce
  BY DEF Once, Single, CreditedAtMostOnce
<1>2. QED
  BY <1>1, InitOnce, OnceInductive, PTL DEF Spec

(* A failure on record, replayed to every later call, is one of a payment  *)
(* that was not credited, unless besides the ledger could not be read      *)
(* (payments.js:2330).                                                     *)
THEOREM RecordedFailureIsReal == Spec => []FailureIsReal
<1>1. Once => FailureIsReal
  <2> SUFFICES ASSUME Once, incidents \cap {"slow", "doubtful", "unread"} = {}, Failed(record),
                      NEW p \in Procs, Credited(p)
               PROVE  FALSE
    BY DEF FailureIsReal, Failed
  <2>1. rows = 0
    BY DEF Once, Real
  <2>2. rows > 0
    BY DEF Once, Single
  <2>3. QED
    BY <2>1, <2>2
<1>2. QED
  BY <1>1, InitOnce, OnceInductive, PTL DEF Spec

-----------------------------------------------------------------------------
(* The handlers implement executeWithIdempotency: every step is one of     *)
(* Idempotency's or leaves its state alone.                                *)
Bar        == [p \in Procs |-> Point(p)]
Took(p)    == Credited(p) \/ (outcome[p] # Nobody /\ outcome[p].status = "completed")
Taken      == {p \in Procs : Took(p)}
Unrecorded == "unrecorded" \in incidents

LEMMA BarStep == ASSUME NEW p \in Procs, Alone(p), NEW x, Point(p)' = x
                 PROVE  Bar' = [Bar EXCEPT ![p] = x]
  BY DEF Bar, Point, Alone

LEMMA TakenSame ==
  ASSUME NEW p \in Procs, Alone(p), UNCHANGED credits, Took(p)' <=> Took(p)
  PROVE  UNCHANGED Taken
<1>1. \A q \in Procs : Took(q)' <=> Took(q)
  BY DEF Alone, Took, Credited
<1>2. QED
  BY <1>1 DEF Taken

LEMMA TakenMore ==
  ASSUME NEW p \in Procs, Alone(p), \A q \in Procs \ {p} : credits'[q] = credits[q], Took(p)'
  PROVE  Taken' = Taken \cup {p}
<1>1. \A q \in Procs : Took(q)' <=> Took(q) \/ q = p
  BY DEF Alone, Took, Credited
<1>2. QED
  BY <1>1 DEF Taken

LEMMA NothingRecorded ==
  ASSUME NEW i \in SUBSET (Incidents \ {"unrecorded"}),
         incidents' = incidents \cup i \/ UNCHANGED incidents
  PROVE  UNCHANGED Unrecorded
  BY DEF Unrecorded

LEMMA BarInit == Init => Call!KeyInit
<1> SUFFICES ASSUME Init PROVE Call!KeyInit
  OBVIOUS
<1>1. \A p \in Procs : Point(p) = "lookup"
  BY DEF Init, Point
<1>2. \A p \in Procs : ~Took(p)
  BY DEF Init, Took, Credited
<1>3. QED
  BY <1>1, <1>2 DEF Init, Call!KeyInit, Took

(* Before the lookup, and after the answer, nothing happens.               *)
LEMMA Stutters ==
  ASSUME NEW p \in Procs, Alone(p), UNCHANGED <<record, outcome, credits, told, faults, incidents>>,
         Point(p)' = Point(p)
  PROVE  UNCHANGED Call!keyVars
<1>1. UNCHANGED Bar
  BY BarStep DEF Bar, Point, Alone
<1>2. UNCHANGED Taken /\ UNCHANGED Unrecorded
  BY DEF Taken, Took, Credited, Unrecorded
<1>3. QED
  BY <1>1, <1>2 DEF Call!keyVars, Bar, Taken, Took, Unrecorded

LEMMA OutsideMaps ==
  ASSUME Typed, NEW p \in Procs,
         \/ Confirm(p) \/ Deliver(p) \/ ApplyDirectly(p) \/ TakeMoneyLock(p) \/ Unlock(p)
         \/ Respond(p) \/ Mark(p)
  PROVE  UNCHANGED Call!keyVars
<1>1. Alone(p) /\ LocalType /\ Shape(p)
  BY StepTyped, Parts DEF Typed, Step
<1>2. UNCHANGED <<record, outcome, credits, told, faults>>
  BY DEF Confirm, Deliver, ApplyDirectly, TakeMoneyLock, Unlock, Respond, Mark, effects, local
<1>3. Point(p)' = Point(p)
  <2>1. \E x \in {"lock", "mark", "apply", "respond", "done", "lookup"} : Goto(p, x)
    BY DEF Confirm, Deliver, ApplyDirectly, TakeMoneyLock, Unlock, Respond, Mark, Handle
  <2>2. pc'[p] \notin {"check", "credit", "create", "replay", "dead"} /\ told'[p] = told[p]
    BY <1>1, <1>2, <2>1, Moves
  <2>3. pc[p] \notin {"check", "credit", "create", "replay", "dead"}
    BY DEF Confirm, Deliver, ApplyDirectly, TakeMoneyLock, Unlock, Respond, Mark
  <2>4. QED
    BY <2>2, <2>3 DEF Point
<1>4. UNCHANGED Unrecorded
  <2>1. {"unmarked"} \in SUBSET (Incidents \ {"unrecorded"})
        /\ {"refused"} \in SUBSET (Incidents \ {"unrecorded"})
    BY DEF Incidents
  <2>2. \/ incidents' = incidents \cup {"unmarked"} \/ UNCHANGED incidents
        \/ incidents' = incidents \cup {"refused"}
    BY DEF Confirm, Deliver, ApplyDirectly, TakeMoneyLock, Unlock, Respond, Mark, Happens, NothingHappens
  <2>3. QED
    BY <2>1, <2>2, NothingRecorded
<1>5. UNCHANGED Bar /\ UNCHANGED Taken
  BY <1>1, <1>2, <1>3, TakenSame DEF Bar, Point, Alone, Took, Credited
<1>6. QED
  BY <1>2, <1>4, <1>5 DEF Call!keyVars, Bar, Taken, Took, Unrecorded

(* A step with the parts that Idempotency names.                           *)
LEMMA LookupMaps == ASSUME Typed, NEW p \in Procs, Lookup(p) PROVE Call!Lookup(p)
<1>1. Alone(p) /\ LocalType /\ Shape(p)
  BY LookupTyped, Parts DEF Typed
<1>2. Point(p) = "lookup" /\ told[p] = Nobody /\ UNCHANGED <<record, outcome, credits, faults, incidents>>
  BY <1>1 DEF Shape, Fresh, Lookup, Point, effects, NothingHappens
<1>3. UNCHANGED Taken /\ UNCHANGED Unrecorded
  BY <1>1, <1>2, TakenSame DEF Took, Credited, Unrecorded
<1>4. CASE record = Nobody
  <2>1. pc'[p] = "check" /\ UNCHANGED told
    BY <1>1, <1>4, Moves DEF Lookup
  <2>2. Bar' = [Bar EXCEPT ![p] = "run"]
    BY <1>1, <1>2, <2>1, BarStep DEF Point
  <2>3. QED
    BY <1>2, <1>3, <1>4, <2>1, <2>2
    DEF Call!Lookup, Call!Proceed, Bar, Taken, Took, Unrecorded
<1>5. CASE record # Nobody
  <2>1. told' = [told EXCEPT ![p] = record] /\ told'[p] = record
    BY <1>1, <1>5 DEF Lookup, Answer, LocalType
  <2>2. Bar' = [Bar EXCEPT ![p] = "done"]
    BY <1>1, <1>5, <2>1, BarStep DEF Point
  <2>3. QED
    BY <1>2, <1>3, <1>5, <2>1, <2>2
    DEF Call!Lookup, Call!Answer, Call!Proceed, Bar, Taken, Took, Unrecorded
<1>6. QED
  BY <1>4, <1>5

(* An operation that ends, with effect or, if it fails, without.           *)
LEMMA RunMaps ==
  ASSUME Typed, NEW p \in Procs, Alone(p), pc[p] \in {"check", "credit"}, pc'[p] = "create",
         NEW st \in {"completed", "failed"}, Ends(p, st),
         UNCHANGED <<record, told, faults>>, UNCHANGED Unrecorded,
         Taken' = Taken \cup {p} \/ (st = "failed" /\ UNCHANGED Taken)
  PROVE  Call!RunOperation(p)
<1>1. Point(p) = "run" /\ Point(p)' = "create" /\ LocalType
  BY Parts DEF Typed, Shape, Fresh, Point
<1>2. Bar' = [Bar EXCEPT ![p] = "create"]
  BY <1>1, BarStep
<1>3. PICK out \in Outcomes : out.by = p /\ out.status = st /\ outcome' = [outcome EXCEPT ![p] = out]
  BY <1>1, EndsType DEF Ends
<1>4. \E x \in {o \in Call!Outcomes : o.by = p} :
        /\ outcome' = [outcome EXCEPT ![p] = x]
        /\ Taken' = Taken \cup {p} \/ (x.status = "failed" /\ UNCHANGED Taken)
  BY <1>3 DEF Outcomes, Call!Outcomes
<1>5. QED
  BY <1>1, <1>2, <1>4
  DEF Call!RunOperation, Call!Proceed, Bar, Taken, Took, Unrecorded

LEMMA CheckMaps ==
  ASSUME Typed, NEW p \in Procs, CheckLedger(p) PROVE Call!RunOperation(p) \/ UNCHANGED Call!keyVars
<1>1. Alone(p) /\ LocalType /\ Shape(p) /\ UNCHANGED <<record, told, faults, credits>> /\ pc[p] = "check"
  BY CheckLedgerTyped, Parts DEF Typed, CheckLedger, effects
<1>2. UNCHANGED Unrecorded
  <2>1. {"unread"} \in SUBSET (Incidents \ {"unrecorded"})
    BY DEF Incidents
  <2>2. QED
    BY <2>1, NothingRecorded DEF CheckLedger, Happens, NothingHappens
<1>3. outcome[p] = Nobody /\ told[p] = Nobody
  BY <1>1 DEF Shape, Fresh
<1>4. CASE Ends(p, "completed") /\ Goto(p, "create")
  <2>1. pc'[p] = "create" /\ outcome'[p] = [status |-> "completed", by |-> p] /\ outcome'[p] # Nobody
    BY <1>1, <1>4, Moves, EndsType
  <2>2. Took(p)'
    BY <2>1 DEF Took
  <2>3. Taken' = Taken \cup {p}
    BY <1>1, <2>2, TakenMore
  <2>4. QED
    BY <1>1, <1>2, <1>4, <2>1, <2>3, RunMaps
<1>5. CASE Ends(p, "failed") /\ Goto(p, "create")
  <2>1. pc'[p] = "create" /\ outcome'[p] = [status |-> "failed", by |-> p]
    BY <1>1, <1>5, Moves, EndsType
  <2>2. Took(p)' <=> Took(p)
    BY <1>1, <1>3, <2>1 DEF Took, Credited
  <2>3. UNCHANGED Taken
    BY <1>1, <2>2, TakenSame
  <2>4. QED
    BY <1>1, <1>2, <1>5, <2>1, <2>3, RunMaps
<1>6. CASE Goto(p, "credit") /\ NothingHappens /\ UNCHANGED outcome
  <2>1. pc'[p] = "credit"
    BY <1>1, <1>6, Moves
  <2>2. Point(p)' = Point(p)
    BY <1>1, <2>1 DEF Point
  <2>3. QED
    BY <1>1, <1>6, <2>2, Stutters DEF NothingHappens
<1>7. QED
  BY <1>4, <1>5, <1>6 DEF CheckLedger

LEMMA CreditMaps == ASSUME Typed, NEW p \in Procs, Credit(p) PROVE Call!RunOperation(p)
<1>1. /\ Alone(p) /\ LocalType /\ EffectType /\ Shape(p) /\ UNCHANGED <<record, told, faults>>
      /\ pc[p] = "credit" /\ pc'[p] = "create"
  BY CreditTyped, Moves, Parts DEF Typed, Credit
<1>2. UNCHANGED Unrecorded
  <2>1. {"doubtful"} \in SUBSET (Incidents \ {"unrecorded"})
    BY DEF Incidents
  <2>2. QED
    BY <2>1, NothingRecorded DEF Credit, Happens, NothingHappens
<1>3. PICK n \in 0 .. 2, r \in 0 .. 2, st \in {"completed", "failed"} :
        /\ Ends(p, st) /\ r <= n /\ (st = "completed" => r > 0)
        /\ credits' = IF n = 0 THEN credits ELSE [credits EXCEPT ![p] = n]
  BY <1>1, CreditEnds DEF EffectType
<1>4. outcome[p] = Nobody /\ outcome'[p] = [status |-> st, by |-> p]
  BY <1>1, <1>3, EndsType DEF Shape, Fresh
<1>5. CASE n = 0
  <2>1. st = "failed" /\ UNCHANGED credits
    BY <1>3, <1>5
  <2>2. Took(p)' <=> Took(p)
    BY <1>4, <2>1 DEF Took, Credited
  <2>3. UNCHANGED Taken
    BY <1>1, <2>1, <2>2, TakenSame
  <2>4. QED
    BY <1>1, <1>2, <1>3, <2>1, <2>3, RunMaps
<1>6. CASE n # 0
  <2>1. credits'[p] = n /\ \A q \in Procs \ {p} : credits'[q] = credits[q]
    BY <1>1, <1>3, <1>6 DEF EffectType
  <2>2. Took(p)'
    BY <1>6, <2>1 DEF Took, Credited
  <2>3. Taken' = Taken \cup {p}
    BY <1>1, <2>1, <2>2, TakenMore
  <2>4. QED
    BY <1>1, <1>2, <1>3, <2>3, RunMaps
<1>7. QED
  BY <1>5, <1>6

LEMMA RecordMaps ==
  ASSUME Typed, NEW p \in Procs, CreateRecord(p) \/ Replay(p) \/ DatabaseFails(p)
  PROVE  Call!CreateRecord(p) \/ Call!Replay(p) \/ Call!DatabaseFails(p)
<1>1. /\ Alone(p) /\ LocalType /\ SharedType /\ Shape(p) /\ UNCHANGED <<outcome, credits>>
      /\ pc[p] \in {"create", "replay", "lookup"}
  BY StepTyped, Parts DEF Typed, Step, CreateRecord, Replay, DatabaseFails, effects
<1>2. Point(p) = pc[p] /\ told[p] = Nobody
  BY <1>1 DEF Shape, Fresh, Point
<1>3. UNCHANGED Taken
  BY <1>1, TakenSame DEF Took, Credited
<1>4. ASSUME NEW o, o # Nobody, Answer(p, o)
      PROVE  told' = [told EXCEPT ![p] = o] /\ Bar' = [Bar EXCEPT ![p] = "done"]
  <2>1. told' = [told EXCEPT ![p] = o] /\ told'[p] = o
    BY <1>1, <1>4 DEF Answer, LocalType
  <2>2. QED
    BY <1>1, <1>4, <2>1, BarStep DEF Point
<1>5. CASE CreateRecord(p)
  <2>1. UNCHANGED faults /\ UNCHANGED Unrecorded /\ outcome[p] # Nobody
    BY <1>1, <1>5 DEF CreateRecord, Unrecorded, Shape
  <2>2. CASE record = Nobody
    <3>1. record' = outcome[p] /\ Answer(p, outcome[p])
      BY <1>5, <2>2 DEF CreateRecord
    <3>2. QED
      BY <1>2, <1>3, <1>4, <1>5, <2>1, <2>2, <3>1
      DEF CreateRecord, Call!CreateRecord, Call!Answer, Call!Proceed, Bar, Taken, Took, Unrecorded
  <2>3. CASE record # Nobody
    <3>1. pc'[p] = "replay" /\ UNCHANGED <<record, told>>
      BY <1>1, <1>5, <2>3, Moves DEF CreateRecord
    <3>2. Bar' = [Bar EXCEPT ![p] = "replay"]
      BY <1>1, <1>2, <3>1, BarStep DEF Point
    <3>3. QED
      BY <1>2, <1>3, <1>5, <2>1, <2>3, <3>1, <3>2
      DEF CreateRecord, Call!CreateRecord, Call!Proceed, Bar, Taken, Took, Unrecorded
  <2>4. QED
    BY <2>2, <2>3
<1>6. CASE Replay(p)
  <2>1. UNCHANGED <<faults, record>> /\ UNCHANGED Unrecorded /\ record # Nobody /\ Answer(p, record)
    BY <1>1, <1>6 DEF Replay, Unrecorded, Shape
  <2>2. QED
    BY <1>2, <1>3, <1>4, <1>6, <2>1
    DEF Replay, Call!Replay, Call!Answer, Call!Proceed, Bar, Taken, Took, Unrecorded
<1>7. CASE DatabaseFails(p)
  <2>1. faults < FaultLimit /\ faults' = faults + 1 /\ UNCHANGED record
    BY <1>7 DEF DatabaseFails
  <2>2. CASE pc[p] = "create" /\ outcome[p].status = "failed" /\ Answer(p, outcome[p])
             /\ incidents' = incidents \cup {"unrecorded"}
    <3>1. outcome[p] # Nobody /\ Unrecorded'
      BY <1>1, <2>2 DEF Shape, Unrecorded
    <3>2. QED
      BY <1>1, <1>2, <1>3, <1>4, <2>1, <2>2, <3>1
      DEF Call!DatabaseFails, Call!Answer, Call!Proceed, Bar, Taken, Took, Unrecorded
  <2>3. CASE /\ pc[p] \in {"lookup", "replay"} \/ (pc[p] = "create" /\ outcome[p].status = "completed")
             /\ Answer(p, Unknown(p)) /\ UNCHANGED incidents
    <3>1. Unknown(p) # Nobody /\ Unknown(p) = Call!Unknown(p) /\ UNCHANGED Unrecorded
      BY <2>3, NobodyApart DEF Unknown, Call!Unknown, Unrecorded
    <3>2. QED
      BY <1>1, <1>2, <1>3, <1>4, <2>1, <2>3, <3>1
      DEF Call!DatabaseFails, Call!Answer, Call!Proceed, Bar, Taken, Took, Unrecorded
  <2>4. QED
    BY <1>7, <2>2, <2>3 DEF DatabaseFails
<1>8. QED
  BY <1>5, <1>6, <1>7

LEMMA DieMaps == ASSUME Typed, NEW p \in Procs, Die(p) PROVE Call!Die(p) \/ UNCHANGED Call!keyVars
<1>1. /\ Alone(p) /\ LocalType /\ Shape(p) /\ pc'[p] = "dead"
      /\ UNCHANGED <<record, outcome, credits, told, incidents>>
  <2>1. Alone(p) /\ LocalType /\ Shape(p)
    BY StepTyped, Parts DEF Typed
  <2>2. pc'[p] = "dead"
    BY <2>1, Moves DEF Die
  <2>3. incidents \cup {} = incidents
    OBVIOUS
  <2>4. UNCHANGED <<record, outcome, credits, told, incidents>>
    BY <2>3 DEF Die, Happens, NothingHappens, local, effects
  <2>5. QED
    BY <2>1, <2>2, <2>4
<1>2. CASE told[p] # Nobody /\ UNCHANGED faults
  <2>1. Point(p)' = Point(p)
    BY <1>1, <1>2 DEF Point
  <2>2. QED
    BY <1>1, <1>2, <2>1, Stutters
<1>3. CASE told[p] = Nobody /\ faults < FaultLimit /\ faults' = faults + 1
  <2>1. Point(p)' = "dead"
    BY <1>1, <1>3 DEF Point
  <2>2. Point(p) \in {"lookup", "run", "create", "replay"}
    BY <1>3 DEF Point, Die, Before, After, Calling
  <2>3. Bar' = [Bar EXCEPT ![p] = "dead"] /\ UNCHANGED Taken /\ UNCHANGED Unrecorded
    BY <1>1, <2>1, BarStep, TakenSame DEF Took, Credited, Unrecorded
  <2>4. QED
    BY <1>1, <1>3, <2>2, <2>3
    DEF Call!Die, Call!Stages, Call!Proceed, Bar, Taken, Took, Unrecorded
<1>4. QED
  BY <1>2, <1>3 DEF Die

LEMMA BarSteps == Typed /\ [Next]_vars => [Call!KeyNext]_(Call!keyVars)
<1> SUFFICES ASSUME Typed, [Next]_vars PROVE Call!KeyNext \/ UNCHANGED Call!keyVars
  OBVIOUS
<1>1. CASE LockLapses \/ Forgotten \/ UNCHANGED vars
  <2>1. UNCHANGED <<record, outcome, credits, told, faults, pc>>
    BY <1>1, ForgottenFrame DEF LockLapses, vars, local, effects
  <2>2. UNCHANGED Unrecorded
    <3>1. {"slow"} \in SUBSET (Incidents \ {"unrecorded"})
          /\ {"unmarked"} \in SUBSET (Incidents \ {"unrecorded"})
      BY DEF Incidents
    <3>2. \/ incidents' = incidents \cup {"slow"} \/ UNCHANGED incidents
          \/ incidents' = incidents \cup {"unmarked"}
      BY <1>1, ForgottenFrame DEF LockLapses, Happens, NothingHappens, vars
    <3>3. QED
      BY <3>1, <3>2, NothingRecorded
  <2>3. UNCHANGED Bar /\ UNCHANGED Taken
    BY <2>1 DEF Bar, Point, Taken, Took, Credited
  <2>4. QED
    BY <2>1, <2>2, <2>3 DEF Call!keyVars, Bar, Taken, Took, Unrecorded
<1>2. ASSUME NEW p \in Procs,
             Step(p) \/ Confirm(p) \/ Deliver(p) \/ DatabaseFails(p) \/ Die(p)
      PROVE  Call!KeyNext \/ UNCHANGED Call!keyVars
  BY <1>2, OutsideMaps, LookupMaps, CheckMaps, CreditMaps, RecordMaps, DieMaps, Zenon
  DEF Step, Call!KeyNext
<1>3. QED
  BY <1>1, <1>2 DEF Next, Forgotten

(* The confirmation and the payment events use executeWithIdempotency as   *)
(* it is meant: what Idempotency promises of its key holds of the purchase *)
(* (payments.js:2290, 2413).                                               *)
THEOREM ImplementsIdempotency == Spec => CallsOnce
<1>1. QED
  BY BarInit, InitTyped, TypedInductive, BarSteps, PTL DEF Spec, CallsOnce, Call!KeySpec
=============================================================================

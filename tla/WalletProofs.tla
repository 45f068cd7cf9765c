----------------------------- MODULE WalletProofs -----------------------------
(***************************************************************************)
(* What is proved of the wallet for any users, requests, amounts, opening  *)
(* balances and faults: its types, that it is never overdrawn, and that    *)
(* the lock keeps it equal to the ledger until something disturbs it.      *)
(***************************************************************************)
EXTENDS Wallet, TLAPS

USE AmountsAssumption, OpeningAssumption, FreeAssumption

LEMMA RequestFields ==
  ASSUME TypeOK, NEW p \in Procs
  PROVE  /\ User(p) \in Users
         /\ Amount(p) \in Nat /\ Amount(p) > 0
         /\ Kind(p) \in Kinds
<1>1. job[p] \in Request
  BY DEF TypeOK
<1>2. /\ job[p].user \in Users
      /\ job[p].amount \in Amounts
      /\ job[p].kind \in Kinds
  BY <1>1 DEF Request
<1>3. job[p].amount \in Nat \ {0}
  BY <1>2
<1>4. QED
  BY <1>2, <1>3 DEF User, Amount, Kind

LEMMA NewBalanceIsInt ==
  ASSUME TypeOK, NEW p \in Procs
  PROVE  NewBalance(p) \in Int
<1>1. seen[p] \in Int /\ wallet[User(p)] \in Int
  BY RequestFields DEF TypeOK
<1>2. QED
  BY <1>1, RequestFields DEF NewBalance, Kinds

(* Every reachable state is well typed.                                    *)
THEOREM TypeCorrect == Spec => []TypeOK
<1>1. Init => TypeOK
  <2> SUFFICES ASSUME Init PROVE TypeOK
    OBVIOUS
  <2>1. wallet \in [Users -> Int] /\ ledger \in [Users -> Int]
    BY DEF Init
  <2>2. lock \in [Users -> Procs \cup {Free}] /\ job \in [Procs -> Request]
    BY DEF Init
  <2>3. pc \in [Procs -> {"lock"} \cup Inside \cup Endings]
    BY DEF Init
  <2>4. reserved \in [Users -> Nat] /\ seen \in [Procs -> Int] /\ locked \in [Procs -> BOOLEAN]
    BY DEF Init
  <2>5. disturbed \in BOOLEAN
    BY DEF Init
  <2>6. QED
    BY <2>1, <2>2, <2>3, <2>4, <2>5, Zenon DEF TypeOK
<1>2. TypeOK /\ [Next]_vars => TypeOK'
  <2> SUFFICES ASSUME TypeOK, [Next]_vars PROVE TypeOK'
    OBVIOUS
  <2> USE DEF TypeOK
  <2>1. ASSUME NEW p \in Procs PROVE BodyStart(p) \in {"read", "write"}
    BY DEF BodyStart
  <2>2. ASSUME NEW p \in Procs, NEW o \in Leaving, BodyEnds(p, o)
        PROVE  pc' \in [Procs -> {"lock"} \cup Inside \cup Endings]
    BY <2>2 DEF BodyEnds, Reply, Inside, Endings, Leaving
  <2>3. ASSUME NEW p \in Procs, NEW o \in Leaving, AfterLock(p, o)
        PROVE  /\ pc' \in [Procs -> {"lock"} \cup Inside \cup Endings]
               /\ locked' \in [Procs -> BOOLEAN]
               /\ disturbed' \in BOOLEAN
    BY <2>1, <2>3 DEF AfterLock, Reply, Inside, Body, Endings
  <2>4. ASSUME NEW p \in Procs, Acquire(p) PROVE TypeOK'
    BY <2>1, <2>4, RequestFields DEF Acquire, Inside, Body, Endings
  <2>5. ASSUME NEW p \in Procs, ReadBalance(p) PROVE TypeOK'
    <3>1. pc' \in [Procs -> {"lock"} \cup Inside \cup Endings]
      BY <2>2, <2>5 DEF ReadBalance, Inside, Body, Leaving
    <3>2. seen' \in [Procs -> Int]
      BY <2>5, RequestFields DEF ReadBalance
    <3>3. QED
      BY <2>5, <3>1, <3>2 DEF ReadBalance
  <2>6. ASSUME NEW p \in Procs, WriteBalance(p) PROVE TypeOK'
    <3>1. pc' \in [Procs -> {"lock"} \cup Inside \cup Endings]
      BY <2>2, <2>6 DEF WriteBalance, Inside, Body, Leaving
    <3>2. wallet' \in [Users -> Int] /\ seen' \in [Procs -> Int]
      BY <2>6, RequestFields, NewBalanceIsInt DEF WriteBalance
    <3>3. QED
      BY <2>6, <3>1, <3>2 DEF WriteBalance
  <2>7. ASSUME NEW p \in Procs, LogMovement(p) PROVE TypeOK'
    <3>1. ledger' \in [Users -> Int] /\ reserved' \in [Users -> Nat]
      BY <2>7, RequestFields DEF LogMovement
    <3>2. QED
      BY <2>7, <3>1 DEF LogMovement, Inside, Body
  <2>8. ASSUME NEW p \in Procs, WriteAudit(p) PROVE TypeOK'
    BY <2>2, <2>8 DEF WriteAudit, Leaving
  <2>9. ASSUME NEW p \in Procs, MongoFails(p) PROVE TypeOK'
    BY <2>2, <2>9 DEF MongoFails, Leaving
  <2>10. ASSUME NEW p \in Procs, Release(p) PROVE TypeOK'
    BY <2>3, <2>10, RequestFields DEF Release
  <2>11. ASSUME NEW p \in Procs, ReleaseFails(p) PROVE TypeOK'
    BY <2>3, <2>11 DEF ReleaseFails, Leaving
  <2>12. ASSUME NEW p \in Procs, Crash(p) PROVE TypeOK'
    BY <2>12 DEF Crash, Endings
  <2>13. ASSUME NEW u \in Users, Lapse(u) PROVE TypeOK'
    BY <2>13 DEF Lapse, Working
  <2>14. CASE UNCHANGED vars
    BY <2>14 DEF vars
  <2>15. QED
    BY <2>4, <2>5, <2>6, <2>7, <2>8, <2>9, <2>10, <2>11, <2>12, <2>13, <2>14 DEF Next, Run
<1>3. QED
  BY <1>1, <1>2, PTL DEF Spec

-----------------------------------------------------------------------------
(* A balance about to be stored was computed from a balance that covered   *)
(* it, however stale it may be by now.                                     *)
Covered ==
  \A p \in Procs : pc[p] = "write" =>
    /\ Kind(p) = "credit" => seen[p] >= 0
    /\ Kind(p) = "withdraw" => seen[p] >= Amount(p)

LEMMA StaysCovered == Spec => [](NonNegative /\ Covered)
<1>1. Init => NonNegative /\ Covered
  BY DEF Init, NonNegative, Covered
<1>2. TypeOK /\ NonNegative /\ Covered /\ [Next]_vars => (NonNegative /\ Covered)'
  <2> SUFFICES ASSUME TypeOK, NonNegative, Covered, [Next]_vars
               PROVE  NonNegative' /\ Covered'
    OBVIOUS
  <2> USE DEF TypeOK, NonNegative, Covered
  <2>1. ASSUME NEW p \in Procs, UNCHANGED <<wallet, seen, job>>,
               NEW l, l # "write", pc' = [pc EXCEPT ![p] = l]
        PROVE  NonNegative' /\ Covered'
    BY <2>1 DEF Kind, Amount
  <2>2. ASSUME NEW p \in Procs, NEW o \in Leaving, BodyEnds(p, o)
        PROVE  \E l : l # "write" /\ pc' = [pc EXCEPT ![p] = l]
    BY <2>2 DEF BodyEnds, Reply, Leaving
  <2>3. ASSUME NEW p \in Procs, NEW l, pc' = [pc EXCEPT ![p] = l],
               l = "write" => Kind(p) = "debit", UNCHANGED <<wallet, seen, job>>
        PROVE  NonNegative' /\ Covered'
    BY <2>3 DEF Kind, Amount
  <2>4. ASSUME NEW p \in Procs, Acquire(p) PROVE NonNegative' /\ Covered'
    BY <2>3, <2>4 DEF Acquire, BodyStart
  <2>5. ASSUME NEW p \in Procs, ReadBalance(p) PROVE NonNegative' /\ Covered'
    <3>1. wallet[User(p)] \in Int /\ wallet[User(p)] >= 0
      BY RequestFields
    <3>2. CASE BodyEnds(p, "failed")
      <4>1. PICK l : l # "write" /\ pc' = [pc EXCEPT ![p] = l]
        BY <2>2, <2>5, <3>2, RequestFields DEF ReadBalance, Leaving
      <4>2. QED
        BY <2>5, <4>1 DEF ReadBalance, Kind, Amount
    <3>3. CASE ~BodyEnds(p, "failed")
      BY <2>5, <3>1, <3>3, RequestFields DEF ReadBalance, Kind, Amount, User
    <3>4. QED
      BY <3>2, <3>3
  <2>6. ASSUME NEW p \in Procs, WriteBalance(p) PROVE NonNegative' /\ Covered'
    <3>1. CASE Kind(p) = "debit" /\ wallet[User(p)] < Amount(p)
      <4>1. BodyEnds(p, "failed") /\ UNCHANGED <<wallet, seen, job>>
        BY <2>6, <3>1, RequestFields DEF WriteBalance
      <4>2. QED
        BY <2>1, <2>2, <4>1 DEF Leaving
    <3>2. CASE ~(Kind(p) = "debit" /\ wallet[User(p)] < Amount(p))
      <4>1. /\ pc[p] = "write"
            /\ Kind(p) = "debit" => wallet[User(p)] >= Amount(p)
            /\ wallet' = [wallet EXCEPT ![User(p)] = NewBalance(p)]
            /\ seen' = [seen EXCEPT ![p] = 0]
            /\ pc' = [pc EXCEPT ![p] = "log"]
            /\ job' = job
        BY <2>6, <3>2 DEF WriteBalance
      <4>2. wallet[User(p)] \in Int /\ seen[p] \in Int
        BY RequestFields
      <4>3. NewBalance(p) >= 0
        BY <4>1, <4>2, RequestFields DEF NewBalance, Kinds
      <4>4. NonNegative'
        BY <4>1, <4>3, RequestFields
      <4>5. Covered'
        BY <4>1 DEF Kind, Amount
      <4>6. QED
        BY <4>4, <4>5
    <3>3. QED
      BY <3>1, <3>2
  <2>7. ASSUME NEW p \in Procs, LogMovement(p) PROVE NonNegative' /\ Covered'
    BY <2>1, <2>7 DEF LogMovement
  <2>8. ASSUME NEW p \in Procs, WriteAudit(p) PROVE NonNegative' /\ Covered'
    BY <2>1, <2>2, <2>8 DEF WriteAudit, Leaving
  <2>9. ASSUME NEW p \in Procs, MongoFails(p) PROVE NonNegative' /\ Covered'
    BY <2>1, <2>2, <2>9 DEF MongoFails, Leaving
  <2>10. ASSUME NEW p \in Procs, NEW o, o \in Leaving, AfterLock(p, o), UNCHANGED <<wallet, seen, job>>
         PROVE  NonNegative' /\ Covered'
    BY <2>3, <2>10 DEF AfterLock, BodyStart, Economy, Reply
  <2>11. ASSUME NEW p \in Procs, Release(p) PROVE NonNegative' /\ Covered'
    BY <2>10, <2>11 DEF Release
  <2>12. ASSUME NEW p \in Procs, ReleaseFails(p) PROVE NonNegative' /\ Covered'
    BY <2>10, <2>12 DEF ReleaseFails, Leaving
  <2>13. ASSUME NEW p \in Procs, Crash(p) PROVE NonNegative' /\ Covered'
    BY <2>1, <2>13 DEF Crash
  <2>14. ASSUME NEW u \in Users, Lapse(u) PROVE NonNegative' /\ Covered'
    BY <2>14 DEF Lapse, Kind, Amount
  <2>15. CASE UNCHANGED vars
    BY <2>15 DEF vars, Kind, Amount
  <2>16. QED
    BY <2>4, <2>5, <2>6, <2>7, <2>8, <2>9, <2>11, <2>12, <2>13, <2>14, <2>15 DEF Next, Run
<1>3. QED
  BY <1>1, <1>2, TypeCorrect, PTL DEF Spec

(* No interleaving, no second attempt and no lost lock overdraws a wallet. *)
THEOREM NeverOverdrawn == Spec => []NonNegative
  BY StaysCovered, PTL

-----------------------------------------------------------------------------
(* While nothing has disturbed it, the lock serialises the sections: who is*)
(* inside owns the key of its user, and what it has read is still true.    *)
Serial ==
  /\ \A p \in Procs : pc[p] \in Inside => locked[p] /\ lock[User(p)] = p
  /\ \A p \in Procs : pc[p] = "lock" => locked[p]
  /\ \A p \in Procs : pc[p] = "write" /\ Kind(p) # "debit" => seen[p] = wallet[User(p)]

Undisturbed == ~disturbed => Serial

(* A step of one process that leaves its position outside "log" and the    *)
(* books alone leaves every movement in flight alone.                      *)
LEMMA FlightUnchanged ==
  ASSUME TypeOK, NEW p \in Procs, NEW l, l # "log", pc[p] # "log",
         pc' = [pc EXCEPT ![p] = l], job' = job, NEW u \in Users,
         lock'[u] = lock[u] \/ (lock'[u] = Free /\ lock[u] = p) \/ (lock'[u] = p /\ lock[u] = Free)
  PROVE  InFlight(u)' = InFlight(u)
BY FreeAssumption DEF TypeOK, InFlight, User, Kind, Amount

LEMMA StaysSerial == Spec => [](Undisturbed /\ Reconciled)
<1>1. Init => Undisturbed /\ Reconciled
  <2> SUFFICES ASSUME Init PROVE Undisturbed /\ Reconciled
    OBVIOUS
  <2>1. \A u \in Users : wallet[u] \in Int
    <3>1. ASSUME NEW u \in Users PROVE wallet[u] \in 0 .. Opening
      BY DEF Init
    <3>2. ASSUME NEW n \in 0 .. Opening PROVE n \in Int
      OBVIOUS
    <3>3. QED
      BY <3>1, <3>2
  <2>2. \A u \in Users : InFlight(u) = 0
    BY DEF Init, InFlight
  <2>3. Reconciled
    <3>1. ASSUME NEW u \in Users PROVE wallet[u] = wallet[u] - 0 + 0
      <4>1. wallet[u] \in Int
        BY <2>1
      <4>2. QED
        BY <4>1
    <3>2. \A u \in Users : ledger[u] = wallet[u] /\ reserved[u] = 0
      BY DEF Init
    <3>3. QED
      BY <2>2, <3>1, <3>2 DEF Reconciled
  <2>4. Undisturbed
    BY DEF Init, Undisturbed, Serial, Inside, Body, Leaving
  <2>5. QED
    BY <2>3, <2>4
<1>2. TypeOK /\ Undisturbed /\ Reconciled /\ [Next]_vars => (Undisturbed /\ Reconciled)'
  <2> SUFFICES ASSUME TypeOK, Undisturbed, Reconciled, [Next]_vars, ~disturbed'
               PROVE  Serial' /\ (\A u \in Users : wallet[u] = ledger[u] - reserved[u] + InFlight(u))'
    BY DEF Undisturbed, Reconciled
  <2> DEFINE Books == \A u \in Users : wallet[u] = ledger[u] - reserved[u] + InFlight(u)
  <2>1. ~disturbed
    BY DEF Next, vars, Run, Acquire, ReadBalance, WriteBalance, LogMovement, WriteAudit,
           Release, AfterLock, MongoFails, ReleaseFails, Crash, Lapse
  <2>2. Serial /\ Books
    BY <2>1 DEF Undisturbed, Reconciled
  <2>3. ASSUME NEW p \in Procs, Acquire(p) PROVE Serial' /\ Books'
    <3>1. \A u \in Users : InFlight(u)' = InFlight(u)
      BY <2>3, FlightUnchanged, RequestFields DEF Acquire, BodyStart, TypeOK
    <3>2. Books'
      BY <2>2, <2>3, <3>1 DEF Acquire
    <3>3. Serial'
      <4>1. CASE lock[User(p)] = Free
        <5>1. /\ lock' = [lock EXCEPT ![User(p)] = p]
              /\ pc' = [pc EXCEPT ![p] = BodyStart(p)]
              /\ pc[p] = "lock"
              /\ UNCHANGED <<locked, job, seen, wallet>>
          BY <2>3, <4>1 DEF Acquire
        <5>2. \A q \in Procs : pc[q] \in Inside => q # p /\ User(q) # User(p)
          BY <2>2, <4>1, <5>1 DEF Serial, Inside, Body, Leaving
        <5>3. \A q \in Procs : q # p /\ pc'[q] \in Inside => locked'[q] /\ lock'[User(q)'] = q
          BY <2>2, <5>1, <5>2 DEF Serial, User, TypeOK
        <5>4. lock'[User(p)'] = p
          BY <5>1, RequestFields DEF User, TypeOK
        <5>5. \A q \in Procs : pc'[q] = "write" /\ Kind(q)' # "debit" => seen'[q] = wallet'[User(q)']
          BY <2>2, <5>1 DEF Serial, BodyStart, Kind, User, TypeOK
        <5>6. \A q \in Procs : pc'[q] = "lock" => locked'[q]
          BY <2>2, <5>1 DEF Serial, BodyStart, TypeOK
        <5>7. locked'[p]
          BY <2>2, <5>1 DEF Serial
        <5>8. QED
          BY <5>1, <5>3, <5>4, <5>5, <5>6, <5>7 DEF Serial
      <4>2. CASE lock[User(p)] # Free
        BY <2>2, <2>3, <4>2, RequestFields
           DEF Acquire, Serial, TypeOK, Inside, Body, Leaving, Kind, User
      <4>3. QED
        BY <4>1, <4>2
    <3>4. QED
      BY <3>2, <3>3
  <2>4. ASSUME NEW p \in Procs, NEW l, l \notin {"lock", "write", "log"}, pc[p] \in Inside,
               pc' = [pc EXCEPT ![p] = l], UNCHANGED <<lock, locked, job, seen, wallet>>
        PROVE  Serial'
    BY <2>2, <2>4 DEF Serial, TypeOK, User, Kind
  <2>5. ASSUME NEW p \in Procs, NEW l, l \notin {"lock", "write", "log"},
               pc[p] \in Inside, pc[p] # "log",
               pc' = [pc EXCEPT ![p] = l], UNCHANGED <<lock, locked, job, seen, wallet, ledger, reserved>>
        PROVE  Serial' /\ Books'
    <3>1. \A u \in Users : InFlight(u)' = InFlight(u)
      BY <2>5, FlightUnchanged
    <3>2. QED
      BY <2>2, <2>4, <2>5, <3>1
  <2>6. ASSUME NEW p \in Procs, NEW o \in Leaving, BodyEnds(p, o)
        PROVE  \E l : l \notin {"lock", "write", "log"} /\ pc' = [pc EXCEPT ![p] = l]
    BY <2>6 DEF BodyEnds, Reply, Leaving
  <2>7. ASSUME NEW p \in Procs, ReadBalance(p) PROVE Serial' /\ Books'
    <3>1. pc[p] = "read" /\ pc[p] \in Inside
      BY <2>7 DEF ReadBalance, Inside, Body
    <3>2. PICK l : l # "log" /\ l # "lock" /\ pc' = [pc EXCEPT ![p] = l]
      BY <2>6, <2>7 DEF ReadBalance, Leaving
    <3>3. \A u \in Users : InFlight(u)' = InFlight(u)
      BY <2>7, <3>1, <3>2, FlightUnchanged DEF ReadBalance
    <3>4. Books'
      BY <2>2, <2>7, <3>3 DEF ReadBalance
    <3>5. Serial'
      BY <2>2, <2>7, <3>1, <3>2 DEF ReadBalance, Serial, TypeOK, User, Kind
    <3>6. QED
      BY <3>4, <3>5
  <2>8. ASSUME NEW p \in Procs, WriteBalance(p) PROVE Serial' /\ Books'
    <3>1. pc[p] = "write" /\ pc[p] \in Inside
      BY <2>8 DEF WriteBalance, Inside, Body
    <3>2. CASE Kind(p) = "debit" /\ wallet[User(p)] < Amount(p)
      <4>1. BodyEnds(p, "failed") /\ UNCHANGED <<wallet, seen, ledger, reserved, lock, job, locked>>
        BY <2>8, <3>2, RequestFields DEF WriteBalance, TypeOK
      <4>2. PICK l : l \notin {"lock", "write", "log"} /\ pc' = [pc EXCEPT ![p] = l]
        BY <2>6, <4>1 DEF Leaving
      <4>3. QED
        BY <2>5, <3>1, <4>1, <4>2
    <3>3. CASE ~(Kind(p) = "debit" /\ wallet[User(p)] < Amount(p))
      <4>0. PICK u \in Users : u = User(p)
        BY RequestFields
      <4>1. /\ wallet' = [wallet EXCEPT ![u] = NewBalance(p)]
            /\ seen' = [seen EXCEPT ![p] = 0]
            /\ pc' = [pc EXCEPT ![p] = "log"]
            /\ UNCHANGED <<ledger, reserved, lock, job, locked>>
        BY <4>0, <2>8, <3>3 DEF WriteBalance
      <4>2. lock[u] = p /\ locked[p] /\ u \in Users
        BY <4>0, <2>2, <3>1, RequestFields DEF Serial
      <4>3. \A q \in Procs : pc[q] \in Inside /\ q # p => User(q) # u
        BY <4>0, <2>2, <4>2 DEF Serial
      <4>4. Serial'
        BY <4>0, <2>2, <4>1, <4>2, <4>3 DEF Serial, TypeOK, User, Kind, Inside, Body
      <4>5. \A v \in Users : v # u => InFlight(v)' = InFlight(v)
        BY <4>0, <4>1, FreeAssumption DEF InFlight, User, Kind, Amount, TypeOK
      <4>6. InFlight(u) = 0
        BY <4>0, <3>1, <4>2, FreeAssumption DEF InFlight
      <4>7. InFlight(u)' = IF Kind(p) = "credit" THEN Amount(p) ELSE -Amount(p)
        BY <4>0, <4>1, <4>2, FreeAssumption DEF InFlight, User, Kind, Amount, TypeOK
      <4>8. wallet[u] = ledger[u] - reserved[u]
        <5>1. wallet[u] \in Int /\ ledger[u] \in Int /\ reserved[u] \in Int
          BY <4>0, <4>2 DEF TypeOK
        <5>2. QED
          BY <4>0, <2>2, <4>2, <4>6, <5>1
      <4>9. NewBalance(p) = wallet[u] + (IF Kind(p) = "credit" THEN Amount(p) ELSE -Amount(p))
        <5>1. Kind(p) # "debit" => seen[p] = wallet[u]
          BY <4>0, <2>2, <3>1 DEF Serial
        <5>2. wallet[u] \in Int
          BY <4>0, <4>2 DEF TypeOK
        <5>3. QED
          BY <4>0, <5>1, <5>2, RequestFields DEF NewBalance, Kinds
      <4>10. wallet'[u] = ledger'[u] - reserved'[u] + InFlight(u)'
        BY <4>0, <4>1, <4>2, <4>7, <4>8, <4>9 DEF TypeOK
      <4>11. \A v \in Users : v # u => wallet'[v] = wallet[v]
        BY <4>0, <4>1 DEF TypeOK
      <4>12. Books'
        <5>1. ASSUME NEW v \in Users, v # u
              PROVE  wallet'[v] = ledger'[v] - reserved'[v] + InFlight(v)'
          <6>1. wallet[v] = ledger[v] - reserved[v] + InFlight(v)
            BY <4>0, <2>2
          <6>2. QED
            BY <4>0, <4>1, <4>5, <4>11, <5>1, <6>1
        <5>2. QED
          BY <4>0, <4>10, <5>1
      <4>13. QED
        BY <4>0, <4>4, <4>12
    <3>4. QED
      BY <3>2, <3>3
  <2>9. ASSUME NEW p \in Procs, LogMovement(p) PROVE Serial' /\ Books'
    <3>0. PICK u \in Users : u = User(p)
      BY RequestFields
    <3>1. /\ pc[p] = "log" /\ pc[p] \in Inside
          /\ pc' = [pc EXCEPT ![p] = "audit"]
          /\ UNCHANGED <<wallet, lock, job, seen, locked>>
      BY <3>0, <2>9 DEF LogMovement, Inside, Body
    <3>2. lock[u] = p /\ u \in Users
      BY <3>0, <2>2, <3>1, RequestFields DEF Serial
    <3>3. Serial'
      BY <3>0, <2>4, <3>1
    <3>4. ASSUME NEW v \in Users, v # u
          PROVE  wallet'[v] = ledger'[v] - reserved'[v] + InFlight(v)'
      <4>1. InFlight(v)' = InFlight(v)
        BY <3>0, <3>1, <3>4, FreeAssumption DEF InFlight, User, Kind, Amount, TypeOK
      <4>2. ledger'[v] = ledger[v] /\ reserved'[v] = reserved[v]
        BY <3>0, <2>9, <3>4 DEF LogMovement, TypeOK
      <4>3. QED
        BY <3>0, <2>2, <3>1, <4>1, <4>2
    <3>5. wallet'[u] = ledger'[u] - reserved'[u] + InFlight(u)'
      <4>1. InFlight(u) = IF Kind(p) = "credit" THEN Amount(p) ELSE -Amount(p)
        BY <3>0, <3>1, <3>2, FreeAssumption DEF InFlight
      <4>2. InFlight(u)' = 0
        BY <3>0, <3>1, <3>2 DEF InFlight, TypeOK
      <4>3. wallet[u] \in Int /\ ledger[u] \in Int /\ reserved[u] \in Int
        BY <3>0, <3>2 DEF TypeOK
      <4>4. wallet[u] = ledger[u] - reserved[u] + InFlight(u)
        BY <3>0, <2>2, <3>2
      <4>5. ledger'[u] - reserved'[u] = ledger[u] - reserved[u] + InFlight(u)
        BY <3>0, <2>9, <3>2, <4>1, <4>3, RequestFields DEF LogMovement, TypeOK, Kinds
      <4>6. QED
        BY <3>0, <3>1, <3>2, <4>1, <4>2, <4>3, <4>4, <4>5, RequestFields DEF TypeOK
    <3>6. QED
      BY <3>0, <3>3, <3>4, <3>5
  <2>10. ASSUME NEW p \in Procs, WriteAudit(p) PROVE Serial' /\ Books'
    <3>1. BodyEnds(p, "succeeded") /\ pc[p] = "audit" /\ pc[p] \in Inside
      BY <2>10 DEF WriteAudit, Inside, Body
    <3>2. PICK l : l \notin {"lock", "write", "log"} /\ pc' = [pc EXCEPT ![p] = l]
      BY <2>6, <3>1 DEF Leaving
    <3>3. QED
      BY <2>5, <2>10, <3>1, <3>2 DEF WriteAudit
  <2>11. ASSUME NEW p \in Procs, NEW o, o \in Leaving, AfterLock(p, o)
         PROVE  /\ UNCHANGED locked
                /\ \E l : l \notin {"lock", "write", "log"} \cup Inside /\ pc' = [pc EXCEPT ![p] = l]
    BY <2>1, <2>11 DEF AfterLock, Reply, Inside, Body, Leaving
  <2>12. ASSUME NEW p \in Procs, Release(p) PROVE Serial' /\ Books'
    <3>1. pc[p] \in Leaving /\ pc[p] \in Inside /\ pc[p] # "log"
      BY <2>12 DEF Release, Inside, Leaving
    <3>2. UNCHANGED <<locked, wallet, ledger, reserved, job, seen>>
      BY <2>11, <2>12 DEF Release
    <3>3. PICK l : /\ l \notin {"lock", "write", "log"} \cup Inside
                   /\ pc' = [pc EXCEPT ![p] = l]
      BY <2>11, <2>12 DEF Release
    <3>4. lock[User(p)] = p /\ lock' = [lock EXCEPT ![User(p)] = Free]
      BY <2>2, <2>12, <3>1 DEF Release, Serial
    <3>5. ASSUME NEW u \in Users PROVE InFlight(u)' = InFlight(u)
      <4>1. lock'[u] = lock[u] \/ (lock'[u] = Free /\ lock[u] = p)
        BY <3>4, RequestFields DEF TypeOK
      <4>2. QED
        BY <3>1, <3>2, <3>3, <4>1, FlightUnchanged
    <3>6. Books'
      BY <2>2, <3>2, <3>5
    <3>7. \A q \in Procs : q # p /\ pc[q] \in Inside => User(q) # User(p)
      BY <2>2, <3>4 DEF Serial
    <3>8. Serial'
      BY <2>2, <3>2, <3>3, <3>4, <3>7, RequestFields DEF Serial, TypeOK, User, Kind
    <3>9. QED
      BY <3>6, <3>8
  <2>13. ASSUME NEW p \in Procs, ReleaseFails(p) PROVE Serial' /\ Books'
    <3>1. pc[p] \in Leaving /\ pc[p] \in Inside /\ pc[p] # "log"
      BY <2>13 DEF ReleaseFails, Inside, Leaving
    <3>2. UNCHANGED locked
      BY <2>11, <2>13 DEF ReleaseFails, Leaving
    <3>3. PICK l : l \notin {"lock", "write", "log"} /\ pc' = [pc EXCEPT ![p] = l]
      BY <2>11, <2>13 DEF ReleaseFails, Leaving
    <3>4. QED
      BY <2>5, <2>13, <3>1, <3>2, <3>3 DEF ReleaseFails
  <2>14. ASSUME NEW u \in Users, Lapse(u) PROVE Serial' /\ Books'
    <3>1. /\ ~Working(u)
          /\ lock' = [lock EXCEPT ![u] = Free]
          /\ UNCHANGED <<wallet, ledger, reserved, job, pc, seen, locked>>
      BY <2>14 DEF Lapse
    <3>2. \A q \in Procs : pc[q] \in Inside => User(q) # u
      BY <2>2, <3>1, FreeAssumption DEF Serial, Working
    <3>3. Serial'
      BY <2>2, <3>1, <3>2, RequestFields DEF Serial, TypeOK, User, Kind
    <3>4. ASSUME NEW v \in Users PROVE InFlight(v)' = InFlight(v)
      <4>1. CASE v = u
        <5>1. lock[u] # Free => pc[lock[u]] # "log" \/ User(lock[u]) # u
          BY <3>2 DEF TypeOK, Inside, Body
        <5>2. QED
          BY <3>1, <4>1, <5>1 DEF InFlight, TypeOK
      <4>2. CASE v # u
        BY <3>1, <4>2 DEF InFlight, TypeOK, User, Kind, Amount
      <4>3. QED
        BY <4>1, <4>2
    <3>5. QED
      BY <2>2, <3>1, <3>3, <3>4
  <2>15. CASE UNCHANGED vars
    BY <2>2, <2>15 DEF vars, Serial, InFlight, User, Kind, Amount
  <2>16. ASSUME NEW p \in Procs, MongoFails(p) \/ Crash(p) PROVE FALSE
    BY <2>16 DEF MongoFails, Crash
  <2>17. QED
    BY <2>3, <2>7, <2>8, <2>9, <2>10, <2>12, <2>13, <2>14, <2>15, <2>16 DEF Next, Run
<1>3. QED
  BY <1>1, <1>2, TypeCorrect, PTL DEF Spec

(* The lock does its work: until a key lapses under its owner, a call fails*)
(* or economy goes on without the lock, balance and books agree.           *)
THEOREM LockKeepsBooks == Spec => []Reconciled
  BY StaysSerial, PTL

-----------------------------------------------------------------------------
(* A process that moves on to l reports what l means; nobody else's report *)
(* changes.                                                                *)
LEMMA Reports ==
  ASSUME TypeOK, NEW p \in Procs, NEW l, pc' = [pc EXCEPT ![p] = l]
  PROVE  [q \in Procs |-> Reported(pc[q])]' = [[q \in Procs |-> Reported(pc[q])] EXCEPT ![p] = Reported(l)]
<1>1. pc \in [Procs -> {"lock"} \cup Inside \cup Endings]
  BY DEF TypeOK
<1>2. ASSUME NEW q \in Procs PROVE Reported(pc'[q]) = IF q = p THEN Reported(l) ELSE Reported(pc[q])
  BY <1>1
<1>3. QED
  BY <1>2

(* A step that only moves p on is nothing to the account, if it reports    *)
(* the same, or a refusal, if the request was open.                        *)
LEMMA Silent ==
  ASSUME TypeOK, NEW p \in Procs, NEW l, pc' = [pc EXCEPT ![p] = l], UNCHANGED <<job, wallet>>,
         \/ Reported(l) = Reported(pc[p])
         \/ Reported(pc[p]) = "open" /\ Reported(l) = "refused"
  PROVE  Promise!Next \/ UNCHANGED Promise!vars
<1> DEFINE out == [q \in Procs |-> Reported(pc[q])]
<1>1. out' = [out EXCEPT ![p] = Reported(l)] /\ out[p] = Reported(pc[p])
  BY Reports
<1>2. CASE Reported(l) = Reported(pc[p])
  <2>1. out' = out
    BY <1>1, <1>2
  <2>2. QED
    BY <2>1 DEF Promise!vars
<1>3. CASE Reported(pc[p]) = "open" /\ Reported(l) = "refused"
  <2>1. Promise!Refuse(p)
    BY <1>1, <1>3 DEF Promise!Refuse
  <2>2. QED
    BY <2>1 DEF Promise!Next
<1>4. QED
  BY <1>2, <1>3

(* The write: the balance the request has read is the balance there is.    *)
LEMMA WriteMoves ==
  ASSUME TypeOK, Serial, NonNegative, Covered, NEW p \in Procs, WriteBalance(p),
         Kind(p) = "debit" => wallet[User(p)] >= Amount(p)
  PROVE  Promise!Make(p)
<1> DEFINE out == [q \in Procs |-> Reported(pc[q])]
<1>1. /\ pc[p] = "write" /\ job' = job
      /\ wallet' = [wallet EXCEPT ![User(p)] = NewBalance(p)]
      /\ pc' = [pc EXCEPT ![p] = "log"]
  <2>1. wallet[User(p)] \in Int /\ Amount(p) \in Int
    BY RequestFields DEF TypeOK
  <2>2. ~(Kind(p) = "debit" /\ wallet[User(p)] < Amount(p))
    BY <2>1
  <2>3. QED
    BY <2>2 DEF WriteBalance
<1>2. out' = [out EXCEPT ![p] = "made"] /\ out[p] = "open"
  <2>1. Reported("log") = "made" /\ Reported("write") = "open"
    BY DEF Reported
  <2>2. QED
    BY <1>1, <2>1, Reports
<1>3. wallet[User(p)] \in Int /\ wallet[User(p)] >= 0 /\ Amount(p) \in Nat /\ Kind(p) \in Kinds
  BY RequestFields DEF TypeOK, NonNegative
<1>4. Kind(p) # "debit" => seen[p] = wallet[User(p)]
  BY <1>1 DEF Serial
<1>5. NewBalance(p) = Promise!After(p)
  BY <1>3, <1>4 DEF NewBalance, Kinds, Promise!After, User, Amount, Kind
<1>6. Promise!After(p) >= 0
  BY <1>1, <1>3, <1>4 DEF Covered, Kinds, Promise!After, User, Amount, Kind
<1>7. QED
  BY <1>1, <1>2, <1>5, <1>6 DEF Promise!Make, User

(* Undisturbed, the wallet is an account: its requests are made at once or *)
(* refused, and report which.                                              *)
THEOREM ImplementsAccount == Spec => MovesAtOnce
<1>1. TypeOK /\ Undisturbed /\ NonNegative /\ Covered /\ [Next]_vars
        => [~disturbed' => Promise!Next]_(Promise!vars)
  <2> SUFFICES ASSUME TypeOK, Undisturbed, NonNegative, Covered, [Next]_vars, ~disturbed'
               PROVE  Promise!Next \/ UNCHANGED Promise!vars
    OBVIOUS
  <2> DEFINE Goal == Promise!Next \/ UNCHANGED Promise!vars
  <2> HIDE DEF Goal
  <2>0. ~disturbed
    BY DEF Next, vars, Run, Acquire, ReadBalance, WriteBalance, LogMovement, WriteAudit,
           Release, AfterLock, MongoFails, ReleaseFails, Crash, Lapse
  <2>1. ~disturbed /\ Serial
    BY <2>0 DEF Undisturbed
  <2>2. ASSUME NEW p \in Procs, NEW l, pc' = [pc EXCEPT ![p] = l], UNCHANGED <<job, wallet>>,
               \/ Reported(l) = Reported(pc[p])
               \/ Reported(pc[p]) = "open" /\ Reported(l) = "refused"
        PROVE  Goal
    BY <2>2, Silent DEF Goal
  <2>3. ASSUME NEW p \in Procs, NEW o \in Leaving, BodyEnds(p, o), pc[p] \in Inside
        PROVE  pc' = [pc EXCEPT ![p] = o]
    BY <2>1, <2>3 DEF BodyEnds, Serial
  <2>4. ASSUME NEW p \in Procs, Acquire(p) PROVE Goal
    <3>1. PICK l \in {"read", "write", "contended"} : pc' = [pc EXCEPT ![p] = l]
      BY <2>4 DEF Acquire, BodyStart
    <3>2. pc[p] = "lock" /\ UNCHANGED <<job, wallet>>
      BY <2>4 DEF Acquire
    <3>3. QED
      BY <2>2, <3>1, <3>2 DEF Reported
  <2>5. ASSUME NEW p \in Procs, ReadBalance(p) PROVE Goal
    <3>1. pc[p] = "read" /\ UNCHANGED <<job, wallet>>
      BY <2>5 DEF ReadBalance
    <3>2. PICK l \in {"failed", "write"} : pc' = [pc EXCEPT ![p] = l]
      BY <2>3, <2>5, <3>1 DEF ReadBalance, Inside, Body, Leaving
    <3>3. QED
      BY <2>2, <3>1, <3>2 DEF Reported
  <2>6. ASSUME NEW p \in Procs, WriteBalance(p) PROVE Goal
    <3>1. CASE Kind(p) = "debit" => wallet[User(p)] >= Amount(p)
      <4>1. Promise!Make(p)
        BY <2>1, <2>6, <3>1, WriteMoves
      <4>2. QED
        BY <4>1 DEF Promise!Next, Goal
    <3>2. CASE ~(Kind(p) = "debit" => wallet[User(p)] >= Amount(p))
      <4>1. pc[p] = "write" /\ BodyEnds(p, "failed") /\ UNCHANGED <<job, wallet>>
        BY <2>6, <3>2 DEF WriteBalance
      <4>2. pc' = [pc EXCEPT ![p] = "failed"]
        BY <2>3, <4>1 DEF Inside, Body, Leaving
      <4>3. QED
        BY <2>2, <4>1, <4>2 DEF Reported
    <3>3. QED
      BY <3>1, <3>2
  <2>7. ASSUME NEW p \in Procs, LogMovement(p) PROVE Goal
    <3>1. pc[p] = "log" /\ pc' = [pc EXCEPT ![p] = "audit"] /\ UNCHANGED <<job, wallet>>
      BY <2>7 DEF LogMovement
    <3>2. QED
      BY <2>2, <3>1 DEF Reported
  <2>8. ASSUME NEW p \in Procs, WriteAudit(p) PROVE Goal
    <3>1. pc[p] = "audit" /\ BodyEnds(p, "succeeded") /\ UNCHANGED <<job, wallet>>
      BY <2>8 DEF WriteAudit
    <3>2. pc' = [pc EXCEPT ![p] = "succeeded"]
      BY <2>3, <3>1 DEF Inside, Body, Leaving
    <3>3. QED
      BY <2>2, <3>1, <3>2 DEF Reported
  <2>9. ASSUME NEW p \in Procs, pc[p] \in Leaving, UNCHANGED <<job, wallet>>, NEW o,
               o = pc[p] \/ (o = "failed" /\ Economy(p)), AfterLock(p, o)
        PROVE  Goal
    <3>1. ~(Economy(p) /\ o = "failed")
      BY <2>9 DEF AfterLock
    <3>2. o = pc[p] /\ pc' = [pc EXCEPT ![p] = Reply(o)]
      BY <2>9, <3>1 DEF AfterLock
    <3>3. QED
      BY <2>2, <2>9, <3>2 DEF Reported, Reply, Leaving
  <2>10. ASSUME NEW p \in Procs, Release(p) PROVE Goal
    BY <2>9, <2>10 DEF Release
  <2>11. ASSUME NEW p \in Procs, ReleaseFails(p) PROVE Goal
    BY <2>9, <2>11 DEF ReleaseFails
  <2>12. ASSUME NEW u \in Users, Lapse(u) PROVE Goal
    BY <2>12 DEF Lapse, Goal, Promise!vars
  <2>13. ASSUME UNCHANGED vars PROVE Goal
    BY <2>13 DEF vars, Goal, Promise!vars
  <2>14. ASSUME NEW p \in Procs, MongoFails(p) \/ Crash(p) PROVE FALSE
    BY <2>14 DEF MongoFails, Crash
  <2>15. ASSUME NEW p \in Procs, Run(p) PROVE Goal
    BY <2>4, <2>5, <2>6, <2>7, <2>8, <2>10, <2>15 DEF Run
  <2>16. Goal
    BY <2>11, <2>12, <2>13, <2>14, <2>15 DEF Next
  <2>17. QED
    BY <2>16 DEF Goal
<1>2. Init => Promise!Init
  <2> SUFFICES ASSUME Init PROVE Promise!Init
    OBVIOUS
  <2>1. wallet \in [Users -> Nat]
    <3>1. 0 .. Opening \subseteq Nat
      OBVIOUS
    <3>2. wallet \in [Users -> 0 .. Opening]
      BY DEF Init
    <3>3. QED
      BY <3>1, <3>2
  <2>2. \A p \in Procs : Reported(pc[p]) = "open"
    BY DEF Init, Reported
  <2>3. [p \in Procs |-> Reported(pc[p])] = [p \in Procs |-> "open"]
    BY <2>2
  <2>4. QED
    BY <2>1, <2>3 DEF Promise!Init
<1>3. QED
  BY <1>1, <1>2, TypeCorrect, StaysSerial, StaysCovered, PTL DEF Spec, MovesAtOnce
=============================================================================

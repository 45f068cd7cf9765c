-------------------------- MODULE ShopOrdersProofs --------------------------
(***************************************************************************)
(* For any sessions, carts, deliveries, edits and faults: the types, and   *)
(* that what is ordered stays within what there is (LimitsHold).           *)
(***************************************************************************)
EXTENDS ShopOrders, FiniteSetTheorems, TLAPS

-----------------------------------------------------------------------------
(* Sums over sessions.  They are sizes of finite sets.                     *)
Items(n, S) == UNION {{s} \X (1 .. n[s]) : s \in S}

LEMMA OwnItems ==
  ASSUME NEW t, NEW k \in Nat
  PROVE  IsFiniteSet({t} \X (1 .. k)) /\ Cardinality({t} \X (1 .. k)) = k
<1>1. IsFiniteSet({t}) /\ Cardinality({t}) = 1
  BY FS_Singleton
<1>2. IsFiniteSet(1 .. k) /\ Cardinality(1 .. k) = k
  BY FS_Interval
<1>3. /\ IsFiniteSet({t} \X (1 .. k))
      /\ Cardinality({t} \X (1 .. k)) = Cardinality({t}) * Cardinality(1 .. k)
  BY <1>1, <1>2, FS_Product, Zenon
<1>4. 1 * k = k
  OBVIOUS
<1>5. QED
  BY <1>1, <1>2, <1>3, <1>4, Zenon

LEMMA ItemsFinite ==
  ASSUME NEW n, NEW S, IsFiniteSet(S), \A s \in S : n[s] \in Nat
  PROVE  IsFiniteSet(Items(n, S))
<1> DEFINE Each(s) == {s} \X (1 .. n[s])
           All     == {Each(s) : s \in S}
           f       == [s \in S |-> Each(s)]
<1>1. f \in Surjection(S, All)
  BY DEF Surjection
<1>2. IsFiniteSet(All)
  BY <1>1, FS_Surjection
<1>3. ASSUME NEW s \in S PROVE IsFiniteSet(Each(s))
  BY OwnItems
<1>4. \A T \in All : IsFiniteSet(T)
  BY <1>3
<1>5. IsFiniteSet(UNION All)
  BY <1>2, <1>4, FS_UNION
<1>6. QED
  BY <1>5 DEF Items

LEMMA TotalType ==
  ASSUME NEW n, NEW S, IsFiniteSet(S), \A s \in S : n[s] \in Nat
  PROVE  Total(n, S) \in Nat /\ Total(n, S) = Cardinality(Items(n, S))
BY ItemsFinite, FS_CardinalityType DEF Total, Items

LEMMA TotalMonotone ==
  ASSUME NEW n, NEW S, IsFiniteSet(S), \A s \in S : n[s] \in Nat,
         NEW m, NEW T \in SUBSET S, \A s \in T : m[s] \in Nat /\ m[s] <= n[s]
  PROVE  Total(m, T) <= Total(n, S)
<1>1. Items(m, T) \subseteq Items(n, S)
  BY DEF Items
<1>2. IsFiniteSet(T)
  BY FS_Subset
<1>3. QED
  BY <1>1, <1>2, TotalType, ItemsFinite, FS_Subset

(* One session apart.                                                      *)
LEMMA TotalSplits ==
  ASSUME NEW n, NEW S, IsFiniteSet(S), \A s \in S : n[s] \in Nat, NEW t \in S
  PROVE  Total(n, S) = Total(n, S \ {t}) + n[t]
<1> DEFINE Own == {t} \X (1 .. n[t])
<1>1. IsFiniteSet(Own) /\ Cardinality(Own) = n[t]
  BY OwnItems
<1>2. IsFiniteSet(S \ {t})
  BY FS_RemoveElement
<1>3. Items(n, S) = Items(n, S \ {t}) \cup Own /\ Items(n, S \ {t}) \cap Own = {}
  BY DEF Items
<1>4. IsFiniteSet(Items(n, S \ {t})) /\ Cardinality(Items(n, S \ {t})) \in Nat
  BY <1>2, ItemsFinite, FS_CardinalityType
<1>5. Cardinality(Items(n, S)) = Cardinality(Items(n, S \ {t})) + n[t]
  <2>1. Cardinality(Items(n, S \ {t}) \cup Own) = Cardinality(Items(n, S \ {t})) + Cardinality(Own)
                                                  - Cardinality(Items(n, S \ {t}) \cap Own)
    BY <1>1, <1>4, FS_Union
  <2>2. Cardinality(Items(n, S \ {t}) \cap Own) = 0
    BY <1>3, FS_EmptySet
  <2>3. n[t] \in Nat
    OBVIOUS
  <2> HIDE DEF Own
  <2>4. QED
    BY <1>1, <1>3, <1>4, <2>1, <2>2, <2>3
<1>6. QED
  BY <1>2, <1>5, TotalType

(* What the sum is of.                                                     *)
LEMMA TotalSame ==
  ASSUME NEW n, NEW m, NEW S, \A s \in S : n[s] = m[s]
  PROVE  Total(n, S) = Total(m, S)
<1>1. \A s \in S : {s} \X (1 .. n[s]) = {s} \X (1 .. m[s])
  OBVIOUS
<1>2. QED
  BY <1>1 DEF Total

LEMMA TotalAtOne ==
  ASSUME NEW n, NEW m, NEW S, IsFiniteSet(S), NEW t \in S,
         \A s \in S : n[s] \in Nat /\ m[s] \in Nat,
         \A s \in S \ {t} : n[s] = m[s]
  PROVE  Total(m, S) = Total(n, S) + m[t] - n[t]
<1>1. Total(n, S) = Total(n, S \ {t}) + n[t] /\ Total(m, S) = Total(m, S \ {t}) + m[t]
  BY TotalSplits
<1>2. Total(n, S \ {t}) = Total(m, S \ {t})
  BY TotalSame
<1>3. Total(n, S \ {t}) \in Nat
  BY TotalType, FS_RemoveElement
<1>4. QED
  BY <1>1, <1>2, <1>3

LEMMA TotalEmpty == ASSUME NEW n PROVE Total(n, {}) = 0
<1>1. UNION {{s} \X (1 .. n[s]) : s \in {}} = {}
  OBVIOUS
<1>2. QED
  BY <1>1, FS_EmptySet DEF Total

LEMMA UnionBound ==
  ASSUME NEW A, NEW B, IsFiniteSet(A), IsFiniteSet(B), NEW C \in SUBSET (A \cup B)
  PROVE  Cardinality(C) <= Cardinality(A) + Cardinality(B)
<1>1. /\ IsFiniteSet(A \cup B)
      /\ Cardinality(A \cup B) = Cardinality(A) + Cardinality(B) - Cardinality(A \cap B)
  BY FS_Union
<1>2. IsFiniteSet(A \cap B) /\ IsFiniteSet(C) /\ Cardinality(C) <= Cardinality(A \cup B)
  BY <1>1, FS_Intersection, FS_Subset
<1>3. {Cardinality(A), Cardinality(B), Cardinality(C), Cardinality(A \cap B)} \subseteq Nat
  BY <1>2, FS_CardinalityType
<1>4. QED
  BY <1>1, <1>2, <1>3

-----------------------------------------------------------------------------
(* The types.  A delivery creates, takes, credits and counts at most once  *)
(* before it is past the await that does it, so each number of a session is*)
(* bounded by the deliveries past that await.                              *)
AfterCoupon == {"respond", "done", "dead"}
AfterCredit == {"coupon"} \cup AfterCoupon
AfterStock  == {"credit"} \cup AfterCredit
AfterCreate == {"stock"} \cup AfterStock
Stages      == {AfterCreate, AfterStock, AfterCredit, AfterCoupon}

USE DEF Stages

Past(s, P) == {d \in Deliveries : Session(d) = s /\ pc[d] \in P}

Numbers ==
  /\ {orders, taken, counted, credited} \subseteq [Sessions -> Nat]
  /\ \A s \in Sessions :
       /\ orders[s] <= Cardinality(Past(s, AfterCreate))
       /\ taken[s] <= Cardinality(Past(s, AfterStock))
       /\ credited[s] <= 2 * Cardinality(Past(s, AfterCredit))
       /\ counted[s] <= Cardinality(Past(s, AfterCoupon))

(* Everything else TypeOK says.                                            *)
Shapes ==
  /\ inventory \in Int
  /\ redemptions \in Nat
  /\ cart \in [Sessions -> {"none", "open", "paid", "expired"}]
  /\ marked \subseteq Sessions /\ acked \subseteq Sessions
  /\ pc \in [Deliveries -> {"idle", "done", "dead"} \cup Handling]
  /\ supply \in Nat
  /\ incidents \subseteq Incidents
  /\ edits \in 0 .. EditLimit /\ faults \in 0 .. FaultLimit

TInv == Shapes /\ Numbers

LEMMA DeliveryOf ==
  ASSUME NEW d \in Deliveries
  PROVE  Session(d) \in Sessions /\ d \in {Session(d)} \X (1 .. Tries[Session(d)])
BY DEF Deliveries, Session

LEMMA PastType ==
  ASSUME NEW s \in Sessions, NEW P
  PROVE  /\ IsFiniteSet(Past(s, P))
         /\ Cardinality(Past(s, P)) \in Nat
         /\ Cardinality(Past(s, P)) <= Tries[s]
<1> DEFINE Own == {s} \X (1 .. Tries[s])
<1>1. Tries[s] \in Nat
  BY SessionsAssumption
<1>2. IsFiniteSet(Own) /\ Cardinality(Own) = Tries[s]
  BY <1>1, OwnItems
<1>3. Past(s, P) \subseteq Own
  BY DeliveryOf DEF Past
<1> HIDE DEF Own
<1>4. QED
  BY <1>2, <1>3, FS_Subset, FS_CardinalityType

(* A delivery that gets past an await adds itself.                         *)
LEMMA PastGrows ==
  ASSUME Shapes, NEW d \in Deliveries, NEW q, Goto(d, q), NEW P, pc[d] \in P => q \in P
  PROVE  \A s \in Sessions :
           /\ {Cardinality(Past(s, P)), Cardinality(Past(s, P)')} \subseteq Nat
           /\ Cardinality(Past(s, P)) <= Cardinality(Past(s, P)')
           /\ s = Session(d) /\ pc[d] \notin P /\ q \in P =>
                Cardinality(Past(s, P)') = Cardinality(Past(s, P)) + 1
<1>1. \A e \in Deliveries : pc'[e] = IF e = d THEN q ELSE pc[e]
  BY DEF Shapes, Goto
<1>2. ASSUME NEW s \in Sessions
      PROVE  /\ {Cardinality(Past(s, P)), Cardinality(Past(s, P)')} \subseteq Nat
               /\ Cardinality(Past(s, P)) <= Cardinality(Past(s, P)')
             /\ s = Session(d) /\ pc[d] \notin P /\ q \in P =>
                  Cardinality(Past(s, P)') = Cardinality(Past(s, P)) + 1
  <2>1. CASE s = Session(d) /\ pc[d] \notin P /\ q \in P
    <3>1. Past(s, P)' = Past(s, P) \cup {d} /\ d \notin Past(s, P)
      BY <1>1, <2>1 DEF Past
    <3>2. IsFiniteSet(Past(s, P)) /\ Cardinality(Past(s, P)) \in Nat
      BY PastType
    <3>3. Cardinality(Past(s, P)') = Cardinality(Past(s, P)) + 1
      BY <3>1, <3>2, FS_AddElement
    <3>4. QED
      BY <3>2, <3>3
  <2>2. CASE ~(s = Session(d) /\ pc[d] \notin P /\ q \in P)
    <3>1. Past(s, P)' = Past(s, P)
      BY <1>1, <2>2 DEF Past
    <3>2. QED
      BY <2>2, <3>1, PastType
  <2>3. QED
    BY <2>1, <2>2
<1>3. QED
  BY <1>2

LEMMA UnitsType ==
  ASSUME NEW n, \A s \in Sessions : n[s] \in Nat
  PROVE  UnitsOf(n) \in Nat
<1>1. \A a, b \in Nat : a * b \in Nat
  OBVIOUS
<1>2. \A s \in Sessions : [t \in Sessions |-> Qty[t] * n[t]][s] \in Nat
  BY <1>1, SessionsAssumption
<1>3. QED
  BY <1>2, TotalType, SessionsAssumption DEF UnitsOf

LEMMA InitTypes == ASSUME Init PROVE TInv
<1>1. Shapes
  BY NumbersAssumption DEF Init, Shapes
<1>2. {orders, taken, counted, credited} \subseteq [Sessions -> Nat]
  BY DEF Init
<1>3. \A s \in Sessions, P \in Stages :
        Cardinality(Past(s, P)) \in Nat
  BY PastType
<1>4. QED
  BY <1>1, <1>2, <1>3 DEF Init, TInv, Numbers

(* A delivery goes on, and nothing it has counted changes.                 *)
LEMMA MoveTypes ==
  ASSUME TInv, NEW d \in Deliveries, NEW q \in {"done", "dead"} \cup Handling, Goto(d, q),
         \A P \in Stages : pc[d] \in P => q \in P,
         UNCHANGED effects
  PROVE  Numbers' /\ pc' \in [Deliveries -> {"idle", "done", "dead"} \cup Handling]
<1>1. pc' \in [Deliveries -> {"idle", "done", "dead"} \cup Handling]
  BY DEF TInv, Shapes, Goto
<1>2. UNCHANGED <<orders, taken, counted, credited>>
  BY DEF effects
<1>3. ASSUME NEW P \in Stages, NEW s \in Sessions
      PROVE  /\ {Cardinality(Past(s, P)), Cardinality(Past(s, P)')} \subseteq Nat
             /\ Cardinality(Past(s, P)) <= Cardinality(Past(s, P)')
  BY <1>3, PastGrows DEF TInv
<1>4. QED
  BY <1>1, <1>2, <1>3 DEF TInv, Numbers

(* The deliveries a step leaves alone.                                     *)
LEMMA StillTypes ==
  ASSUME TInv, UNCHANGED <<effects, pc>>
  PROVE  Numbers' /\ pc' \in [Deliveries -> {"idle", "done", "dead"} \cup Handling]
BY DEF TInv, Shapes, Numbers, effects, Past

LEMMA CheckoutTypes == ASSUME TInv, NEW s \in Sessions, Checkout(s) \/ Pay(s) PROVE TInv'
<1>1. Numbers' /\ pc' \in [Deliveries -> {"idle", "done", "dead"} \cup Handling]
  BY StillTypes DEF Checkout, Pay
<1>2. incidents' \subseteq Incidents
  BY DEF Checkout, Pay, Note, Incidents, TInv, Shapes
<1>3. cart' \in [Sessions -> {"none", "open", "paid", "expired"}]
  BY DEF Checkout, Pay, TInv, Shapes
<1>4. QED
  BY <1>1, <1>2, <1>3 DEF Checkout, Pay, TInv, Shapes, events

LEMMA EditTypes == ASSUME TInv, NEW n \in 0 .. Stock, EditProduct(n) PROVE TInv'
<1>1. Numbers' /\ pc' \in [Deliveries -> {"idle", "done", "dead"} \cup Handling]
  BY StillTypes DEF EditProduct
<1>2. n \in Nat
  BY NumbersAssumption
<1>3. supply' \in Nat
  BY <1>2, UnitsType DEF EditProduct, TInv, Numbers
<1>4. incidents' \subseteq Incidents
  BY DEF EditProduct, Note, Incidents, TInv, Shapes
<1>5. edits' \in 0 .. EditLimit
  BY NumbersAssumption DEF EditProduct, TInv, Shapes
<1>6. QED
  BY <1>1, <1>2, <1>3, <1>4, <1>5 DEF EditProduct, TInv, Shapes, events

LEMMA FaultType == ASSUME TInv, Fault \/ UNCHANGED faults PROVE faults' \in 0 .. FaultLimit
BY NumbersAssumption DEF Fault, TInv, Shapes

(* The steps that leave the numbers alone.                                 *)
LEMMA HandlingTypes ==
  ASSUME TInv, NEW d \in Deliveries,
         Deliver(d) \/ Mark(d) \/ FindOrder(d) \/ Fail(d) \/ Respond(d) \/ Die(d)
  PROVE  TInv'
<1> USE DEF Deliver, Mark, FindOrder, Fail, Respond, Die
<1>1. PICK q \in {"done", "dead"} \cup Handling :
        /\ Goto(d, q)
        /\ \A P \in Stages : pc[d] \in P => q \in P
  BY DEF Handling, AfterCreate, AfterStock, AfterCredit, AfterCoupon
<1>2. UNCHANGED <<effects, inventory, redemptions, cart, supply, edits>>
  OBVIOUS
<1>3. Numbers' /\ pc' \in [Deliveries -> {"idle", "done", "dead"} \cup Handling]
  BY <1>1, <1>2, MoveTypes
<1>4. faults' \in 0 .. FaultLimit
  BY FaultType
<1>5. incidents' \subseteq Incidents
  BY DEF Note, Incidents, TInv, Shapes
<1>6. marked' \subseteq Sessions /\ acked' \subseteq Sessions
  BY DeliveryOf DEF TInv, Shapes, events
<1>7. QED
  BY <1>2, <1>3, <1>4, <1>5, <1>6 DEF TInv, Shapes

(* What each step of an order adds is covered by the delivery that passes. *)
LEMMA PassTypes ==
  ASSUME TInv, NEW d \in Deliveries, NEW q \in {"done", "dead"} \cup Handling, Goto(d, q),
         \A P \in Stages : pc[d] \in P => q \in P,
         NEW P \in Stages,
         pc[d] \notin P, q \in P
  PROVE  /\ \A s \in Sessions, R \in Stages :
              /\ {Cardinality(Past(s, R)), Cardinality(Past(s, R)')} \subseteq Nat
              /\ Cardinality(Past(s, R)) <= Cardinality(Past(s, R)')
         /\ Cardinality(Past(Session(d), P)') = Cardinality(Past(Session(d), P)) + 1
         /\ pc' \in [Deliveries -> {"idle", "done", "dead"} \cup Handling]
         /\ Session(d) \in Sessions
<1>1. pc' \in [Deliveries -> {"idle", "done", "dead"} \cup Handling]
  BY DEF TInv, Shapes, Goto
<1>2. ASSUME NEW R \in Stages, NEW s \in Sessions
      PROVE  /\ {Cardinality(Past(s, R)), Cardinality(Past(s, R)')} \subseteq Nat
             /\ Cardinality(Past(s, R)) <= Cardinality(Past(s, R)')
  BY <1>2, PastGrows DEF TInv
<1>3. Session(d) \in Sessions
  BY DeliveryOf
<1>4. Cardinality(Past(Session(d), P)') = Cardinality(Past(Session(d), P)) + 1
  BY <1>3, PastGrows DEF TInv
<1>5. QED
  BY <1>1, <1>2, <1>3, <1>4

LEMMA CreateTypes == ASSUME TInv, NEW d \in Deliveries, CreateOrder(d) PROVE TInv'
<1>1. /\ pc[d] = "create" /\ Goto(d, "stock")
      /\ orders' = [orders EXCEPT ![Session(d)] = @ + 1]
      /\ UNCHANGED <<taken, counted, credited>>
  BY DEF CreateOrder, Again
<1>2. \A P \in Stages : pc[d] \in P => "stock" \in P
  BY <1>1 DEF AfterCreate, AfterStock, AfterCredit, AfterCoupon
<1>3. pc[d] \notin AfterCreate /\ "stock" \in AfterCreate /\ "stock" \in Handling
  BY <1>1 DEF AfterCreate, AfterStock, AfterCredit, AfterCoupon, Handling
<1>4. /\ \A s \in Sessions, R \in Stages :
           /\ {Cardinality(Past(s, R)), Cardinality(Past(s, R)')} \subseteq Nat
           /\ Cardinality(Past(s, R)) <= Cardinality(Past(s, R)')
      /\ Cardinality(Past(Session(d), AfterCreate)') = Cardinality(Past(Session(d), AfterCreate)) + 1
      /\ pc' \in [Deliveries -> {"idle", "done", "dead"} \cup Handling]
      /\ Session(d) \in Sessions
  BY <1>1, <1>2, <1>3, PassTypes
<1>5. {orders', taken', counted', credited'} \subseteq [Sessions -> Nat]
  BY <1>1, <1>4 DEF TInv, Numbers
<1>6. \A s \in Sessions : orders'[s] = IF s = Session(d) THEN orders[s] + 1 ELSE orders[s]
  BY <1>1, <1>4 DEF TInv, Numbers
<1>7. Numbers'
  BY <1>1, <1>4, <1>5, <1>6 DEF TInv, Numbers
<1>8. QED
  BY <1>4, <1>7 DEF CreateOrder, TInv, Shapes, events

LEMMA StockTypes == ASSUME TInv, NEW d \in Deliveries, TakeStock(d) PROVE TInv'
<1>1. /\ pc[d] = "stock" /\ Goto(d, "credit")
      /\ taken' = [taken EXCEPT ![Session(d)] = @ + 1]
      /\ UNCHANGED <<orders, counted, credited>>
  BY DEF TakeStock, Again
<1>2. \A P \in Stages : pc[d] \in P => "credit" \in P
  BY <1>1 DEF AfterCreate, AfterStock, AfterCredit, AfterCoupon
<1>3. pc[d] \notin AfterStock /\ "credit" \in AfterStock /\ "credit" \in Handling
  BY <1>1 DEF AfterStock, AfterCredit, AfterCoupon, Handling
<1>4. /\ \A s \in Sessions, R \in Stages :
           /\ {Cardinality(Past(s, R)), Cardinality(Past(s, R)')} \subseteq Nat
           /\ Cardinality(Past(s, R)) <= Cardinality(Past(s, R)')
      /\ Cardinality(Past(Session(d), AfterStock)') = Cardinality(Past(Session(d), AfterStock)) + 1
      /\ pc' \in [Deliveries -> {"idle", "done", "dead"} \cup Handling]
      /\ Session(d) \in Sessions
  BY <1>1, <1>2, <1>3, PassTypes
<1>5. {orders', taken', counted', credited'} \subseteq [Sessions -> Nat]
  BY <1>1, <1>4 DEF TInv, Numbers
<1>6. \A s \in Sessions : taken'[s] = IF s = Session(d) THEN taken[s] + 1 ELSE taken[s]
  BY <1>1, <1>4 DEF TInv, Numbers
<1>7. Numbers'
  BY <1>1, <1>4, <1>5, <1>6 DEF TInv, Numbers
<1>8. inventory' \in Int
  <2>1. inventory \in Int
    BY DEF TInv, Shapes
  <2>2. \A n \in 1 .. Qty[Session(d)] : inventory - n \in Int
    BY <1>4, <2>1, SessionsAssumption
  <2>3. QED
    BY <2>1, <2>2 DEF TakeStock
<1>9. QED
  BY <1>4, <1>7, <1>8 DEF TakeStock, TInv, Shapes, events

LEMMA CreditTypes == ASSUME TInv, NEW d \in Deliveries, CreditCreator(d) PROVE TInv'
<1>1. /\ pc[d] = "credit"
      /\ UNCHANGED <<inventory, redemptions, cart, orders, taken, counted, events, supply, edits>>
  BY DEF CreditCreator
<1>2. \E k \in 0 .. 2 : credited' = [credited EXCEPT ![Session(d)] = @ + k]
  <2>1. CASE credited' = [credited EXCEPT ![Session(d)] = @ + 1]
    BY <2>1
  <2>2. CASE credited' = credited
    <3>1. Session(d) \in Sessions /\ credited \in [Sessions -> Nat]
      BY DeliveryOf DEF TInv, Numbers
    <3>2. credited' = [credited EXCEPT ![Session(d)] = @ + 0]
      BY <2>2, <3>1
    <3>3. QED
      BY <3>2
  <2>3. CASE \E k \in 1 .. 2 : credited' = [credited EXCEPT ![Session(d)] = @ + k]
    <3>1. PICK k \in 1 .. 2 : credited' = [credited EXCEPT ![Session(d)] = @ + k]
      BY <2>3
    <3>2. k \in 0 .. 2
      OBVIOUS
    <3>3. QED
      BY <3>1, <3>2
  <2>4. QED
    BY <2>1, <2>2, <2>3 DEF CreditCreator, Again
<1>3. PICK k \in 0 .. 2 : credited' = [credited EXCEPT ![Session(d)] = @ + k]
  BY <1>2
<1>4. PICK q \in {"coupon", "respond"} : Goto(d, q)
  BY DEF CreditCreator
<1>5. \A P \in Stages : pc[d] \in P => q \in P
  BY <1>1 DEF AfterCreate, AfterStock, AfterCredit, AfterCoupon
<1>6. pc[d] \notin AfterCredit /\ q \in AfterCredit /\ q \in Handling
  BY <1>1 DEF AfterCredit, AfterCoupon, Handling
<1>7. /\ \A s \in Sessions, R \in Stages :
           /\ {Cardinality(Past(s, R)), Cardinality(Past(s, R)')} \subseteq Nat
           /\ Cardinality(Past(s, R)) <= Cardinality(Past(s, R)')
      /\ Cardinality(Past(Session(d), AfterCredit)') = Cardinality(Past(Session(d), AfterCredit)) + 1
      /\ pc' \in [Deliveries -> {"idle", "done", "dead"} \cup Handling]
      /\ Session(d) \in Sessions
  BY <1>4, <1>5, <1>6, PassTypes
<1>8. {orders', taken', counted', credited'} \subseteq [Sessions -> Nat]
  BY <1>1, <1>3, <1>7 DEF TInv, Numbers
<1>9. \A s \in Sessions : credited'[s] = IF s = Session(d) THEN credited[s] + k ELSE credited[s]
  BY <1>3, <1>7 DEF TInv, Numbers
<1>10. Numbers'
  BY <1>1, <1>7, <1>8, <1>9 DEF TInv, Numbers
<1>11. faults' \in 0 .. FaultLimit
  BY FaultType DEF CreditCreator
<1>12. incidents' \subseteq Incidents
  BY DEF CreditCreator, Incidents, TInv, Shapes
<1>13. QED
  BY <1>1, <1>7, <1>10, <1>11, <1>12 DEF TInv, Shapes, events

LEMMA CouponTypes == ASSUME TInv, NEW d \in Deliveries, CountCoupon(d) PROVE TInv'
<1>1. /\ pc[d] = "coupon" /\ Goto(d, "respond")
      /\ counted' = [counted EXCEPT ![Session(d)] = @ + 1] \/ counted' = counted
      /\ UNCHANGED <<orders, taken, credited>>
  BY DEF CountCoupon, Again
<1>2. \A P \in Stages : pc[d] \in P => "respond" \in P
  BY <1>1 DEF AfterCreate, AfterStock, AfterCredit, AfterCoupon
<1>3. pc[d] \notin AfterCoupon /\ "respond" \in AfterCoupon /\ "respond" \in Handling
  BY <1>1 DEF AfterCoupon, Handling
<1>4. /\ \A s \in Sessions, R \in Stages :
           /\ {Cardinality(Past(s, R)), Cardinality(Past(s, R)')} \subseteq Nat
           /\ Cardinality(Past(s, R)) <= Cardinality(Past(s, R)')
      /\ Cardinality(Past(Session(d), AfterCoupon)') = Cardinality(Past(Session(d), AfterCoupon)) + 1
      /\ pc' \in [Deliveries -> {"idle", "done", "dead"} \cup Handling]
      /\ Session(d) \in Sessions
  BY <1>1, <1>2, <1>3, PassTypes
<1>5. {orders', taken', counted', credited'} \subseteq [Sessions -> Nat]
  BY <1>1, <1>4 DEF TInv, Numbers
<1>6. \A s \in Sessions : counted'[s] <= IF s = Session(d) THEN counted[s] + 1 ELSE counted[s]
  BY <1>1, <1>4 DEF TInv, Numbers
<1>7. Numbers'
  BY <1>1, <1>4, <1>5, <1>6 DEF TInv, Numbers
<1>8. redemptions' \in Nat
  BY DEF CountCoupon, TInv, Shapes
<1>9. QED
  BY <1>4, <1>7, <1>8 DEF CountCoupon, TInv, Shapes, events

LEMMA NextTypes == TInv /\ [Next]_vars => TInv'
<1>1. CASE UNCHANGED vars
  BY <1>1, StillTypes DEF vars, TInv, Shapes, events
<1>2. ASSUME TInv, NEW s \in Sessions, Checkout(s) \/ Pay(s) PROVE TInv'
  BY <1>2, CheckoutTypes
<1>3. ASSUME TInv, NEW n \in 0 .. Stock, EditProduct(n) PROVE TInv'
  BY <1>3, EditTypes
<1>4. ASSUME TInv, NEW d \in Deliveries, Deliver(d) \/ Step(d) \/ Fail(d) \/ Die(d) PROVE TInv'
  BY <1>4, HandlingTypes, CreateTypes, StockTypes, CreditTypes, CouponTypes DEF Step
<1>5. QED
  BY <1>1, <1>2, <1>3, <1>4 DEF Next

LEMMA TypesInductive == Spec => []TInv
<1>1. QED
  BY InitTypes, NextTypes, PTL DEF Spec

(* Every variable keeps its type: however often an event is delivered, what*)
(* is ordered, taken, counted and credited for a session stays within what *)
(* its deliveries can do (payments.js, checkout.session.completed).        *)
THEOREM TypeCorrect == Spec => []TypeOK
<1>1. ASSUME TInv PROVE TypeOK
  <2>1. ASSUME NEW s \in Sessions
        PROVE  {orders[s], taken[s], counted[s]} \subseteq 0 .. Tries[s] /\ credited[s] \in 0 .. 2 * Tries[s]
    <3>1. \A P \in Stages :
            Cardinality(Past(s, P)) \in Nat /\ Cardinality(Past(s, P)) <= Tries[s]
      BY PastType
    <3>2. Tries[s] \in Nat
      BY SessionsAssumption
    <3>3. {orders[s], taken[s], counted[s], credited[s]} \subseteq Nat
      BY <1>1 DEF TInv, Numbers
    <3>4. QED
      BY <1>1, <3>1, <3>2, <3>3 DEF TInv, Numbers
  <2>2. QED
    BY <1>1, <2>1 DEF TInv, Shapes, TypeOK
<1>2. QED
  BY <1>1, TypesInductive, PTL

-----------------------------------------------------------------------------
(* The limits.  Until two deliveries of a session are at the creation of   *)
(* its order at once, one delivery at a time makes it, from nothing to its *)
(* last step.                                                              *)
Writing == {"create", "stock", "credit", "coupon"}

OneWriter ==
  \A d, e \in Deliveries :
    Session(d) = Session(e) /\ pc[d] \in Writing /\ pc[e] \in Writing => d = e

StandsAt(d) ==
  /\ pc[d] = "create" => orders[Session(d)] = 0
  /\ pc[d] = "stock" => orders[Session(d)] = 1 /\ taken[Session(d)] = 0
  /\ pc[d] \in {"credit", "coupon"} => taken[Session(d)] = 1 /\ counted[Session(d)] = 0

InOrder(s) == counted[s] <= taken[s] /\ taken[s] <= orders[s] /\ orders[s] <= 1

OneOrder ==
  "overlapped" \notin incidents =>
    /\ OneWriter
    /\ \A d \in Deliveries : StandsAt(d)
    /\ \A s \in Sessions : InOrder(s)

(* Only what is paid is delivered.                                         *)
PaidFirst ==
  /\ \A d \in Deliveries : pc[d] # "idle" => cart[Session(d)] = "paid"
  /\ \A s \in Sessions : orders[s] + taken[s] + counted[s] > 0 => cart[s] = "paid"

(* What is left covers what open and paid sessions may still take, and no  *)
(* unit gets lost; and the same of redemptions.                            *)
UnitsCovered ==
  {"overlapped", "crowded"} \cap incidents = {} =>
    Promised <= inventory /\ inventory + UnitsOf(taken) = supply

UsesCovered ==
  /\ redemptions = Total(counted, Couponed)
  /\ {"overlapped", "stacked"} \cap incidents = {} =>
       redemptions + Cardinality(Hopes) <= MaxRedemptions

LInv == OneOrder /\ PaidFirst /\ UnitsCovered /\ UsesCovered

LEMMA IncidentsStay == [Next]_vars => incidents \subseteq incidents'
BY DEF Next, Step, vars, Checkout, Pay, EditProduct, Deliver, Mark, FindOrder, CreateOrder,
   TakeStock, CreditCreator, CountCoupon, Respond, Fail, Die

(* One order: the deliveries.                                              *)
LEMMA OneOrderStill ==
  ASSUME OneOrder, UNCHANGED <<orders, taken, counted, pc>>, incidents \subseteq incidents'
  PROVE  OneOrder'
BY DEF OneOrder, OneWriter, StandsAt, InOrder

LEMMA OneOrderLeft ==
  ASSUME TInv, OneOrder, NEW d \in Deliveries, NEW q, Goto(d, q), q \notin Writing,
         UNCHANGED <<orders, taken, counted>>, incidents \subseteq incidents'
  PROVE  OneOrder'
<1>1. \A e \in Deliveries : pc'[e] = IF e = d THEN q ELSE pc[e]
  BY DEF TInv, Shapes, Goto
<1>2. QED
  BY <1>1 DEF OneOrder, OneWriter, StandsAt, InOrder, Writing

LEMMA FindOneOrder ==
  ASSUME TInv, OneOrder, NEW d \in Deliveries, FindOrder(d), incidents \subseteq incidents'
  PROVE  OneOrder'
<1>1. UNCHANGED <<orders, taken, counted>>
  BY DEF FindOrder, effects
<1>2. CASE Goto(d, "respond")
  BY <1>1, <1>2, OneOrderLeft DEF Writing
<1>3. CASE ~Goto(d, "respond")
  <2>1. /\ Goto(d, "create")
        /\ ~(orders[Session(d)] > 0)
        /\ incidents' = incidents \cup Note("overlapped",
             \E e \in Deliveries \ {d} : Session(e) = Session(d) /\ pc[e] = "create")
    BY <1>3 DEF FindOrder
  <2>2. Session(d) \in Sessions /\ orders[Session(d)] = 0
    BY <2>1, DeliveryOf DEF TInv, Numbers
  <2>3. \A e \in Deliveries : pc'[e] = IF e = d THEN "create" ELSE pc[e]
    BY <2>1 DEF TInv, Shapes, Goto
  <2> SUFFICES ASSUME "overlapped" \notin incidents'
               PROVE  /\ OneWriter'
                      /\ \A e \in Deliveries : StandsAt(e)'
                      /\ \A s \in Sessions : InOrder(s)'
    BY DEF OneOrder
  <2>4. OneWriter /\ (\A e \in Deliveries : StandsAt(e)) /\ (\A s \in Sessions : InOrder(s))
    BY DEF OneOrder
  <2>5. ASSUME NEW e \in Deliveries, e # d, Session(e) = Session(d) PROVE pc[e] \notin Writing
    <3>1. pc[e] # "create"
      BY <2>1, <2>5 DEF Note
    <3>2. StandsAt(e) /\ InOrder(Session(d))
      BY <2>2, <2>4
    <3>3. {orders[Session(d)], taken[Session(d)]} \subseteq Nat
      BY <2>2 DEF TInv, Numbers
    <3>4. QED
      BY <2>2, <2>5, <3>1, <3>2, <3>3 DEF StandsAt, InOrder, Writing
  <2>6. OneWriter'
    BY <2>3, <2>4, <2>5 DEF OneWriter
  <2>7. ASSUME NEW e \in Deliveries PROVE StandsAt(e)'
    BY <1>1, <2>2, <2>3, <2>4 DEF StandsAt
  <2>8. QED
    BY <1>1, <2>4, <2>6, <2>7 DEF InOrder
<1>4. QED
  BY <1>2, <1>3

(* A writer's step: the others of its session are not writing.             *)
LEMMA WriterAlone ==
  ASSUME TInv, OneOrder, NEW d \in Deliveries, pc[d] \in Writing, "overlapped" \notin incidents
  PROVE  /\ Session(d) \in Sessions
         /\ {orders[Session(d)], taken[Session(d)], counted[Session(d)]} \subseteq Nat
         /\ StandsAt(d) /\ InOrder(Session(d))
         /\ \A e \in Deliveries \ {d} : Session(e) = Session(d) => pc[e] \notin Writing
<1>1. Session(d) \in Sessions
  BY DeliveryOf
<1>2. QED
  BY <1>1 DEF TInv, Numbers, OneOrder, OneWriter

LEMMA CreateOneOrder ==
  ASSUME TInv, OneOrder, NEW d \in Deliveries, CreateOrder(d), incidents \subseteq incidents'
  PROVE  OneOrder'
<1> SUFFICES ASSUME "overlapped" \notin incidents'
             PROVE  /\ OneWriter'
                    /\ \A e \in Deliveries : StandsAt(e)'
                    /\ \A s \in Sessions : InOrder(s)'
  BY DEF OneOrder
<1>1. /\ pc[d] = "create" /\ Goto(d, "stock")
      /\ orders' = [orders EXCEPT ![Session(d)] = @ + 1]
      /\ UNCHANGED <<taken, counted>>
  BY DEF CreateOrder, Again
<1>2. OneWriter /\ (\A e \in Deliveries : StandsAt(e)) /\ (\A s \in Sessions : InOrder(s))
  BY DEF OneOrder
<1>3. /\ Session(d) \in Sessions
      /\ {orders[Session(d)], taken[Session(d)], counted[Session(d)]} \subseteq Nat
      /\ StandsAt(d) /\ InOrder(Session(d))
      /\ \A e \in Deliveries \ {d} : Session(e) = Session(d) => pc[e] \notin Writing
  BY <1>1, WriterAlone DEF Writing
<1>4. orders[Session(d)] = 0 /\ taken[Session(d)] = 0 /\ counted[Session(d)] = 0
  BY <1>1, <1>3 DEF StandsAt, InOrder
<1>5. \A s \in Sessions : orders'[s] = IF s = Session(d) THEN 1 ELSE orders[s]
  BY <1>1, <1>3, <1>4 DEF TInv, Numbers
<1>6. \A e \in Deliveries : pc'[e] = IF e = d THEN "stock" ELSE pc[e]
  BY <1>1 DEF TInv, Shapes, Goto
<1>7. OneWriter'
  BY <1>1, <1>2, <1>6 DEF OneWriter, Writing
<1>8. ASSUME NEW e \in Deliveries PROVE StandsAt(e)'
  <2>1. Session(e) \in Sessions
    BY DeliveryOf
  <2>2. CASE e = d
    BY <1>1, <1>4, <1>5, <1>6, <2>1, <2>2 DEF StandsAt
  <2>3. CASE e # d /\ Session(e) = Session(d)
    <3>1. pc'[e] \notin Writing
      BY <1>3, <1>6, <2>3
    <3>2. QED
      BY <3>1 DEF StandsAt, Writing
  <2>4. CASE Session(e) # Session(d)
    BY <1>1, <1>2, <1>5, <1>6, <2>1, <2>4 DEF StandsAt
  <2>5. QED
    BY <2>2, <2>3, <2>4
<1>9. ASSUME NEW s \in Sessions PROVE InOrder(s)'
  BY <1>1, <1>2, <1>4, <1>5 DEF InOrder
<1>10. QED
  BY <1>7, <1>8, <1>9

LEMMA StockOneOrder ==
  ASSUME TInv, OneOrder, NEW d \in Deliveries, TakeStock(d), incidents \subseteq incidents'
  PROVE  OneOrder'
<1> SUFFICES ASSUME "overlapped" \notin incidents'
             PROVE  /\ OneWriter'
                    /\ \A e \in Deliveries : StandsAt(e)'
                    /\ \A s \in Sessions : InOrder(s)'
  BY DEF OneOrder
<1>1. /\ pc[d] = "stock" /\ Goto(d, "credit")
      /\ taken' = [taken EXCEPT ![Session(d)] = @ + 1]
      /\ UNCHANGED <<orders, counted>>
  BY DEF TakeStock, Again
<1>2. OneWriter /\ (\A e \in Deliveries : StandsAt(e)) /\ (\A s \in Sessions : InOrder(s))
  BY DEF OneOrder
<1>3. /\ Session(d) \in Sessions
      /\ {orders[Session(d)], taken[Session(d)], counted[Session(d)]} \subseteq Nat
      /\ StandsAt(d) /\ InOrder(Session(d))
      /\ \A e \in Deliveries \ {d} : Session(e) = Session(d) => pc[e] \notin Writing
  BY <1>1, WriterAlone DEF Writing
<1>4. orders[Session(d)] = 1 /\ taken[Session(d)] = 0 /\ counted[Session(d)] = 0
  BY <1>1, <1>3 DEF StandsAt, InOrder
<1>5. \A s \in Sessions : taken'[s] = IF s = Session(d) THEN 1 ELSE taken[s]
  BY <1>1, <1>3, <1>4 DEF TInv, Numbers
<1>6. \A e \in Deliveries : pc'[e] = IF e = d THEN "credit" ELSE pc[e]
  BY <1>1 DEF TInv, Shapes, Goto
<1>7. OneWriter'
  BY <1>1, <1>2, <1>6 DEF OneWriter, Writing
<1>8. ASSUME NEW e \in Deliveries PROVE StandsAt(e)'
  <2>1. Session(e) \in Sessions
    BY DeliveryOf
  <2>2. CASE e = d
    BY <1>1, <1>4, <1>5, <1>6, <2>1, <2>2 DEF StandsAt
  <2>3. CASE e # d /\ Session(e) = Session(d)
    <3>1. pc'[e] \notin Writing
      BY <1>3, <1>6, <2>3
    <3>2. QED
      BY <3>1 DEF StandsAt, Writing
  <2>4. CASE Session(e) # Session(d)
    BY <1>1, <1>2, <1>5, <1>6, <2>1, <2>4 DEF StandsAt
  <2>5. QED
    BY <2>2, <2>3, <2>4
<1>9. ASSUME NEW s \in Sessions PROVE InOrder(s)'
  BY <1>1, <1>2, <1>4, <1>5 DEF InOrder
<1>10. QED
  BY <1>7, <1>8, <1>9

LEMMA CreditOneOrder ==
  ASSUME TInv, OneOrder, NEW d \in Deliveries, CreditCreator(d), incidents \subseteq incidents'
  PROVE  OneOrder'
<1>1. pc[d] = "credit" /\ UNCHANGED <<orders, taken, counted>>
  BY DEF CreditCreator
<1>2. PICK q \in {"coupon", "respond"} : Goto(d, q)
  BY DEF CreditCreator
<1>3. \A e \in Deliveries : pc'[e] = IF e = d THEN q ELSE pc[e]
  BY <1>2 DEF TInv, Shapes, Goto
<1>4. QED
  BY <1>1, <1>3 DEF OneOrder, OneWriter, StandsAt, InOrder, Writing

LEMMA CouponOneOrder ==
  ASSUME TInv, OneOrder, NEW d \in Deliveries, CountCoupon(d), incidents \subseteq incidents'
  PROVE  OneOrder'
<1> SUFFICES ASSUME "overlapped" \notin incidents'
             PROVE  /\ OneWriter'
                    /\ \A e \in Deliveries : StandsAt(e)'
                    /\ \A s \in Sessions : InOrder(s)'
  BY DEF OneOrder
<1>1. /\ pc[d] = "coupon" /\ Goto(d, "respond")
      /\ counted' = [counted EXCEPT ![Session(d)] = @ + 1] \/ counted' = counted
      /\ UNCHANGED <<orders, taken>>
  BY DEF CountCoupon, Again
<1>2. OneWriter /\ (\A e \in Deliveries : StandsAt(e)) /\ (\A s \in Sessions : InOrder(s))
  BY DEF OneOrder
<1>3. /\ Session(d) \in Sessions
      /\ {orders[Session(d)], taken[Session(d)], counted[Session(d)]} \subseteq Nat
      /\ StandsAt(d) /\ InOrder(Session(d))
      /\ \A e \in Deliveries \ {d} : Session(e) = Session(d) => pc[e] \notin Writing
  BY <1>1, WriterAlone DEF Writing
<1>4. taken[Session(d)] = 1 /\ counted[Session(d)] = 0
  BY <1>1, <1>3 DEF StandsAt
<1>5. /\ counted'[Session(d)] \in 0 .. 1
      /\ \A s \in Sessions \ {Session(d)} : counted'[s] = counted[s]
  BY <1>1, <1>3, <1>4 DEF TInv, Numbers
<1>6. \A e \in Deliveries : pc'[e] = IF e = d THEN "respond" ELSE pc[e]
  BY <1>1 DEF TInv, Shapes, Goto
<1>7. OneWriter'
  BY <1>1, <1>2, <1>6 DEF OneWriter, Writing
<1>8. ASSUME NEW e \in Deliveries PROVE StandsAt(e)'
  <2>1. Session(e) \in Sessions
    BY DeliveryOf
  <2>2. CASE e = d
    BY <1>6, <2>2 DEF StandsAt
  <2>3. CASE e # d /\ Session(e) = Session(d)
    <3>1. pc'[e] \notin Writing
      BY <1>3, <1>6, <2>3
    <3>2. QED
      BY <3>1 DEF StandsAt, Writing
  <2>4. CASE Session(e) # Session(d)
    BY <1>1, <1>2, <1>5, <1>6, <2>1, <2>4 DEF StandsAt
  <2>5. QED
    BY <2>2, <2>3, <2>4
<1>9. ASSUME NEW s \in Sessions PROVE InOrder(s)'
  BY <1>1, <1>2, <1>3, <1>4, <1>5 DEF InOrder
<1>10. QED
  BY <1>7, <1>8, <1>9

LEMMA NextOneOrder == ASSUME TInv, OneOrder, [Next]_vars PROVE OneOrder'
<1>1. incidents \subseteq incidents'
  BY IncidentsStay
<1>2. CASE UNCHANGED vars
  BY <1>1, <1>2, OneOrderStill DEF vars, effects
<1>3. ASSUME NEW s \in Sessions, Checkout(s) \/ Pay(s) PROVE OneOrder'
  BY <1>1, <1>3, OneOrderStill DEF Checkout, Pay, effects
<1>4. ASSUME NEW n \in 0 .. Stock, EditProduct(n) PROVE OneOrder'
  BY <1>1, <1>4, OneOrderStill DEF EditProduct, effects
<1>5. ASSUME NEW d \in Deliveries, Deliver(d) \/ Mark(d) \/ Fail(d) \/ Respond(d) \/ Die(d)
      PROVE  OneOrder'
  <2>1. UNCHANGED <<orders, taken, counted>>
    BY <1>5 DEF Deliver, Mark, Fail, Respond, Die, effects
  <2>2. \E q : Goto(d, q) /\ q \notin Writing
    BY <1>5 DEF Deliver, Mark, Fail, Respond, Die, Writing
  <2>3. QED
    BY <1>1, <2>1, <2>2, OneOrderLeft
<1>6. ASSUME NEW d \in Deliveries, Step(d) PROVE OneOrder'
  BY <1>1, <1>5, <1>6, FindOneOrder, CreateOneOrder, StockOneOrder, CreditOneOrder, CouponOneOrder
     DEF Step
<1>7. QED
  BY <1>2, <1>3, <1>4, <1>5, <1>6 DEF Next

(* Payment comes first: what is delivered or changed is paid already, and  *)
(* a cart that is paid stays so.                                           *)
LEMMA PaidStays ==
  ASSUME TInv, PaidFirst, [Next]_vars, NEW s \in Sessions, cart[s] = "paid"
  PROVE  cart'[s] = "paid"
BY DEF TInv, Shapes, Next, Step, vars, Checkout, Pay, EditProduct, Deliver, Mark, FindOrder, CreateOrder,
   TakeStock, CreditCreator, CountCoupon, Respond, Fail, Die

LEMMA HandledIsPaid ==
  ASSUME TInv, PaidFirst, NEW d \in Deliveries, Deliver(d) \/ Step(d) \/ Fail(d) \/ Die(d)
  PROVE  /\ cart[Session(d)] = "paid" /\ Session(d) \in Sessions
         /\ \E q : Goto(d, q)
         /\ \A s \in Sessions \ {Session(d)} :
              orders'[s] = orders[s] /\ taken'[s] = taken[s] /\ counted'[s] = counted[s]
<1>1. Session(d) \in Sessions
  BY DeliveryOf
<1>2. CASE Deliver(d)
  BY <1>1, <1>2 DEF Deliver, effects
<1>3. CASE Step(d) \/ Fail(d) \/ Die(d)
  <2>1. pc[d] # "idle"
    BY <1>3 DEF Step, Mark, FindOrder, CreateOrder, TakeStock, CreditCreator, CountCoupon, Respond,
                Fail, Die, Handling
  <2>2. \E q : Goto(d, q)
    BY <1>3 DEF Step, Mark, FindOrder, CreateOrder, TakeStock, CreditCreator, CountCoupon, Respond,
                Fail, Die
  <2>3. /\ orders' = orders \/ orders' = Again(orders, Session(d))
        /\ taken' = taken \/ taken' = Again(taken, Session(d))
        /\ counted' = counted \/ counted' = Again(counted, Session(d))
    BY <1>3 DEF Step, Mark, FindOrder, CreateOrder, TakeStock, CreditCreator, CountCoupon, Respond,
                Fail, Die, effects
  <2>4. QED
    BY <1>1, <2>1, <2>2, <2>3 DEF PaidFirst, Again, TInv, Numbers
<1>4. QED
  BY <1>2, <1>3

LEMMA NextPaidFirst == ASSUME TInv, PaidFirst, [Next]_vars PROVE PaidFirst'
<1>1. \A s \in Sessions : cart[s] = "paid" => cart'[s] = "paid"
  BY PaidStays
<1>2. CASE UNCHANGED <<effects, pc>>
  BY <1>1, <1>2, DeliveryOf DEF PaidFirst, effects
<1>3. ASSUME NEW d \in Deliveries, Deliver(d) \/ Step(d) \/ Fail(d) \/ Die(d)
      PROVE  PaidFirst'
  <2>1. /\ cart[Session(d)] = "paid" /\ Session(d) \in Sessions
        /\ \A s \in Sessions \ {Session(d)} :
             orders'[s] = orders[s] /\ taken'[s] = taken[s] /\ counted'[s] = counted[s]
    BY <1>3, HandledIsPaid
  <2>2. PICK q : Goto(d, q)
    BY <1>3, HandledIsPaid
  <2>3. \A e \in Deliveries : pc'[e] = IF e = d THEN q ELSE pc[e]
    BY <2>2 DEF TInv, Shapes, Goto
  <2>4. ASSUME NEW e \in Deliveries, pc'[e] # "idle" PROVE cart'[Session(e)] = "paid"
    BY <1>1, <2>1, <2>3, <2>4, DeliveryOf DEF PaidFirst
  <2>5. ASSUME NEW s \in Sessions, orders'[s] + taken'[s] + counted'[s] > 0 PROVE cart'[s] = "paid"
    BY <1>1, <2>1, <2>5 DEF PaidFirst
  <2>6. QED
    BY <2>4, <2>5 DEF PaidFirst
<1>4. QED
  BY <1>2, <1>3 DEF Next, vars, Checkout, Pay, EditProduct

LEMMA NothingUnpaid ==
  ASSUME TInv, PaidFirst, NEW s \in Sessions, cart[s] # "paid"
  PROVE  taken[s] = 0 /\ counted[s] = 0
<1>1. orders[s] \in Nat /\ taken[s] \in Nat /\ counted[s] \in Nat
  BY DEF TInv, Numbers
<1>2. ~(orders[s] + taken[s] + counted[s] > 0)
  BY DEF PaidFirst
<1>3. QED
  BY <1>1, <1>2

(* Only a checkout makes another session wait or hope: what a delivery     *)
(* will still take or count, a delivery of that session was expected to.   *)
LEMMA ExpectedBefore ==
  ASSUME TInv, PaidFirst, NEW d \in Deliveries, Deliver(d) \/ Step(d) \/ Fail(d) \/ Die(d),
         NEW s \in Sessions, NEW P \in {ToTake, ToCount}, Coming(s)' \/ At(s, P)'
  PROVE  Coming(s) \/ At(s, P)
<1>1. PICK q : Goto(d, q)
  BY HandledIsPaid
<1>2. \A e \in Deliveries : pc'[e] = IF e = d THEN q ELSE pc[e]
  BY <1>1 DEF TInv, Shapes, Goto
<1>3. cart[Session(d)] = "paid" /\ UNCHANGED cart /\ acked \subseteq acked'
  BY HandledIsPaid DEF Deliver, Step, Mark, FindOrder, CreateOrder, TakeStock, CreditCreator,
                       CountCoupon, Respond, Fail, Die, events
<1>4. orders'[s] = 0 => orders[s] = 0
  <2>1. orders' = orders \/ orders' = [orders EXCEPT ![Session(d)] = @ + 1]
    BY DEF Deliver, Step, Mark, FindOrder, CreateOrder, TakeStock, CreditCreator, CountCoupon,
           Respond, Fail, Die, effects, Again
  <2>2. QED
    BY <2>1 DEF TInv, Numbers
<1>5. q # "idle" /\ (q \in {"mark", "find"} => \/ pc[d] = "mark"
                                             \/ (pc[d] = "idle" /\ Session(d) \notin acked))
  <2>1. pc'[d] = q
    BY <1>2
  <2>2. QED
    BY <1>1, <2>1 DEF TInv, Shapes, Goto, Deliver, Step, Mark, FindOrder, CreateOrder, TakeStock,
       CreditCreator, CountCoupon, Respond, Fail, Die
<1>6. q \in P => \/ pc[d] \in P
                 \/ pc[d] = "find" /\ Session(d) \notin Long /\ ~(orders[Session(d)] > 0)
  <2>1. pc'[d] = q
    BY <1>2
  <2>2. QED
    BY <1>1, <2>1 DEF TInv, Shapes, Goto, Deliver, Step, Mark, FindOrder, CreateOrder, TakeStock,
       CreditCreator, CountCoupon, Respond, Fail, Die, ToTake, ToCount
<1>7. CASE Coming(s)'
  <2>1. /\ s \notin Long /\ orders[s] = 0
        /\ \/ cart[s] = "open"
           \/ /\ cart[s] = "paid"
              /\ \E e \in Deliveries :
                   /\ Session(e) = s
                   /\ pc'[e] \in {"mark", "find"} \/ (pc'[e] = "idle" /\ s \notin acked')
    BY <1>3, <1>4, <1>7 DEF Coming
  <2>2. CASE cart[s] = "open"
    BY <2>1, <2>2 DEF Coming
  <2>3. ASSUME cart[s] = "paid",
               NEW e \in Deliveries, Session(e) = s,
               pc'[e] \in {"mark", "find"} \/ (pc'[e] = "idle" /\ s \notin acked')
        PROVE  Coming(s)
    <3>1. pc[e] \in {"mark", "find"} \/ (pc[e] = "idle" /\ s \notin acked)
      BY <1>2, <1>3, <1>5, <2>3
    <3>2. QED
      BY <2>1, <2>3, <3>1 DEF Coming
  <2>4. QED
    BY <2>1, <2>2, <2>3
<1>8. CASE At(s, P)'
  <2>1. PICK e \in Deliveries : Session(e) = s /\ pc'[e] \in P
    BY <1>8 DEF At
  <2>2. CASE pc[e] \in P
    BY <2>1, <2>2 DEF At
  <2>3. CASE pc[e] \notin P
    <3>1. e = d /\ pc[d] = "find" /\ s \notin Long /\ ~(orders[s] > 0)
      BY <1>2, <1>6, <2>1, <2>3
    <3>2. orders[s] = 0
      BY <3>1 DEF TInv, Numbers
    <3>3. QED
      BY <1>3, <2>1, <3>1, <3>2 DEF Coming
  <2>4. QED
    BY <2>2, <2>3
<1>9. QED
  BY <1>7, <1>8

LEMMA NoneJoins ==
  ASSUME TInv, PaidFirst,
         \/ UNCHANGED vars
         \/ \E s \in Sessions : Pay(s)
         \/ \E n \in 0 .. Stock : EditProduct(n)
         \/ \E d \in Deliveries : Deliver(d) \/ Step(d) \/ Fail(d) \/ Die(d)
  PROVE  Waiting' \subseteq Waiting /\ Hopes' \subseteq Hopes
<1>1. ASSUME NEW s \in Sessions, NEW P \in {ToTake, ToCount}, Coming(s)' \/ At(s, P)'
      PROVE  Coming(s) \/ At(s, P)
  <2>1. ASSUME NEW t \in Sessions, Pay(t) PROVE Coming(s) \/ At(s, P)
    <3>1. /\ UNCHANGED <<orders, acked, pc>>
          /\ \E to \in {"paid", "expired"} : cart' = [cart EXCEPT ![t] = to]
          /\ cart[t] = "open"
      BY <2>1 DEF Pay, effects, events
    <3>2. cart'[s] = cart[s] \/ cart[s] = "open"
      BY <3>1 DEF TInv, Shapes
    <3>3. cart'[s] = "open" => cart[s] = "open"
      BY <3>1 DEF TInv, Shapes
    <3>4. QED
      BY <1>1, <3>1, <3>2, <3>3 DEF Coming, At
  <2>2. CASE UNCHANGED <<orders, acked, pc, cart>>
    BY <1>1, <2>2 DEF Coming, At
  <2>3. UNCHANGED vars \/ (\E n \in 0 .. Stock : EditProduct(n)) => UNCHANGED <<orders, acked, pc, cart>>
    BY DEF vars, EditProduct, effects, events
  <2>4. QED
    BY <1>1, <2>1, <2>2, <2>3, ExpectedBefore
<1>2. ASSUME NEW s \in Sessions
      PROVE  (taken'[s] = 0 => taken[s] = 0) /\ (counted'[s] = 0 => counted[s] = 0)
  <2>1. /\ taken' = taken \/ \E d \in Deliveries : taken' = [taken EXCEPT ![Session(d)] = @ + 1]
        /\ counted' = counted \/ \E d \in Deliveries : counted' = [counted EXCEPT ![Session(d)] = @ + 1]
    BY DEF vars, Pay, EditProduct, Deliver, Step, Mark, FindOrder, CreateOrder, TakeStock,
       CreditCreator, CountCoupon, Respond, Fail, Die, effects, Again
  <2>2. QED
    BY <2>1 DEF TInv, Numbers
<1>3. Waiting' \subseteq Waiting
  BY <1>1, <1>2 DEF Waiting
<1>4. Hopes' \subseteq Hopes
  BY <1>1, <1>2, KindsAssumption DEF Hopes
<1>5. QED
  BY <1>3, <1>4

LEMMA OneJoins ==
  ASSUME TInv, NEW s \in Sessions, Checkout(s)
  PROVE  Waiting' \subseteq Waiting \cup {s} /\ Hopes' \subseteq Hopes \cup ({s} \cap Couponed)
<1>1. UNCHANGED <<orders, taken, counted, acked, pc>> /\ cart' = [cart EXCEPT ![s] = "open"]
  BY DEF Checkout, effects, events
<1>2. \A t \in Sessions \ {s} : cart'[t] = cart[t]
  BY <1>1 DEF TInv, Shapes
<1>3. ASSUME NEW t \in Sessions \ {s}, NEW P
      PROVE  (Coming(t) <=> Coming(t)') /\ (At(t, P) <=> At(t, P)')
  BY <1>1, <1>2 DEF Coming, At
<1>4. ASSUME NEW t \in Sessions \ {s}
      PROVE  /\ (Coming(t) <=> Coming(t)')
             /\ (At(t, ToTake) <=> At(t, ToTake)') /\ (At(t, ToCount) <=> At(t, ToCount)')
  BY <1>3 DEF ToTake, ToCount
<1>5. QED
  BY <1>1, <1>4, KindsAssumption DEF Waiting, Hopes

(* The units: a checkout adds its own to what is promised, the delivery of *)
(* its event moves them from there to what is taken.                       *)
LEMMA QtyType == ASSUME NEW s \in Sessions PROVE Qty[s] \in Nat /\ Qty[s] > 0
BY SessionsAssumption

LEMMA WaitingType ==
  /\ IsFiniteSet(Waiting) /\ Waiting \subseteq Sessions
  /\ Promised = Total(Qty, Waiting) /\ Promised \in Nat
<1>1. Waiting \subseteq Sessions
  BY DEF Waiting
<1>2. IsFiniteSet(Waiting)
  BY <1>1, SessionsAssumption, FS_Subset
<1>3. Promised = Total(Qty, Waiting)
  BY DEF Promised
<1>4. QED
  BY <1>1, <1>2, <1>3, TotalType, QtyType

(* Fewer that wait, fewer units that are promised.                         *)
LEMMA FewerWait ==
  ASSUME NEW W \in SUBSET Waiting
  PROVE  Total(Qty, W) \in Nat /\ Total(Qty, W) <= Promised
<1>1. \A t \in Waiting : Qty[t] \in Nat /\ Qty[t] <= Qty[t]
  BY WaitingType, QtyType
<1>2. Total(Qty, W) <= Promised
  BY <1>1, WaitingType, TotalMonotone
<1>3. Total(Qty, W) \in Nat
  BY <1>1, WaitingType, FS_Subset, TotalType
<1>4. QED
  BY <1>2, <1>3

LEMMA UnitsStill ==
  ASSUME TInv, UnitsCovered, UNCHANGED <<taken, inventory, supply>>, incidents \subseteq incidents',
         Waiting' \subseteq Waiting
  PROVE  UnitsCovered'
<1>1. Promised' = Total(Qty, Waiting')
  BY DEF Promised
<1>2. Promised' \in Nat /\ Promised' <= Promised
  BY <1>1, FewerWait
<1>3. UnitsOf(taken)' = UnitsOf(taken)
  BY DEF UnitsOf
<1>4. QED
  BY <1>2, <1>3, WaitingType DEF UnitsCovered, TInv, Shapes

LEMMA CheckoutUnits ==
  ASSUME TInv, UnitsCovered, NEW s \in Sessions, Checkout(s) PROVE UnitsCovered'
<1>1. /\ inventory >= 0 => inventory >= Largest[s]
      /\ UNCHANGED <<taken, inventory, supply>>
      /\ incidents \subseteq incidents'
      /\ /\ Promised > 0 \/ Largest[s] < Qty[s]
         /\ inventory \in 0 .. Promised' - 1
         => "crowded" \in incidents'
  BY DEF Checkout, effects, Note
<1>2. SUFFICES ASSUME {"overlapped", "crowded"} \cap incidents' = {}
               PROVE  Promised' <= inventory' /\ inventory' + UnitsOf(taken)' = supply'
  BY DEF UnitsCovered
<1>3. Promised <= inventory /\ inventory + UnitsOf(taken) = supply
  BY <1>1, <1>2 DEF UnitsCovered
<1>4. UnitsOf(taken)' = UnitsOf(taken)
  BY <1>1 DEF UnitsOf
<1>5. Waiting' \subseteq Waiting \cup {s} /\ Promised' = Total(Qty, Waiting')
  BY OneJoins DEF Promised
<1>6. IsFiniteSet(Waiting') /\ \A t \in Waiting' : Qty[t] \in Nat
  <2>1. IsFiniteSet(Waiting \cup {s})
    BY WaitingType, FS_AddElement
  <2>2. QED
    BY <1>5, <2>1, WaitingType, FS_Subset, QtyType
<1>7. Promised' \in Nat
  BY <1>5, <1>6, TotalType
<1>8. Promised' <= Promised + Qty[s]
  <2>1. /\ IsFiniteSet(Items(Qty, Waiting)) /\ Promised = Cardinality(Items(Qty, Waiting))
        /\ Promised' = Cardinality(Items(Qty, Waiting'))
    BY <1>5, <1>6, WaitingType, QtyType, ItemsFinite, TotalType
  <2>2. IsFiniteSet({s} \X (1 .. Qty[s])) /\ Cardinality({s} \X (1 .. Qty[s])) = Qty[s]
    BY QtyType, OwnItems
  <2>3. Items(Qty, Waiting') \subseteq Items(Qty, Waiting) \cup ({s} \X (1 .. Qty[s]))
    BY <1>5 DEF Items
  <2>4. QED
    BY <2>1, <2>2, <2>3, UnionBound
<1>9. /\ Promised \in Nat /\ inventory \in Int
      /\ Qty[s] \in Nat /\ Largest[s] \in Nat
  BY WaitingType, QtyType, SessionsAssumption DEF TInv, Shapes
<1>10. Promised' <= inventory
  BY <1>1, <1>2, <1>3, <1>7, <1>8, <1>9
<1>11. QED
  BY <1>1, <1>3, <1>4, <1>10

LEMMA EditUnits ==
  ASSUME TInv, PaidFirst, UnitsCovered, NEW n \in 0 .. Stock, EditProduct(n) PROVE UnitsCovered'
<1>1. /\ inventory' = n /\ supply' = n + UnitsOf(taken)
      /\ incidents' = incidents \cup Note("crowded", n < Promised)
      /\ UNCHANGED <<cart, taken>>
  BY DEF EditProduct, effects
<1>2. SUFFICES ASSUME {"overlapped", "crowded"} \cap incidents' = {}
               PROVE  Promised' <= inventory' /\ inventory' + UnitsOf(taken)' = supply'
  BY DEF UnitsCovered
<1>3. ~(n < Promised)
  BY <1>1, <1>2 DEF Note
<1>4. Promised' \in Nat /\ Promised' <= Promised /\ UnitsOf(taken)' = UnitsOf(taken)
  <2>1. Waiting' \subseteq Waiting
    BY NoneJoins
  <2>2. Promised' = Total(Qty, Waiting')
    BY DEF Promised
  <2>3. QED
    BY <1>1, <2>1, <2>2, FewerWait DEF UnitsOf
<1>5. n \in Nat /\ Promised \in Nat
  BY NumbersAssumption, WaitingType
<1>6. QED
  BY <1>1, <1>3, <1>4, <1>5

LEMMA StockUnits ==
  ASSUME TInv, OneOrder, PaidFirst, UnitsCovered, NEW d \in Deliveries, TakeStock(d)
  PROVE  UnitsCovered'
<1> DEFINE s == Session(d)
           sum(n) == [t \in Sessions |-> Qty[t] * n[t]]
<1>1. /\ pc[d] = "stock"
      /\ inventory >= 0 =>
           \E n \in 1 .. Qty[s] : (n = Qty[s] \/ n > inventory) /\ inventory' = inventory - n
      /\ taken' = [taken EXCEPT ![s] = @ + 1]
      /\ UNCHANGED <<cart, supply, incidents>>
  <2>1. inventory \in Int
    BY DEF TInv, Shapes
  <2>2. inventory >= 0 =>
          \E n \in 1 .. Qty[s] : (n = Qty[s] \/ n > inventory) /\ inventory' = inventory - n
    BY <2>1 DEF TakeStock
  <2>3. QED
    BY <2>2 DEF TakeStock, Again
<1>2. SUFFICES ASSUME {"overlapped", "crowded"} \cap incidents = {}
               PROVE  Promised' <= inventory' /\ inventory' + UnitsOf(taken)' = supply'
  BY <1>1 DEF UnitsCovered
<1>3. Promised <= inventory /\ inventory + UnitsOf(taken) = supply
  BY <1>2 DEF UnitsCovered
<1>4. s \in Sessions /\ taken[s] = 0
  BY <1>1, <1>2, WriterAlone DEF StandsAt, Writing
<1>6. taken' \in [Sessions -> Nat] /\ taken \in [Sessions -> Nat]
  BY <1>1, <1>4 DEF TInv, Numbers
<1>7. \A t \in Sessions : taken'[t] = IF t = s THEN 1 ELSE taken[t]
  BY <1>1, <1>4, <1>6
<1> HIDE DEF s
<1>8. Waiting' \subseteq Waiting \ {s} /\ s \in Waiting
  <2>1. Waiting' \subseteq Waiting
    BY NoneJoins DEF Step
  <2>2. s \notin Waiting'
    BY <1>4, <1>7 DEF Waiting
  <2>3. At(s, ToTake)
    BY <1>1 DEF At, ToTake, s
  <2>4. QED
    BY <1>4, <2>1, <2>2, <2>3 DEF Waiting
<1>9. Promised' = Total(Qty, Waiting')
  BY DEF Promised
<1>10. Promised' \in Nat /\ Promised' + Qty[s] <= Promised
  <2>1. \A t \in Waiting : Qty[t] \in Nat /\ Qty[t] <= Qty[t]
    BY WaitingType, QtyType
  <2>2. Promised = Total(Qty, Waiting \ {s}) + Qty[s]
    BY <1>8, <2>1, WaitingType, TotalSplits
  <2>3. IsFiniteSet(Waiting \ {s})
    BY WaitingType, FS_RemoveElement
  <2>4. Total(Qty, Waiting') <= Total(Qty, Waiting \ {s})
    BY <1>8, <2>1, <2>3, TotalMonotone
  <2>5. Total(Qty, Waiting') \in Nat /\ Total(Qty, Waiting \ {s}) \in Nat
    BY <1>8, FewerWait
  <2>6. QED
    BY <1>4, <1>9, <2>2, <2>4, <2>5, QtyType
<1>11. UnitsOf(taken') = UnitsOf(taken) + Qty[s]
  <2>1. \A a, b \in Nat : a * b \in Nat
    OBVIOUS
  <2>2. \A t \in Sessions : sum(taken)[t] \in Nat /\ sum(taken')[t] \in Nat
    BY <1>6, <2>1, QtyType
  <2>3. \A t \in Sessions \ {s} : sum(taken)[t] = sum(taken')[t]
    BY <1>7
  <2>4. sum(taken)[s] = 0 /\ sum(taken')[s] = Qty[s]
    <3>1. sum(taken)[s] = Qty[s] * 0 /\ sum(taken')[s] = Qty[s] * 1
      BY <1>4, <1>7
    <3>2. Qty[s] * 0 = 0 /\ Qty[s] * 1 = Qty[s]
      BY <1>4, QtyType
    <3>3. QED
      BY <3>1, <3>2
  <2>5. Total(sum(taken'), Sessions) = Total(sum(taken), Sessions) + Qty[s] - 0
    <3> HIDE DEF sum
    <3>1. QED
      BY <1>4, <2>2, <2>3, <2>4, TotalAtOne, SessionsAssumption
  <2>6. Total(sum(taken), Sessions) \in Nat /\ Qty[s] \in Nat
    <3> HIDE DEF sum
    <3>1. QED
      BY <1>4, <2>2, TotalType, QtyType, SessionsAssumption
  <2>7. QED
    BY <2>5, <2>6 DEF UnitsOf
<1>12. Promised \in Nat /\ Qty[s] \in Nat /\ inventory \in Int /\ UnitsOf(taken) \in Nat
  BY <1>4, <1>6, UnitsType, QtyType, WaitingType DEF TInv, Shapes
<1>13. inventory' = inventory - Qty[s]
  BY <1>1, <1>3, <1>10, <1>12
<1>14. QED
  BY <1>1, <1>3, <1>10, <1>11, <1>12, <1>13

LEMMA NextUnits ==
  ASSUME TInv, OneOrder, PaidFirst, UnitsCovered, [Next]_vars PROVE UnitsCovered'
<1>1. incidents \subseteq incidents'
  BY IncidentsStay
<1>2. ASSUME NEW s \in Sessions, Checkout(s) PROVE UnitsCovered'
  BY <1>2, CheckoutUnits
<1>3. ASSUME NEW n \in 0 .. Stock, EditProduct(n) PROVE UnitsCovered'
  BY <1>3, EditUnits
<1>4. ASSUME NEW d \in Deliveries, TakeStock(d) PROVE UnitsCovered'
  BY <1>4, StockUnits
<1>5. ASSUME NEW s \in Sessions, Pay(s) PROVE UnitsCovered'
  <2>1. Waiting' \subseteq Waiting
    BY <1>5, NoneJoins
  <2>2. QED
    BY <1>1, <1>5, <2>1, UnitsStill DEF Pay, effects
<1>6. ASSUME NEW d \in Deliveries,
             \/ Deliver(d) \/ Mark(d) \/ FindOrder(d) \/ CreateOrder(d) \/ CreditCreator(d)
             \/ CountCoupon(d) \/ Respond(d) \/ Fail(d) \/ Die(d)
      PROVE  UnitsCovered'
  <2>1. Waiting' \subseteq Waiting
    BY <1>6, NoneJoins DEF Step
  <2>2. UNCHANGED <<taken, inventory, supply>>
    BY <1>6 DEF Deliver, Mark, FindOrder, CreateOrder, CreditCreator, CountCoupon, Respond, Fail, Die,
                effects
  <2>3. QED
    BY <1>1, <2>1, <2>2, UnitsStill
<1>7. CASE UNCHANGED vars
  <2>1. Waiting' \subseteq Waiting
    BY <1>7, NoneJoins
  <2>2. QED
    BY <1>1, <1>7, <2>1, UnitsStill DEF vars, effects
<1>8. QED
  BY <1>2, <1>3, <1>4, <1>5, <1>6, <1>7 DEF Next, Step

(* The coupon: the same, one redemption for each session.                  *)
LEMMA HopesType ==
  IsFiniteSet(Hopes) /\ Hopes \subseteq Couponed /\ Cardinality(Hopes) \in Nat /\ IsFiniteSet(Couponed)
<1>1. IsFiniteSet(Couponed)
  BY SessionsAssumption, KindsAssumption, FS_Subset
<1>2. Hopes \subseteq Couponed
  BY DEF Hopes
<1>3. QED
  BY <1>1, <1>2, FS_Subset, FS_CardinalityType

LEMMA UsesStill ==
  ASSUME TInv, UsesCovered, UNCHANGED <<counted, redemptions>>, incidents \subseteq incidents',
         Hopes' \subseteq Hopes
  PROVE  UsesCovered'
<1>1. Cardinality(Hopes') <= Cardinality(Hopes) /\ Cardinality(Hopes') \in Nat
  BY HopesType, FS_Subset, FS_CardinalityType
<1>2. Total(counted, Couponed)' = Total(counted, Couponed)
  OBVIOUS
<1>3. QED
  BY <1>1, <1>2, HopesType, NumbersAssumption DEF UsesCovered, TInv, Shapes

LEMMA CheckoutUses ==
  ASSUME TInv, UsesCovered, NEW s \in Sessions, Checkout(s) PROVE UsesCovered'
<1>1. /\ s \in Couponed => redemptions < MaxRedemptions
      /\ UNCHANGED <<counted, redemptions>>
      /\ incidents \subseteq incidents'
      /\ Hopes # {} /\ redemptions + Cardinality(Hopes') > MaxRedemptions => "stacked" \in incidents'
  BY DEF Checkout, effects, Note
<1>2. Hopes' \subseteq Hopes \cup ({s} \cap Couponed)
  BY OneJoins
<1>3. CASE Hopes' \subseteq Hopes
  BY <1>1, <1>3, UsesStill
<1>4. CASE ~(Hopes' \subseteq Hopes)
  <2>1. s \in Couponed
    BY <1>2, <1>4
  <2>2. redemptions' = Total(counted, Couponed)'
    BY <1>1 DEF UsesCovered
  <2>3. ASSUME {"overlapped", "stacked"} \cap incidents' = {}
        PROVE  redemptions + Cardinality(Hopes') <= MaxRedemptions
    <3>1. IsFiniteSet({s}) /\ Cardinality({s}) = 1
      BY FS_Singleton
    <3>2. Cardinality(Hopes') <= Cardinality(Hopes) + 1
      BY <1>2, <3>1, HopesType, UnionBound
    <3>3. IsFiniteSet(Hopes') /\ Cardinality(Hopes') \in Nat
      <4>1. IsFiniteSet(Hopes \cup {s})
        BY HopesType, FS_AddElement
      <4>2. QED
        BY <1>2, <4>1, FS_Subset, FS_CardinalityType
    <3>4. redemptions \in Nat /\ MaxRedemptions \in Nat
      BY NumbersAssumption DEF TInv, Shapes
    <3>5. Hopes = {} => Cardinality(Hopes) = 0
      BY FS_EmptySet
    <3>6. QED
      BY <1>1, <2>1, <2>3, <3>2, <3>3, <3>4, <3>5
  <2>4. QED
    BY <1>1, <2>2, <2>3 DEF UsesCovered
<1>5. QED
  BY <1>3, <1>4

LEMMA CouponUses ==
  ASSUME TInv, OneOrder, PaidFirst, UsesCovered, NEW d \in Deliveries, CountCoupon(d)
  PROVE  UsesCovered'
<1> DEFINE s == Session(d)
<1>1. /\ pc[d] = "coupon"
      /\ UNCHANGED <<cart, incidents>>
      /\ \/ /\ s \in Couponed
            /\ redemptions' = redemptions + 1
            /\ counted' = [counted EXCEPT ![s] = @ + 1]
         \/ s \notin Couponed /\ UNCHANGED <<redemptions, counted>>
  BY DEF CountCoupon, Again
<1>2. "overlapped" \notin incidents => counted[s] = 0
  BY <1>1, WriterAlone DEF StandsAt, Writing
<1>0. Hopes' \subseteq Hopes
  BY NoneJoins DEF Step
<1>3. CASE s \notin Couponed
  BY <1>0, <1>1, <1>3, UsesStill
<1>4. CASE s \in Couponed
  <2>1. s \in Sessions /\ At(s, ToCount)
    BY <1>1, DeliveryOf DEF At, ToCount
  <2>2. counted \in [Sessions -> Nat] /\ counted' \in [Sessions -> Nat]
    BY <1>1, <1>4, <2>1 DEF TInv, Numbers
  <2> HIDE DEF s
  <2>3. /\ counted'[s] = counted[s] + 1
        /\ \A t \in Couponed \ {s} : counted[t] = counted'[t]
    BY <1>1, <1>4, <2>1, <2>2, KindsAssumption
  <2>4. \A t \in Couponed : counted[t] \in Nat /\ counted'[t] \in Nat
    BY <2>2, KindsAssumption
  <2>5. /\ Total(counted', Couponed) = Total(counted, Couponed) + counted'[s] - counted[s]
        /\ Total(counted, Couponed) \in Nat
    BY <1>4, <2>3, <2>4, HopesType, TotalAtOne, TotalType
  <2>6. Total(counted', Couponed) = Total(counted, Couponed) + 1
    BY <1>4, <2>3, <2>4, <2>5
  <2>7. redemptions' = Total(counted', Couponed)
    BY <1>1, <1>4, <2>6 DEF UsesCovered
  <2>8. ASSUME {"overlapped", "stacked"} \cap incidents = {}
        PROVE  redemptions' + Cardinality(Hopes') <= MaxRedemptions
    <3>1. counted[s] = 0
      BY <1>2, <2>8
    <3>2. Hopes' \subseteq Hopes \ {s} /\ s \in Hopes
      BY <1>0, <1>4, <2>1, <2>3, <3>1 DEF Hopes
    <3>3. Cardinality(Hopes') \in Nat /\ Cardinality(Hopes') <= Cardinality(Hopes) - 1
      <4>1. IsFiniteSet(Hopes \ {s}) /\ Cardinality(Hopes \ {s}) = Cardinality(Hopes) - 1
        BY <3>2, HopesType, FS_RemoveElement
      <4>2. QED
        BY <3>2, <4>1, FS_Subset, FS_CardinalityType
    <3>4. redemptions + Cardinality(Hopes) <= MaxRedemptions /\ redemptions' = redemptions + 1
      BY <1>1, <1>4, <2>8 DEF UsesCovered
    <3>5. redemptions \in Nat /\ Cardinality(Hopes) \in Nat
      BY HopesType DEF TInv, Shapes
    <3>6. QED
      BY <3>3, <3>4, <3>5, NumbersAssumption
  <2>9. QED
    BY <1>1, <2>7, <2>8 DEF UsesCovered
<1>5. QED
  BY <1>3, <1>4

LEMMA NextUses ==
  ASSUME TInv, OneOrder, PaidFirst, UsesCovered, [Next]_vars PROVE UsesCovered'
<1>1. incidents \subseteq incidents'
  BY IncidentsStay
<1>2. ASSUME NEW s \in Sessions, Checkout(s) PROVE UsesCovered'
  BY <1>2, CheckoutUses
<1>3. ASSUME NEW d \in Deliveries, CountCoupon(d) PROVE UsesCovered'
  BY <1>3, CouponUses
<1>4. ASSUME NEW d \in Deliveries,
             \/ Deliver(d) \/ Mark(d) \/ FindOrder(d) \/ CreateOrder(d) \/ TakeStock(d)
             \/ CreditCreator(d) \/ Respond(d) \/ Fail(d) \/ Die(d)
      PROVE  UsesCovered'
  <2>1. Hopes' \subseteq Hopes
    BY <1>4, NoneJoins DEF Step
  <2>2. UNCHANGED <<counted, redemptions>>
    BY <1>4 DEF Deliver, Mark, FindOrder, CreateOrder, TakeStock, CreditCreator, Respond, Fail, Die,
                effects
  <2>3. QED
    BY <1>1, <2>1, <2>2, UsesStill
<1>5. CASE UNCHANGED vars \/ (\E s \in Sessions : Pay(s)) \/ (\E n \in 0 .. Stock : EditProduct(n))
  <2>1. Hopes' \subseteq Hopes
    BY <1>5, NoneJoins
  <2>2. UNCHANGED <<counted, redemptions>>
    BY <1>5 DEF vars, Pay, EditProduct, effects
  <2>3. QED
    BY <1>1, <2>1, <2>2, UsesStill
<1>6. QED
  BY <1>2, <1>3, <1>4, <1>5 DEF Next, Step

LEMMA InitLimits == ASSUME Init PROVE LInv
<1>1. /\ pc = [d \in Deliveries |-> "idle"]
      /\ orders = [s \in Sessions |-> 0] /\ taken = orders /\ counted = orders
      /\ inventory = Stock /\ supply = Stock /\ redemptions = 0
      /\ cart = [s \in Sessions |-> "none"]
  BY DEF Init
<1>2. OneOrder
  BY <1>1 DEF OneOrder, OneWriter, StandsAt, InOrder, Writing
<1>3. PaidFirst
  BY <1>1 DEF PaidFirst
<1>4. Waiting = {} /\ Hopes = {}
  <2>1. ASSUME NEW s \in Sessions, NEW P \in {ToTake, ToCount} PROVE ~Coming(s) /\ ~At(s, P)
    BY <1>1, <2>1 DEF Coming, At, ToTake, ToCount
  <2>2. QED
    BY <2>1, KindsAssumption DEF Waiting, Hopes
<1>5. ASSUME NEW n, NEW S, \A s \in S : n[s] = 0 PROVE Total(n, S) = 0
  <2>1. UNION {{s} \X (1 .. n[s]) : s \in S} = {}
    BY <1>5
  <2>2. QED
    BY <2>1, FS_EmptySet DEF Total
<1>6. UnitsOf(taken) = 0
  <2>1. \A s \in Sessions : [t \in Sessions |-> Qty[t] * taken[t]][s] = 0
    <3>1. ASSUME NEW s \in Sessions PROVE Qty[s] * taken[s] = 0
      <4>1. taken[s] = 0 /\ Qty[s] * 0 = 0
        BY <1>1, QtyType
      <4>2. QED
        BY <4>1
    <3>2. QED
      BY <3>1
  <2>2. QED
    BY <1>5, <2>1 DEF UnitsOf
<1>7. Total(counted, Couponed) = 0
  BY <1>1, <1>5, KindsAssumption
<1>8. Cardinality(Hopes) = 0 /\ Promised = 0
  BY <1>4, FS_EmptySet, TotalEmpty DEF Promised
<1>9. QED
  BY <1>1, <1>2, <1>3, <1>6, <1>7, <1>8, NumbersAssumption
     DEF LInv, UnitsCovered, UsesCovered

LEMMA LimitsInductive == Spec => []LInv
<1>1. LInv /\ TInv /\ [Next]_vars => LInv'
  BY NextOneOrder, NextPaidFirst, NextUnits, NextUses DEF LInv
<1>2. QED
  BY <1>1, InitLimits, TypesInductive, PTL DEF Spec

(* A unit that is ordered is taken already, still promised, or left by an  *)
(* order half way; a use of the coupon is counted already, still hoped for,*)
(* or left.                                                                *)
LEMMA UnitsWithinSupply ==
  ASSUME TInv, LInv, {"overlapped", "crowded"} \cap incidents = {}
  PROVE  Units <= supply + Total(Qty, Untaken) /\ inventory >= 0
<1> DEFINE sum(n) == [t \in Sessions |-> Qty[t] * n[t]]
<1>1. Promised <= inventory /\ inventory + UnitsOf(taken) = supply
  BY DEF LInv, UnitsCovered
<1>2. ASSUME NEW s \in Sessions
      PROVE  /\ orders[s] \in 0 .. 1 /\ taken[s] \in 0 .. orders[s]
             /\ orders[s] = 1 /\ taken[s] = 0 => s \in Waiting \cup Untaken
  <2>1. {orders[s], taken[s], counted[s]} \subseteq Nat
    BY DEF TInv, Numbers
  <2>2. InOrder(s) /\ (orders[s] + taken[s] + counted[s] > 0 => cart[s] = "paid")
    BY DEF LInv, OneOrder, PaidFirst
  <2>3. QED
    BY <2>1, <2>2 DEF InOrder, Waiting, Untaken
<1>3. \A s \in Sessions : Qty[s] * 0 = 0 /\ Qty[s] * 1 = Qty[s] /\ Qty[s] \in Nat
  BY QtyType
<1>4. \A s \in Sessions : /\ orders[s] = 0 => sum(orders)[s] = 0
                          /\ orders[s] = 1 => sum(orders)[s] = Qty[s]
                          /\ taken[s] = 0 => sum(taken)[s] = 0
                          /\ taken[s] = 1 => sum(taken)[s] = Qty[s]
  BY <1>3
<1>5. \A s \in Sessions : {sum(orders)[s], sum(taken)[s]} \subseteq Nat
  BY <1>2, <1>3, <1>4
<1> HIDE DEF sum
<1> DEFINE left == Items(Qty, Waiting) \cup Items(Qty, Untaken)
<1>6. Items(sum(orders), Sessions) \subseteq Items(sum(taken), Sessions) \cup left
  <2>1. ASSUME NEW s \in Sessions, NEW i \in 1 .. sum(orders)[s]
        PROVE  <<s, i>> \in Items(sum(taken), Sessions) \cup left
    <3>1. orders[s] = 1 /\ i \in 1 .. Qty[s]
      BY <1>2, <1>4, <1>5, <2>1
    <3>2. CASE taken[s] = 1
      BY <1>4, <3>1, <3>2 DEF Items
    <3>3. CASE taken[s] = 0
      BY <1>2, <3>1, <3>3 DEF Items
    <3>4. QED
      BY <1>2, <3>1, <3>2, <3>3
  <2>2. QED
    BY <2>1 DEF Items
<1>7. /\ IsFiniteSet(Items(sum(taken), Sessions)) /\ IsFiniteSet(Items(Qty, Waiting))
      /\ UnitsOf(taken) = Cardinality(Items(sum(taken), Sessions)) /\ UnitsOf(taken) \in Nat
      /\ Promised = Cardinality(Items(Qty, Waiting)) /\ Promised \in Nat
      /\ IsFiniteSet(Items(Qty, Untaken))
      /\ Total(Qty, Untaken) = Cardinality(Items(Qty, Untaken)) /\ Total(Qty, Untaken) \in Nat
      /\ Units = Cardinality(Items(sum(orders), Sessions)) /\ Units \in Nat
  <2>1. \A s \in Waiting : Qty[s] \in Nat
    BY WaitingType, QtyType
  <2>2. UnitsOf(taken) = Total(sum(taken), Sessions) /\ Units = Total(sum(orders), Sessions)
    BY DEF UnitsOf, Units, sum
  <2>3. Untaken \subseteq Sessions /\ IsFiniteSet(Untaken) /\ \A s \in Untaken : Qty[s] \in Nat
    BY QtyType, SessionsAssumption, FS_Subset DEF Untaken
  <2>4. QED
    BY <1>5, <2>1, <2>2, <2>3, WaitingType, ItemsFinite, TotalType, SessionsAssumption
<1>8. Units <= UnitsOf(taken) + Promised + Total(Qty, Untaken)
  <2>1. IsFiniteSet(left) /\ Cardinality(left) <= Promised + Total(Qty, Untaken)
    BY <1>7, FS_Union, UnionBound
  <2>2. Cardinality(left) \in Nat
    BY <2>1, FS_CardinalityType
  <2> HIDE DEF left
  <2>3. Units <= UnitsOf(taken) + Cardinality(left)
    BY <1>6, <1>7, <2>1, UnionBound
  <2>4. QED
    BY <1>7, <2>1, <2>2, <2>3
<1>9. inventory \in Int /\ supply \in Nat
  BY DEF TInv, Shapes
<1>10. QED
  BY <1>1, <1>7, <1>8, <1>9

LEMMA UsesWithinLimit ==
  ASSUME TInv, LInv, {"overlapped", "stacked"} \cap incidents = {}
  PROVE  Uses <= MaxRedemptions + Cardinality(Uncounted)
<1> DEFINE left == Hopes \cup Uncounted
<1>1. redemptions = Total(counted, Couponed) /\ redemptions + Cardinality(Hopes) <= MaxRedemptions
  BY DEF LInv, UsesCovered
<1>2. ASSUME NEW s \in Couponed
      PROVE  /\ orders[s] \in 0 .. 1 /\ counted[s] \in 0 .. 1
             /\ orders[s] = 1 /\ counted[s] = 0 => s \in left
  <2>1. s \in Sessions
    BY KindsAssumption
  <2>2. {orders[s], taken[s], counted[s]} \subseteq Nat
    BY <2>1 DEF TInv, Numbers
  <2>3. InOrder(s) /\ (orders[s] + taken[s] + counted[s] > 0 => cart[s] = "paid")
    BY <2>1 DEF LInv, OneOrder, PaidFirst
  <2>4. QED
    BY <2>1, <2>2, <2>3 DEF InOrder, Hopes, Uncounted
<1>0. /\ IsFiniteSet(left) /\ Cardinality(left) \in Nat
      /\ Cardinality(left) <= Cardinality(Hopes) + Cardinality(Uncounted)
      /\ Cardinality(Uncounted) \in Nat
  <2>1. IsFiniteSet(Uncounted)
    BY HopesType, FS_Subset DEF Uncounted
  <2>2. IsFiniteSet(left)
    BY <2>1, HopesType, FS_Union
  <2>3. QED
    BY <2>1, <2>2, HopesType, UnionBound, FS_CardinalityType
<1> HIDE DEF left
<1>3. Items(orders, Couponed) \subseteq Items(counted, Couponed) \cup (left \X {1})
  BY <1>2 DEF Items
<1>4. IsFiniteSet(left \X {1}) /\ Cardinality(left \X {1}) = Cardinality(left)
  <2>1. IsFiniteSet({1}) /\ Cardinality({1}) = 1
    BY FS_Singleton
  <2>2. /\ IsFiniteSet(left \X {1})
        /\ Cardinality(left \X {1}) = Cardinality(left) * Cardinality({1})
    BY <1>0, <2>1, FS_Product, Zenon
  <2>3. \A k \in Nat : k * 1 = k
    OBVIOUS
  <2>4. Cardinality(left) * 1 = Cardinality(left)
    BY <1>0, <2>3, Zenon
  <2>5. QED
    BY <2>1, <2>2, <2>4, Zenon
<1>5. /\ IsFiniteSet(Items(counted, Couponed))
      /\ redemptions = Cardinality(Items(counted, Couponed)) /\ redemptions \in Nat
      /\ Uses = Cardinality(Items(orders, Couponed)) /\ Uses \in Nat
  <2>1. \A s \in Couponed : orders[s] \in Nat /\ counted[s] \in Nat
    BY <1>2
  <2>2. QED
    BY <1>1, <2>1, HopesType, ItemsFinite, TotalType DEF Uses
<1>6. Uses <= redemptions + Cardinality(left)
  BY <1>3, <1>4, <1>5, UnionBound
<1>7. QED
  BY <1>0, <1>1, <1>5, <1>6, HopesType, NumbersAssumption

(* No more is ordered than there is, and no coupon is used more often than *)
(* it may be, though nothing is reserved at the checkout: for any sessions,*)
(* carts, repeated deliveries, edits and faults, beyond what orders left   *)
(* half way have not taken or not counted, and until checkouts or lines of *)
(* a cart count on the same units or redemption or two deliveries create   *)
(* one session's order at once (payments.js:232, 2015, 2071, 2538-2594).   *)
THEOREM LimitsAreKept == Spec => []LimitsHold
<1>1. TInv /\ LInv => LimitsHold
  BY UnitsWithinSupply, UsesWithinLimit DEF LimitsHold, NeverOversold, CouponWithinLimit
<1>2. QED
  BY <1>1, TypesInductive, LimitsInductive, PTL
=============================================================================

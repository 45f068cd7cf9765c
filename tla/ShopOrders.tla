----------------------------- MODULE ShopOrders -----------------------------
(***************************************************************************)
(* A shop order, from the cart to the creator: the checkout and the        *)
(* checkout.session.completed event of packages/api/src/routes/payments.js *)
(* that turns a paid session into an Order, takes the units from the       *)
(* product's inventory, credits the creator and counts the coupon.         *)
(* Nothing is reserved: a checkout only looks at the inventory and at the  *)
(* coupon, both change when the event of the payment is handled, and an    *)
(* inventory below zero means that the product is not limited.  One        *)
(* product of one creator, and one coupon; Stripe delivers an event again  *)
(* until it is answered with 200.                                          *)
(***************************************************************************)
EXTENDS Integers, FiniteSets

CONSTANTS
  Sessions,       \* Stripe checkout sessions
  Tries,          \* bound: how often the event of each session is delivered
  Qty,            \* the units each session is for
  Largest,        \* the units of its largest line: a cart may name a product twice
  Long,           \* sessions whose items are cut: more than 500 characters
  Couponed,       \* sessions that use the coupon
  Stock,          \* the inventory at first
  MaxRedemptions, \* of the coupon
  EditLimit,      \* bound: edits of the product by the creator
  FaultLimit      \* bound: what may go wrong

Deliveries == UNION {{s} \X (1 .. Tries[s]) : s \in Sessions}
Session(d) == d[1]

ASSUME SessionsAssumption ==
  IsFiniteSet(Sessions) /\ {Qty, Largest, Tries} \subseteq [Sessions -> Nat \ {0}]
ASSUME KindsAssumption    == Long \subseteq Sessions /\ Couponed \subseteq Sessions
ASSUME NumbersAssumption  ==
  {Stock, MaxRedemptions, EditLimit, FaultLimit} \subseteq Nat

VARIABLES
  inventory,   \* Product.inventory
  redemptions, \* CreatorCoupon.redemptionCount
  cart,        \* what became of each session: none, open, paid, expired
  orders,      \* Order documents of each session
  taken,       \* how often its units were taken from the inventory
  counted,     \* how often its coupon was counted
  credited,    \* how often its creator was credited
  marked,      \* sessions whose event has its dedupe key set
  acked,       \* sessions whose event Stripe knows was received
  pc,          \* the await each delivery is at
  supply,      \* history: units the creator has offered
  incidents,   \* history: what has gone wrong
  edits, faults

effects == <<orders, taken, counted, credited>>
events  == <<marked, acked>>
vars == <<inventory, redemptions, cart, effects, events, pc, supply, incidents, edits, faults>>

Handling  == {"mark", "find", "create", "stock", "credit", "coupon", "respond"}
Incidents == {"crowded", "stacked", "overlapped", "busy"}

TypeOK ==
  /\ inventory \in Int
  /\ redemptions \in Nat
  /\ cart \in [Sessions -> {"none", "open", "paid", "expired"}]
  /\ \A s \in Sessions :
       {orders[s], taken[s], counted[s]} \subseteq 0 .. Tries[s] /\ credited[s] \in 0 .. 2 * Tries[s]
  /\ marked \subseteq Sessions /\ acked \subseteq Sessions
  /\ pc \in [Deliveries -> {"idle", "done", "dead"} \cup Handling]
  /\ supply \in Nat
  /\ incidents \subseteq Incidents
  /\ edits \in 0 .. EditLimit /\ faults \in 0 .. FaultLimit

Init ==
  /\ inventory = Stock
  /\ redemptions = 0
  /\ cart = [s \in Sessions |-> "none"]
  /\ orders = [s \in Sessions |-> 0] /\ taken = orders
  /\ counted = orders /\ credited = orders
  /\ marked = {} /\ acked = {}
  /\ pc = [d \in Deliveries |-> "idle"]
  /\ supply = Stock
  /\ incidents = {}
  /\ edits = 0 /\ faults = 0

Goto(d, to)     == pc' = [pc EXCEPT ![d] = to]
Again(f, s)     == [f EXCEPT ![s] = @ + 1]
Fault           == faults < FaultLimit /\ faults' = faults + 1
Note(what, now) == IF now THEN {what} ELSE {}

(* The sum of n over S, as the size of a set.                              *)
Total(n, S) == Cardinality(UNION {{s} \X (1 .. n[s]) : s \in S})
UnitsOf(n)  == Total([s \in Sessions |-> Qty[s] * n[s]], Sessions)

(* A session is coming while an event of it may still create its order; an *)
(* order that was left half way takes and counts nothing any more.         *)
Coming(s) ==
  /\ s \notin Long /\ orders[s] = 0
  /\ \/ cart[s] = "open"
     \/ /\ cart[s] = "paid"
        /\ \E d \in Deliveries :
             /\ Session(d) = s
             /\ pc[d] \in {"mark", "find"} \/ (pc[d] = "idle" /\ s \notin acked)
At(s, awaits) == \E d \in Deliveries : Session(d) = s /\ pc[d] \in awaits

(* The sessions that will still take their units or count their coupon.    *)
ToTake   == {"create", "stock"}
ToCount  == {"create", "stock", "credit", "coupon"}
Waiting  == {s \in Sessions : taken[s] = 0 /\ (Coming(s) \/ At(s, ToTake))}
Promised == Total(Qty, Waiting)
Hopes    == {s \in Couponed : counted[s] = 0 /\ (Coming(s) \/ At(s, ToCount))}

-----------------------------------------------------------------------------
(* POST /payments/shop/checkout and buy-now: each line of the cart is      *)
(* checked against what is left, on its own, then the session is created.  *)
(* Others may count on the same units or the same redemption, and so may   *)
(* its own lines.                                                          *)
Checkout(s) ==
  /\ cart[s] = "none"
  /\ inventory >= 0 => inventory >= Largest[s]
  /\ s \in Couponed => redemptions < MaxRedemptions
  /\ cart' = [cart EXCEPT ![s] = "open"]
  /\ UNCHANGED <<inventory, redemptions, effects, events, pc, supply, edits, faults>>
  /\ incidents' = incidents
       \cup Note("crowded", /\ Promised > 0 \/ Largest[s] < Qty[s]
                           /\ inventory \in 0 .. Promised' - 1)
       \cup Note("stacked", Hopes # {} /\ redemptions + Cardinality(Hopes') > MaxRedemptions)

(* The buyer pays, or the session expires.                                 *)
Pay(s) ==
  /\ cart[s] = "open"
  /\ \E to \in {"paid", "expired"} : cart' = [cart EXCEPT ![s] = to]
  /\ UNCHANGED <<inventory, redemptions, effects, events, pc, supply, incidents, edits, faults>>

(* PUT /shop/products/:id: the creator sets the inventory to the units     *)
(* that there are, whatever is on its way.                                 *)
EditProduct(n) ==
  /\ edits < EditLimit /\ edits' = edits + 1
  /\ inventory' = n
  /\ supply' = n + UnitsOf(taken)
  /\ incidents' = incidents \cup Note("crowded", n < Promised)
  /\ UNCHANGED <<redemptions, cart, effects, events, pc, faults>>

Deliver(d) ==
  /\ pc[d] = "idle"
  /\ cart[Session(d)] = "paid" /\ Session(d) \notin acked
  /\ Goto(d, "mark")
  /\ UNCHANGED <<inventory, redemptions, cart, effects, events, supply, incidents, edits, faults>>

(* markWebhookFirstSeen; without Redis every delivery is a first one.      *)
Mark(d) ==
  /\ pc[d] = "mark"
  /\ \/ /\ Session(d) \in marked
        /\ Goto(d, "respond")
        /\ UNCHANGED <<marked, faults>>
     \/ /\ Session(d) \notin marked
        /\ marked' = marked \cup {Session(d)}
        /\ Goto(d, "find")
        /\ UNCHANGED faults
     \/ Fault /\ Goto(d, "find") /\ UNCHANGED marked
  /\ UNCHANGED <<inventory, redemptions, cart, effects, acked, supply, incidents, edits>>

(* Mutant: the event is its own protection, the order is not looked for.   *)
FindNothing(d) ==
  /\ pc[d] = "find"
  /\ Goto(d, IF Session(d) \in Long THEN "respond" ELSE "create")
  /\ incidents' = incidents \cup Note("overlapped",
       \E e \in Deliveries \ {d} : Session(e) = Session(d) /\ pc[e] = "create")
  /\ UNCHANGED <<inventory, redemptions, cart, effects, events, supply, edits, faults>>

(* Mutant: what is left is checked again, after the payment.               *)
FindOrderInStock(d) ==
  /\ pc[d] = "find"
  /\ IF orders[Session(d)] > 0 \/ Session(d) \in Long \/ inventory \in 0 .. Qty[Session(d)] - 1
     THEN Goto(d, "respond") /\ UNCHANGED incidents
     ELSE /\ Goto(d, "create")
          /\ incidents' = incidents \cup Note("overlapped",
               \E e \in Deliveries \ {d} : Session(e) = Session(d) /\ pc[e] = "create")
  /\ UNCHANGED <<inventory, redemptions, cart, effects, events, supply, edits, faults>>

(* An event whose session has its order is done, and so is one whose items *)
(* were cut to fit the metadata, for what is left is no JSON.              *)
FindOrder(d) ==
  /\ pc[d] = "find"
  /\ IF orders[Session(d)] > 0 \/ Session(d) \in Long
     THEN Goto(d, "respond") /\ UNCHANGED incidents
     ELSE /\ Goto(d, "create")
          /\ incidents' = incidents \cup Note("overlapped",
               \E e \in Deliveries \ {d} : Session(e) = Session(d) /\ pc[e] = "create")
  /\ UNCHANGED <<inventory, redemptions, cart, effects, events, supply, edits, faults>>

(* stripeSessionId has no unique index.                                    *)
CreateOrder(d) ==
  /\ pc[d] = "create"
  /\ orders' = Again(orders, Session(d))
  /\ Goto(d, "stock")
  /\ UNCHANGED <<inventory, redemptions, cart, taken, counted, credited, events, supply,
                 incidents, edits, faults>>

(* updateOne for each line, of a product that is still limited: of several *)
(* lines, those after the one that goes below zero take nothing.  The      *)
(* awaits of the lines are one step.                                       *)
TakeStock(d) ==
  LET s == Session(d) IN
  /\ pc[d] = "stock"
  /\ IF inventory < 0
     THEN UNCHANGED inventory
     ELSE \E n \in 1 .. Qty[s] :
            /\ n = Qty[s] \/ (Largest[s] < Qty[s] /\ n > inventory)
            /\ inventory' = inventory - n
  /\ taken' = Again(taken, s)
  /\ Goto(d, "credit")
  /\ UNCHANGED <<redemptions, cart, orders, counted, credited, events, supply, incidents,
                 edits, faults>>

(* Mutant: a credit that has thrown is made again.                         *)
CreditAgain(d) ==
  /\ pc[d] = "credit"
  /\ \/ /\ credited' = Again(credited, Session(d))
        /\ Goto(d, "coupon")
        /\ UNCHANGED <<incidents, faults>>
     \/ /\ Fault
        /\ credited' = [credited EXCEPT ![Session(d)] = @ + 2]
        /\ UNCHANGED <<incidents, pc>>
  /\ UNCHANGED <<inventory, redemptions, cart, orders, taken, counted, events, supply, edits>>

(* economy.credit: it succeeds; the creator's wallet is busy and it throws *)
(* with nothing done; or, in trouble, it has added the share up to twice,  *)
(* and has thrown or not.                                                  *)
CreditCreator(d) ==
  /\ pc[d] = "credit"
  /\ \/ /\ credited' = Again(credited, Session(d))
        /\ Goto(d, "coupon")
        /\ UNCHANGED <<incidents, faults>>
     \/ /\ Goto(d, "respond")
        /\ incidents' = incidents \cup {"busy"}
        /\ UNCHANGED <<credited, faults>>
     \/ /\ Fault
        /\ \E n \in 1 .. 2 : credited' = [credited EXCEPT ![Session(d)] = @ + n]
        /\ Goto(d, "coupon") \/ Goto(d, "respond")
        /\ UNCHANGED incidents
  /\ UNCHANGED <<inventory, redemptions, cart, orders, taken, counted, events, supply, edits>>

(* The coupon is counted last.                                             *)
CountCoupon(d) ==
  /\ pc[d] = "coupon"
  /\ IF Session(d) \in Couponed
     THEN redemptions' = redemptions + 1 /\ counted' = Again(counted, Session(d))
     ELSE UNCHANGED <<redemptions, counted>>
  /\ Goto(d, "respond")
  /\ UNCHANGED <<inventory, cart, orders, taken, credited, events, supply, incidents, edits, faults>>

(* An error anywhere is logged, what was done stays, and the answer is 200.*)
Fail(d) ==
  /\ pc[d] \in {"find", "create", "stock", "credit", "coupon"}
  /\ Fault
  /\ Goto(d, "respond")
  /\ UNCHANGED <<inventory, redemptions, cart, effects, events, supply, incidents, edits>>

(* 200, which Stripe may not get.                                          *)
Respond(d) ==
  /\ pc[d] = "respond"
  /\ \/ acked' = acked \cup {Session(d)} /\ UNCHANGED faults
     \/ Fault /\ UNCHANGED acked
  /\ Goto(d, "done")
  /\ UNCHANGED <<inventory, redemptions, cart, effects, marked, supply, incidents, edits>>

Die(d) ==
  /\ pc[d] \in Handling
  /\ Fault
  /\ Goto(d, "dead")
  /\ UNCHANGED <<inventory, redemptions, cart, effects, events, supply, incidents, edits>>

Step(d) ==
  \/ Mark(d) \/ FindOrder(d) \/ CreateOrder(d) \/ TakeStock(d) \/ CreditCreator(d)
  \/ CountCoupon(d) \/ Respond(d)

Next ==
  \/ \E s \in Sessions : Checkout(s) \/ Pay(s)
  \/ \E n \in 0 .. Stock : EditProduct(n)
  \/ \E d \in Deliveries : Deliver(d) \/ Step(d) \/ Fail(d) \/ Die(d)

(* Stripe delivers, Node resumes handlers; nobody has to buy.              *)
Fairness == \A d \in Deliveries : WF_vars(Deliver(d)) /\ WF_vars(Step(d))

Spec == Init /\ [][Next]_vars /\ Fairness

-----------------------------------------------------------------------------
Units == UnitsOf(orders)
Uses  == Total(orders, Couponed)

(* Orders that were left half way: with the units not taken, or with the   *)
(* coupon not counted, and nobody at it.                                   *)
Untaken   == {s \in Sessions : orders[s] > 0 /\ taken[s] = 0 /\ ~At(s, ToTake)}
Uncounted == {s \in Couponed : orders[s] > 0 /\ counted[s] = 0 /\ ~At(s, ToCount)}

NeverOversold ==
  "crowded" \notin incidents => Units <= supply + Total(Qty, Untaken) /\ inventory >= 0
CouponWithinLimit ==
  "stacked" \notin incidents => Uses <= MaxRedemptions + Cardinality(Uncounted)

(* Nothing is reserved, and still no more units are ordered than there     *)
(* are, a limited product stays limited (payments.js:232) and a coupon is  *)
(* redeemed no more often than it may be (payments.js:2071).  What breaks  *)
(* that: checkouts, or lines of one cart, that count at the same time on   *)
(* the same units or the same redemption; two deliveries that create an    *)
(* order of one session at once.                                           *)
(* And an order left half way, by a failure or by a creator's wallet that  *)
(* was busy (payments.js:255), lets as many units be sold once more as it  *)
(* did not take, and its coupon be used once more if it was not counted:   *)
(* no more than that, and a session that became no order excuses nothing.  *)
LimitsHold == "overlapped" \notin incidents => NeverOversold /\ CouponWithinLimit

(* A payment leads to an order that has taken its units and has paid the   *)
(* creator (payments.js:2538-2594), unless its cart was too long for the   *)
(* metadata, something failed, or the creator's wallet was busy.           *)
PaidIsFulfilled ==
  \A s \in Sessions \ Long :
    cart[s] = "paid" ~> \/ orders[s] > 0 /\ taken[s] > 0 /\ credited[s] > 0
                        \/ faults > 0 \/ "busy" \in incidents
=============================================================================

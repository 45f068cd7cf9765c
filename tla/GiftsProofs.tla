----------------------------- MODULE GiftsProofs ------------------------------
(***************************************************************************)
(* For any number of gifts and reversals, amounts and faults.              *)
(***************************************************************************)
EXTENDS Gifts, FiniteSetTheorems, TLAPS

(* A call of either kind is at a point of its kind, and a reversal is for  *)
(* a gift on the ledger.                                                   *)
CallPoints     == {"idle", "share", "refund", "fee", "sent", "unsent", "dead"}
ReversalPoints == {"idle", "restore", "reclaim", "refee", "undone", "refused", "halfway", "dead"}

Shape ==
  /\ \A p \in Calls : pc[p] \in CallPoints
  /\ \A r \in Reversals : pc[r] \in ReversalPoints /\ (pc[r] # "idle" => gift[r] \in given)

(* The type invariant by parts, each of which most steps leave alone.      *)
MoneyType == balance \in [Users -> Nat] /\ spent \in Nat
CallType  == /\ given \subseteq Calls /\ reversed \subseteq given
             /\ pc \in [Procs -> {"idle"} \cup Moving \cup Ends]
             /\ gift \in [Reversals -> Calls \cup {None}]
TaskType  == /\ earned \in Nat \cup {None}
             /\ task \in [Tasks -> {"none", "find", "look", "create", "save", "over"}]
             /\ seen \in [Tasks -> Nat]
HistType  == incidents \subseteq Incidents /\ faults \in 0 .. FaultLimit
AllTypes  == MoneyType /\ CallType /\ TaskType /\ HistType
Typed     == TypeOK /\ Shape

LEMMA Parts == (TypeOK <=> AllTypes) /\ (TypeOK' <=> AllTypes')
  BY DEF AllTypes, TypeOK, MoneyType, CallType, TaskType, HistType

LEMMA Amounts == /\ Share \in Nat /\ Fee \in Nat /\ Gross \in Nat /\ Share > 0 /\ Fee > 0
                 /\ Start \in [Users -> Nat] /\ FaultLimit \in Nat
  BY NumbersAssumption DEF Gross

LEMMA Kinds == /\ Calls \subseteq Procs /\ Reversals \subseteq Procs
               /\ \A p \in Procs : p \in Calls <=> p \notin Reversals
               /\ \A p \in Procs : <<p, 1>> \in Tasks /\ <<p, 2>> \in Tasks
               /\ \A t \in Tasks : t[1] \in Procs /\ t[2] \in {1, 2} /\ t = <<t[1], t[2]>>
  BY CallsAssumption DEF Procs, Tasks

LEMMA InitTyped == Init => Typed
<1> SUFFICES ASSUME Init PROVE Typed
  OBVIOUS
<1>1. TypeOK
  BY Amounts DEF Init, TypeOK, Users
<1>2. Shape
  BY Kinds DEF Init, Shape, CallPoints, ReversalPoints
<1>3. QED
  BY <1>1, <1>2 DEF Typed

(* One process moves, to a point of its kind.                              *)
LEMMA MoveTyped ==
  ASSUME Typed, NEW p \in Procs, NEW to, Goto(p, to), given \subseteq given', given' \subseteq Calls,
         \/ p \in Calls /\ to \in CallPoints /\ UNCHANGED gift
         \/ p \in Reversals /\ to \in ReversalPoints /\ \E g \in given' : gift' = [gift EXCEPT ![p] = g],
         reversed' \subseteq given'
  PROVE  CallType' /\ Shape'
<1>1. CallType
  BY Parts DEF Typed, AllTypes
<1>2. to \in {"idle"} \cup Moving \cup Ends
  BY DEF CallPoints, ReversalPoints, Moving, Ends
<1>3. pc' \in [Procs -> {"idle"} \cup Moving \cup Ends] /\ pc'[p] = to
      /\ \A q \in Procs \ {p} : pc'[q] = pc[q]
  BY <1>1, <1>2 DEF CallType, Goto
<1>4. gift' \in [Reversals -> Calls \cup {None}]
      /\ (p \in Reversals => gift'[p] \in given') /\ \A r \in Reversals \ {p} : gift'[r] = gift[r]
  BY <1>1, Kinds DEF CallType
<1>5. CallType'
  BY <1>3, <1>4 DEF CallType
<1>6. Shape'
  BY <1>3, <1>4, Kinds DEF Shape, Typed
<1>7. QED
  BY <1>5, <1>6

(* A fault, or none, and what it is noted as.                              *)
LEMMA HistTyped ==
  ASSUME Typed, Fault \/ NoFault, \E i \in SUBSET Incidents : incidents' = incidents \cup i
  PROVE  HistType'
  BY Amounts, Parts DEF Typed, AllTypes, HistType, Fault, NoFault

LEMMA StartTyped == ASSUME Typed, NEW p \in Procs, NEW n \in Nat, Start1(p, n),
                           UNCHANGED <<earned, seen>>
                    PROVE  TaskType'
  BY Parts DEF Typed, AllTypes, TaskType, Start1

LEMMA SameTasks == ASSUME Typed, UNCHANGED <<earned, seen, task>> PROVE TaskType'
  BY Parts DEF Typed, AllTypes, TaskType

LEMMA AddTyped == ASSUME Typed, NEW u \in Users, NEW n \in Int, balance[u] + n >= 0, Add(u, n)
                  PROVE  balance' \in [Users -> Nat]
  BY Parts DEF Typed, AllTypes, MoneyType, Add

LEMMA TakeTyped == ASSUME Typed, NEW u \in Users, NEW n \in Nat, Take(u, n)
                   PROVE  balance' \in [Users -> Nat]
  BY Parts DEF Typed, AllTypes, MoneyType, Take, CanTake

LEMMA DoubtfulTyped ==
  ASSUME Typed, NEW p \in Procs, NEW u \in Users, NEW n \in Int, NEW good, NEW bad,
         Doubtful(p, u, n, good, bad)
  PROVE  MoneyType' /\ TaskType' /\ HistType' /\ UNCHANGED gift /\ (Goto(p, good) \/ Goto(p, bad))
<1>1. PICK k \in 1 .. 2 :
        /\ balance[u] + k * n >= 0 /\ Add(u, k * n)
        /\ Start1(p, k) \/ UNCHANGED task
  BY DEF Doubtful
<1>2. balance' \in [Users -> Nat] /\ UNCHANGED spent
  BY <1>1, AddTyped DEF Doubtful
<1>3. MoneyType'
  BY <1>2, Parts DEF Typed, AllTypes, MoneyType
<1>4. TaskType'
  BY <1>1, StartTyped, SameTasks DEF Doubtful
<1>5. Fault /\ incidents' = incidents \cup {"doubtful"} /\ {"doubtful"} \in SUBSET Incidents
  BY DEF Doubtful, Goes, Incidents
<1>6. HistType'
  BY <1>5, HistTyped
<1>7. QED
  BY <1>3, <1>4, <1>6 DEF Doubtful, Goes

(* One wallet movement of a call, however it ends.                         *)
LEMMA MovementTyped ==
  ASSUME Typed, NEW p \in Procs, UNCHANGED spent, Fault \/ NoFault,
         UNCHANGED balance \/ balance' \in [Users -> Nat],
         UNCHANGED task \/ Start1(p, 1), UNCHANGED <<earned, seen>>,
         \E i \in SUBSET Incidents : incidents' = incidents \cup i
  PROVE  MoneyType' /\ TaskType' /\ HistType'
<1>1. MoneyType'
  BY Parts DEF Typed, AllTypes, MoneyType
<1>2. TaskType'
  BY StartTyped, SameTasks
<1>3. QED
  BY <1>1, <1>2, HistTyped

LEMMA Noted == /\ \E i \in SUBSET Incidents : incidents = incidents \cup i
               /\ \A x \in Incidents : {x} \in SUBSET Incidents
               /\ \A x \in Incidents, b \in BOOLEAN : When(x, b) \in SUBSET Incidents
<1>1. {} \in SUBSET Incidents /\ incidents = incidents \cup {}
  OBVIOUS
<1>2. \A x \in Incidents : {x} \in SUBSET Incidents
  OBVIOUS
<1>3. \A x \in Incidents, b \in BOOLEAN : When(x, b) \in SUBSET Incidents
  BY <1>1, <1>2 DEF When
<1>4. QED
  BY <1>1, <1>2, <1>3

LEMMA SendTyped == ASSUME Typed, NEW p \in Procs, Send(p) PROVE Typed'
<1>0. Gross \in Nat /\ -Gross \in Int /\ "sender" \in Users /\ p \in Calls
  BY Amounts DEF Users, Send
<1>1. MoneyType' /\ TaskType' /\ HistType' /\ UNCHANGED gift
      /\ \E to \in {"share", "unsent"} : Goto(p, to)
  <2>1. CASE Doubtful(p, "sender", -Gross, "share", "unsent")
    BY <1>0, <2>1, DoubtfulTyped
  <2>2. CASE ~Doubtful(p, "sender", -Gross, "share", "unsent")
    <3>1. (Take("sender", Gross) \/ UNCHANGED balance) /\ UNCHANGED <<gift, earned, task, seen, spent, incidents>>
          /\ (Fault \/ NoFault) /\ \E to \in {"share", "unsent"} : Goto(p, to)
      BY <2>2 DEF Send, Refused
    <3>2. UNCHANGED balance \/ balance' \in [Users -> Nat]
      BY <1>0, <3>1, TakeTyped
    <3>3. QED
      BY <3>1, <3>2, MovementTyped, Noted
  <2>3. QED
    BY <2>1, <2>2
<1>2. given \subseteq given' /\ given' \subseteq Calls /\ reversed' \subseteq given'
  BY <1>0, Parts DEF Send, Typed, AllTypes, CallType
<1>3. CallType' /\ Shape'
  BY <1>0, <1>1, <1>2, MoveTyped DEF CallPoints
<1>4. QED
  BY <1>1, <1>3, Parts DEF Typed, AllTypes

LEMMA CreditReceiverTyped == ASSUME Typed, NEW p \in Procs, CreditReceiver(p) PROVE Typed'
<1>0. Share \in Nat /\ "receiver" \in Users /\ p \in Calls
  BY Amounts, Kinds DEF Users, CreditReceiver, Typed, Shape, ReversalPoints
<1>1. MoneyType' /\ TaskType' /\ HistType' /\ UNCHANGED gift
      /\ \E to \in {"fee", "refund"} : Goto(p, to)
  <2>1. CASE Doubtful(p, "receiver", Share, "fee", "refund")
    BY <1>0, <2>1, DoubtfulTyped
  <2>2. CASE ~Doubtful(p, "receiver", Share, "fee", "refund")
    <3>1. (Add("receiver", Share) \/ UNCHANGED balance) /\ UNCHANGED <<gift, earned, seen, spent, incidents>>
          /\ (UNCHANGED task \/ Start1(p, 1))
          /\ (Fault \/ NoFault) /\ \E to \in {"fee", "refund"} : Goto(p, to)
      BY <2>2 DEF CreditReceiver
    <3>2. balance["receiver"] + Share >= 0
      BY <1>0, Parts DEF Typed, AllTypes, MoneyType
    <3>3. UNCHANGED balance \/ balance' \in [Users -> Nat]
      BY <1>0, <3>1, <3>2, AddTyped
    <3>4. QED
      BY <3>1, <3>3, MovementTyped, Noted
  <2>3. QED
    BY <2>1, <2>2
<1>2. given' \subseteq Calls /\ reversed' \subseteq given' /\ UNCHANGED given
  BY Parts DEF CreditReceiver, Typed, AllTypes, CallType
<1>3. CallType' /\ Shape'
  BY <1>0, <1>1, <1>2, MoveTyped DEF CallPoints
<1>4. QED
  BY <1>1, <1>3, Parts DEF Typed, AllTypes

LEMMA RefundTyped == ASSUME Typed, NEW p \in Procs, Refund(p) PROVE Typed'
<1>0. Gross \in Nat /\ "sender" \in Users /\ p \in Calls
  BY Amounts, Kinds DEF Users, Refund, Typed, Shape, ReversalPoints
<1>1. MoneyType' /\ TaskType' /\ HistType' /\ UNCHANGED gift /\ Goto(p, "unsent")
  <2>1. CASE Doubtful(p, "sender", Gross, "unsent", "unsent")
    BY <1>0, <2>1, DoubtfulTyped
  <2>2. CASE ~Doubtful(p, "sender", Gross, "unsent", "unsent")
    <3>1. /\ Add("sender", Gross) \/ UNCHANGED balance
          /\ UNCHANGED <<gift, earned, task, seen, spent>>
          /\ UNCHANGED incidents \/ incidents' = incidents \cup {"unrefunded"}
          /\ (Fault \/ NoFault) /\ Goto(p, "unsent")
      BY <2>2 DEF Refund, Goes
    <3>2. balance["sender"] + Gross >= 0
      BY <1>0, Parts DEF Typed, AllTypes, MoneyType
    <3>3. UNCHANGED balance \/ balance' \in [Users -> Nat]
      BY <1>0, <3>1, <3>2, AddTyped
    <3>4. \E i \in SUBSET Incidents : incidents' = incidents \cup i
      BY <3>1, Noted DEF Incidents
    <3>5. QED
      BY <3>1, <3>3, <3>4, MovementTyped
  <2>3. QED
    BY <2>1, <2>2
<1>2. given' \subseteq Calls /\ reversed' \subseteq given' /\ UNCHANGED given
  BY Parts DEF Refund, Typed, AllTypes, CallType
<1>3. CallType' /\ Shape'
  BY <1>0, <1>1, <1>2, MoveTyped DEF CallPoints
<1>4. QED
  BY <1>1, <1>3, Parts DEF Typed, AllTypes

LEMMA CreditPlatformTyped == ASSUME Typed, NEW p \in Procs, CreditPlatform(p) PROVE Typed'
<1>0. Fee \in Nat /\ "platform" \in Users /\ p \in Calls
  BY Amounts, Kinds DEF Users, CreditPlatform, Typed, Shape, ReversalPoints
<1>1. MoneyType' /\ TaskType' /\ HistType' /\ UNCHANGED gift /\ Goto(p, "sent")
  <2>1. CASE Doubtful(p, "platform", Fee, "sent", "sent")
    BY <1>0, <2>1, DoubtfulTyped
  <2>2. CASE ~Doubtful(p, "platform", Fee, "sent", "sent")
    <3>1. /\ Add("platform", Fee) \/ UNCHANGED balance
          /\ UNCHANGED <<gift, earned, task, seen, spent>>
          /\ UNCHANGED incidents \/ incidents' = incidents \cup {"unshared"}
          /\ (Fault \/ NoFault) /\ Goto(p, "sent")
      BY <2>2 DEF CreditPlatform, Goes
    <3>2. balance["platform"] + Fee >= 0
      BY <1>0, Parts DEF Typed, AllTypes, MoneyType
    <3>3. UNCHANGED balance \/ balance' \in [Users -> Nat]
      BY <1>0, <3>1, <3>2, AddTyped
    <3>4. \E i \in SUBSET Incidents : incidents' = incidents \cup i
      BY <3>1, Noted DEF Incidents
    <3>5. QED
      BY <3>1, <3>3, <3>4, MovementTyped
  <2>3. QED
    BY <2>1, <2>2
<1>2. given' \subseteq Calls /\ reversed' \subseteq given' /\ UNCHANGED given
  BY Parts DEF CreditPlatform, Typed, AllTypes, CallType
<1>3. CallType' /\ Shape'
  BY <1>0, <1>1, <1>2, MoveTyped DEF CallPoints
<1>4. QED
  BY <1>1, <1>3, Parts DEF Typed, AllTypes

(* A reversal that is under way goes on with its gift.                     *)
LEMMA ReversalMoves ==
  ASSUME Typed, NEW p \in Procs, pc[p] \in {"restore", "reclaim", "refee"}, NEW to \in ReversalPoints,
         Goto(p, to), UNCHANGED <<given, gift>>, reversed' \in {reversed, reversed \cup {gift[p]}}
  PROVE  CallType' /\ Shape'
<1>1. p \in Reversals /\ gift[p] \in given /\ CallType
  BY Kinds, Parts DEF Typed, Shape, CallPoints, AllTypes
<1>2. gift' = [gift EXCEPT ![p] = gift[p]]
  BY <1>1 DEF CallType
<1>3. given' \subseteq Calls /\ reversed' \subseteq given' /\ given \subseteq given'
  BY <1>1 DEF CallType
<1>4. QED
  BY <1>1, <1>2, <1>3, MoveTyped

LEMMA FindReversalTyped ==
  ASSUME Typed, NEW p \in Procs, NEW g \in Calls, FindReversal(p, g) PROVE Typed'
<1>1. p \in Reversals /\ g \in given /\ CallType
  BY Parts DEF FindReversal, Typed, AllTypes
<1>2. \E to \in {"refused", "restore"} : Goto(p, to)
  BY DEF FindReversal, Goes
<1>3. CallType' /\ Shape'
  BY <1>1, <1>2, MoveTyped DEF FindReversal, CallType, ReversalPoints
<1>4. \E i \in SUBSET Incidents : incidents' = incidents \cup i
  <2>1. \A a, b \in BOOLEAN : When("unkept", a) \cup When("overlapped", b) \in SUBSET Incidents
    BY Noted DEF Incidents
  <2>2. incidents' = incidents \/
        \E a, b \in BOOLEAN : incidents' = incidents \cup (When("unkept", a) \cup When("overlapped", b))
    <3>1. (pc[g] # "sent") \in BOOLEAN
          /\ (\E r \in Reversals \ {p} : gift[r] = g /\ pc[r] = "restore") \in BOOLEAN
      OBVIOUS
    <3>2. QED
      BY <3>1, Zenon DEF FindReversal, Goes
  <2>3. QED
    BY <2>1, <2>2, Noted
<1>5. MoneyType' /\ TaskType' /\ HistType'
  BY <1>4, MovementTyped DEF FindReversal, NoFault
<1>6. QED
  BY <1>3, <1>5, Parts DEF Typed, AllTypes

LEMMA RestoreSenderTyped == ASSUME Typed, NEW p \in Procs, RestoreSender(p) PROVE Typed'
<1>0. Gross \in Nat /\ "sender" \in Users
  BY Amounts DEF Users
<1>1. MoneyType' /\ TaskType' /\ HistType' /\ UNCHANGED gift
      /\ \E to \in {"reclaim", "refused", "halfway"} : Goto(p, to)
  <2>1. CASE Doubtful(p, "sender", Gross, "reclaim", "halfway")
    BY <1>0, <2>1, DoubtfulTyped
  <2>2. CASE ~Doubtful(p, "sender", Gross, "reclaim", "halfway")
    <3>1. /\ Add("sender", Gross) \/ UNCHANGED balance
          /\ UNCHANGED <<gift, earned, task, seen, spent, incidents>>
          /\ (Fault \/ NoFault) /\ \E to \in {"reclaim", "refused"} : Goto(p, to)
      BY <2>2 DEF RestoreSender
    <3>2. balance["sender"] + Gross >= 0
      BY <1>0, Parts DEF Typed, AllTypes, MoneyType
    <3>3. UNCHANGED balance \/ balance' \in [Users -> Nat]
      BY <1>0, <3>1, <3>2, AddTyped
    <3>4. QED
      BY <3>1, <3>3, MovementTyped, Noted
  <2>3. QED
    BY <2>1, <2>2
<1>2. CallType' /\ Shape'
  BY <1>1, ReversalMoves DEF RestoreSender, ReversalPoints
<1>3. QED
  BY <1>1, <1>2, Parts DEF Typed, AllTypes

LEMMA ReclaimShareTyped == ASSUME Typed, NEW p \in Procs, ReclaimShare(p) PROVE Typed'
<1>0. Share \in Nat /\ -Share \in Int /\ "receiver" \in Users
  BY Amounts DEF Users
<1>1. MoneyType' /\ TaskType' /\ HistType' /\ UNCHANGED gift
      /\ \E to \in {"refee", "halfway"} : Goto(p, to)
  <2>1. CASE Doubtful(p, "receiver", -Share, "refee", "halfway")
    BY <1>0, <2>1, DoubtfulTyped
  <2>2. CASE ~Doubtful(p, "receiver", -Share, "refee", "halfway")
    <3>1. /\ Take("receiver", Share) \/ UNCHANGED balance
          /\ UNCHANGED <<gift, earned, task, seen, spent>>
          /\ UNCHANGED incidents \/ incidents' = incidents \cup {"halfway"}
          /\ (Fault \/ NoFault) /\ \E to \in {"refee", "halfway"} : Goto(p, to)
      BY <2>2 DEF ReclaimShare, Goes, Refused
    <3>2. UNCHANGED balance \/ balance' \in [Users -> Nat]
      BY <1>0, <3>1, TakeTyped
    <3>3. \E i \in SUBSET Incidents : incidents' = incidents \cup i
      BY <3>1, Noted DEF Incidents
    <3>4. QED
      BY <3>1, <3>2, <3>3, MovementTyped
  <2>3. QED
    BY <2>1, <2>2
<1>2. CallType' /\ Shape'
  BY <1>1, ReversalMoves DEF ReclaimShare, ReversalPoints
<1>3. QED
  BY <1>1, <1>2, Parts DEF Typed, AllTypes

LEMMA ReclaimFeeTyped == ASSUME Typed, NEW p \in Procs, ReclaimFee(p) PROVE Typed'
<1>0. Fee \in Nat /\ "platform" \in Users /\ \A k \in 1 .. 2 : k * Fee \in Nat
  BY Amounts DEF Users
<1>1. UNCHANGED balance \/ balance' \in [Users -> Nat]
  BY <1>0, TakeTyped DEF ReclaimFee
<1>2. \E i \in SUBSET Incidents : incidents' = incidents \cup i
  BY Noted DEF ReclaimFee, Incidents
<1>3. MoneyType' /\ TaskType' /\ HistType'
  BY <1>1, <1>2, MovementTyped DEF ReclaimFee, Refused
<1>4. CallType' /\ Shape'
  BY ReversalMoves DEF ReclaimFee, ReversalPoints
<1>5. QED
  BY <1>3, <1>4, Parts DEF Typed, AllTypes

LEMMA DieTyped == ASSUME Typed, NEW p \in Procs, Die(p) PROVE Typed'
<1>1. MoneyType' /\ HistType'
  <2>1. MoneyType'
    BY Parts DEF Typed, AllTypes, MoneyType, Die
  <2>2. QED
    BY <2>1, HistTyped, Noted DEF Die, Goes, Incidents
<1>2. TaskType'
  BY Parts DEF Typed, AllTypes, TaskType, Die
<1>3. CallType' /\ Shape'
  <2>1. CallType
    BY Parts DEF Typed, AllTypes
  <2>2. CASE p \in Calls
    BY <2>1, <2>2, MoveTyped DEF Die, Goes, CallPoints, CallType
  <2>3. CASE p \in Reversals
    <3>1. pc[p] \in {"restore", "reclaim", "refee"}
      BY <2>3 DEF Typed, Shape, ReversalPoints, Die, Moving
    <3>2. QED
      BY <3>1, ReversalMoves DEF Die, Goes, ReversalPoints
  <2>4. QED
    BY <2>2, <2>3, Kinds
<1>4. QED
  BY <1>1, <1>2, <1>3, Parts DEF Typed, AllTypes

(* The detached updates, and what the receiver spends.                     *)
LEMMA TaskStepTyped ==
  ASSUME Typed, NEW t \in Tasks,
         FindCreator(t) \/ LookAtWallet(t) \/ CreateCreator(t) \/ SaveCreator(t)
  PROVE  Typed'
<1>1. MoneyType /\ TaskType /\ HistType /\ CallType
  BY Parts DEF Typed, AllTypes
<1>2. UNCHANGED <<balance, given, reversed, pc, gift, spent, faults>>
  BY DEF FindCreator, LookAtWallet, CreateCreator, SaveCreator
<1>3. TaskType'
  <2>1. CASE FindCreator(t)
    BY <1>1, <2>1 DEF TaskType, FindCreator
  <2>2. CASE LookAtWallet(t)
    <3>1. balance["receiver"] \in Nat
      BY <1>1 DEF MoneyType, Users
    <3>2. QED
      BY <1>1, <2>2, <3>1 DEF TaskType, LookAtWallet
  <2>3. CASE CreateCreator(t)
    BY <1>1, <2>3 DEF TaskType, CreateCreator, Settle
  <2>4. CASE SaveCreator(t)
    <3>1. seen[t] \in Nat
      BY <1>1 DEF TaskType
    <3>2. earned' \in Nat
      BY <2>4, <3>1, Amounts DEF SaveCreator
    <3>3. QED
      BY <1>1, <2>4, <3>2 DEF TaskType, SaveCreator, Settle
  <2>5. QED
    BY <2>1, <2>2, <2>3, <2>4
<1>4. incidents' \subseteq Incidents
  <2>1. CASE FindCreator(t)
    <3>1. \A x \in Incidents : \A b : When(x, b) \subseteq Incidents
      BY DEF When
    <3>2. {"raced", "overtaken", "late"} \subseteq Incidents
      BY DEF Incidents
    <3>3. QED
      BY <1>1, <2>1, <3>1, <3>2 DEF FindCreator, HistType
  <2>2. QED
    BY <1>1, <2>1 DEF HistType, LookAtWallet, CreateCreator, SaveCreator
<1>5. MoneyType' /\ CallType' /\ HistType' /\ Shape'
  BY <1>1, <1>2, <1>4 DEF MoneyType, CallType, HistType, Shape, Typed
<1>6. QED
  BY <1>3, <1>5, Parts DEF Typed, AllTypes

LEMMA LoseTyped == ASSUME Typed, NEW p \in Procs, LoseUpdates(p) PROVE Typed'
<1>1. MoneyType /\ TaskType /\ HistType /\ CallType
  BY Parts DEF Typed, AllTypes
<1>2. HistType'
  <2>1. {"lost"} \in SUBSET Incidents
    BY DEF Incidents
  <2>2. QED
    BY <2>1, HistTyped DEF LoseUpdates
<1>3. TaskType'
  BY <1>1 DEF LoseUpdates, TaskType
<1>4. MoneyType' /\ CallType' /\ Shape'
  BY <1>1 DEF LoseUpdates, MoneyType, CallType, Shape, Typed
<1>5. QED
  BY <1>2, <1>3, <1>4, Parts DEF Typed, AllTypes

LEMMA SpendTyped == ASSUME Typed, Spend PROVE Typed'
<1>1. MoneyType /\ TaskType /\ HistType /\ CallType
  BY Parts DEF Typed, AllTypes
<1>2. "receiver" \in Users /\ balance["receiver"] \in Nat
  BY <1>1 DEF MoneyType, Users
<1>3. MoneyType'
  BY <1>2, TakeTyped DEF Spend, MoneyType
<1>4. CallType' /\ TaskType' /\ HistType' /\ Shape'
  BY <1>1 DEF Spend, CallType, TaskType, HistType, Shape, Typed
<1>5. QED
  BY <1>3, <1>4, Parts DEF Typed, AllTypes

LEMMA TypedInductive == Typed /\ [Next]_vars => Typed'
<1> SUFFICES ASSUME Typed, [Next]_vars PROVE Typed'
  OBVIOUS
<1>1. CASE UNCHANGED vars
  BY <1>1 DEF vars, Typed, TypeOK, Shape
<1>2. CASE \E p \in Procs : Send(p) \/ CreditReceiver(p) \/ Refund(p) \/ CreditPlatform(p)
  BY <1>2, SendTyped, CreditReceiverTyped, RefundTyped, CreditPlatformTyped
<1>3. CASE \E p \in Procs : \/ RestoreSender(p) \/ ReclaimShare(p) \/ ReclaimFee(p)
                            \/ Die(p) \/ LoseUpdates(p)
  BY <1>3, RestoreSenderTyped, ReclaimShareTyped, ReclaimFeeTyped, DieTyped, LoseTyped
<1>4. CASE \E p \in Procs, g \in Calls : FindReversal(p, g)
  BY <1>4, FindReversalTyped
<1>5. CASE Spend \/ \E t \in Tasks : FindCreator(t) \/ LookAtWallet(t) \/ CreateCreator(t) \/ SaveCreator(t)
  BY <1>5, TaskStepTyped, SpendTyped
<1>6. QED
  BY <1>1, <1>2, <1>3, <1>4, <1>5 DEF Next

(* Every variable keeps its type, and no wallet is overdrawn, whatever is  *)
(* refused, made twice or lost.                                            *)
THEOREM TypeCorrect == Spec => []TypeOK
<1>1. Typed => TypeOK
  BY DEF Typed
<1>2. QED
  BY <1>1, InitTyped, TypedInductive, PTL DEF Spec

-----------------------------------------------------------------------------
(* Where the coins are: of which gifts the sender, the receiver and the    *)
(* platform have made their movement, as long as nothing has gone wrong    *)
(* that AllOrNothing excludes.                                             *)
Clean        == incidents \subseteq {"late", "raced", "overtaken", "lost"}
Returning    == {"reclaim", "refee", "undone"}
Undoing      == {"restore"} \cup Returning
Back(g, points) == \E r \in Reversals : gift[r] = g /\ pc[r] \in points
Paid         == {g \in Calls : pc[g] \in {"share", "refund", "fee", "sent"} /\ g \notin reversed}
WithReceiver == {g \in Calls : pc[g] \in {"fee", "sent"} /\ ~Back(g, {"refee", "undone"})}
WithPlatform == {g \in Calls : pc[g] = "sent" /\ ~Back(g, {"undone"})}

Balances ==
  /\ balance["sender"]   = Start["sender"]   - Gross * Cardinality(Paid)
  /\ balance["receiver"] = Start["receiver"] + Share * Cardinality(WithReceiver) - spent
  /\ balance["platform"] = Start["platform"] + Fee   * Cardinality(WithPlatform)

(* At most one reversal works on a gift, on one that was given and, until  *)
(* it pays the sender, was not reversed; and none has stopped half way.    *)
Orderly ==
  /\ \A r \in Reversals : pc[r] \in Undoing => gift[r] \in Calls /\ pc[gift[r]] = "sent"
  /\ \A r \in Reversals : /\ pc[r] = "restore" => gift[r] \notin reversed
                          /\ pc[r] \in Returning => gift[r] \in reversed
  /\ \A g \in reversed : Back(g, Returning)
  /\ \A r, s \in Reversals : pc[r] \in Undoing /\ pc[s] \in Undoing /\ gift[r] = gift[s] => r = s
  /\ \A p \in Procs : pc[p] \notin {"halfway", "dead"}

Accounts == Clean => Balances /\ Orderly

LEMMA OneMore == ASSUME NEW S \in SUBSET Calls, NEW x \in Calls \ S
                 PROVE  Cardinality(S) \in Nat /\ Cardinality(S \cup {x}) = Cardinality(S) + 1
  BY CallsAssumption, FS_Subset, FS_AddElement, FS_CardinalityType

LEMMA OneLess == ASSUME NEW S \in SUBSET Calls, NEW x \in S
                 PROVE  Cardinality(S) \in Nat /\ Cardinality(S \ {x}) = Cardinality(S) - 1
  BY CallsAssumption, FS_Subset, FS_RemoveElement, FS_CardinalityType

LEMMA TimesMore == ASSUME NEW a \in Nat, NEW n \in Nat, NEW m, m = n + 1
                   PROVE  a * m = a * n + a /\ a * n \in Int
  OBVIOUS

LEMMA TimesLess == ASSUME NEW a \in Nat, NEW n \in Nat, NEW m, m = n - 1
                   PROVE  a * m = a * n - a /\ a * n \in Int
  OBVIOUS

LEMMA Counted == /\ Paid \in SUBSET Calls /\ WithReceiver \in SUBSET Calls
                 /\ WithPlatform \in SUBSET Calls
                 /\ Cardinality(Paid) \in Nat /\ Cardinality(WithReceiver) \in Nat
                 /\ Cardinality(WithPlatform) \in Nat
<1>1. Paid \in SUBSET Calls /\ WithReceiver \in SUBSET Calls /\ WithPlatform \in SUBSET Calls
  BY DEF Paid, WithReceiver, WithPlatform
<1>2. QED
  BY <1>1, CallsAssumption, FS_Subset, FS_CardinalityType

LEMMA IncidentsGrow == [Next]_vars => incidents \subseteq incidents'
  BY DEF Next, vars, Send, CreditReceiver, Refund, CreditPlatform, FindReversal, RestoreSender,
         ReclaimShare, ReclaimFee, Die, LoseUpdates, FindCreator, LookAtWallet, CreateCreator,
         SaveCreator, Spend, Doubtful, Goes

LEMMA NotDoubtful ==
  ASSUME Clean', NEW p, NEW u, NEW n, NEW good, NEW bad PROVE ~Doubtful(p, u, n, good, bad)
  BY DEF Clean, Doubtful, Goes

LEMMA InitAccounts == Init => Accounts
<1> SUFFICES ASSUME Init PROVE Balances /\ Orderly
  BY DEF Accounts
<1>1. \A p \in Procs : pc[p] = "idle"
  BY DEF Init
<1>2. Paid = {} /\ WithReceiver = {} /\ WithPlatform = {}
  BY <1>1, Kinds DEF Paid, WithReceiver, WithPlatform
<1>3. Balances
  BY <1>2, FS_EmptySet, Amounts DEF Init, Balances, Users
<1>4. Orderly
  BY <1>1, Kinds DEF Init, Orderly, Undoing, Returning
<1>5. QED
  BY <1>3, <1>4

(* A step that moves none of the coins, nor a call or a reversal.          *)
LEMMA StillAccounts ==
  ASSUME Balances, Orderly, UNCHANGED <<balance, reversed, pc, gift, spent>>
  PROVE  Balances' /\ Orderly'
<1>1. \A g, points : Back(g, points)' = Back(g, points)
  BY DEF Back
<1>2. UNCHANGED <<Paid, WithReceiver, WithPlatform>>
  BY <1>1 DEF Paid, WithReceiver, WithPlatform
<1>3. Balances'
  BY <1>2 DEF Balances
<1>4. Orderly'
  BY DEF Orderly, Back
<1>5. QED
  BY <1>3, <1>4

(* A call moves on: no reversal is for a gift that is not given yet.       *)
LEMMA CallMoves ==
  ASSUME Typed, Orderly, NEW p \in Calls, pc[p] # "sent", NEW to \in CallPoints \ {"dead"},
         Goto(p, to), UNCHANGED <<gift, reversed>>
  PROVE  /\ Orderly'
         /\ p \notin reversed /\ pc'[p] = to /\ \A g \in Calls \ {p} : pc'[g] = pc[g]
         /\ \A g : \A points \in SUBSET Returning : Back(g, points)' = Back(g, points)
         /\ \A points \in SUBSET Returning : ~Back(p, points)
<1>1. CallType
  BY Parts DEF Typed, AllTypes
<1>2. pc'[p] = to /\ \A q \in Procs \ {p} : pc'[q] = pc[q]
  BY <1>1, Kinds DEF CallType, Goto
<1>3. \A r \in Reversals : pc'[r] = pc[r] /\ gift'[r] = gift[r]
  BY <1>2, Kinds
<1>4. \A g, points : Back(g, points)' = Back(g, points)
  BY <1>3 DEF Back
<1>5. \A points \in SUBSET Returning : ~Back(p, points)
  BY DEF Orderly, Back, Undoing
<1>6. p \notin reversed
  BY <1>5 DEF Orderly
<1>7. Orderly'
  <2>1. \A r \in Reversals : pc[r] \in Undoing => gift[r] \in Calls /\ gift[r] # p
    BY DEF Orderly
  <2>2. \A r \in Reversals : pc'[r] \in Undoing => gift'[r] \in Calls /\ pc'[gift'[r]] = "sent"
    BY <1>2, <1>3, <2>1, Kinds DEF Orderly
  <2>3. \A q \in Procs : pc'[q] \notin {"halfway", "dead"}
    BY <1>2 DEF Orderly, CallPoints
  <2>4. \A g \in reversed' : Back(g, Returning)'
    BY <1>4 DEF Orderly
  <2>5. QED
    BY <1>3, <2>2, <2>3, <2>4 DEF Orderly
<1>8. QED
  BY <1>2, <1>4, <1>5, <1>6, <1>7, Kinds

(* The movements of a gift.                                                *)
LEMMA SendAccounts ==
  ASSUME Typed, Balances, Orderly, Clean', NEW p \in Procs, Send(p) PROVE Balances' /\ Orderly'
<1>1. p \in Calls /\ pc[p] = "idle" /\ UNCHANGED <<gift, reversed, spent>>
  BY NotDoubtful DEF Send
<1>2. \/ Take("sender", Gross) /\ Goto(p, "share")
      \/ UNCHANGED balance /\ Goto(p, "unsent")
  BY NotDoubtful DEF Send
<1>3. PICK to \in {"share", "unsent"} :
        /\ Goto(p, to)
        /\ to = "share" => Take("sender", Gross)
        /\ to = "unsent" => UNCHANGED balance
  BY <1>2
<1>4. /\ Orderly'
      /\ p \notin reversed /\ pc'[p] = to /\ \A g \in Calls \ {p} : pc'[g] = pc[g]
      /\ \A g : \A points \in SUBSET Returning : Back(g, points)' = Back(g, points)
  BY <1>1, <1>3, CallMoves DEF CallPoints
<1>5. {"undone"} \in SUBSET Returning /\ {"refee", "undone"} \in SUBSET Returning
  BY DEF Returning
<1>6. UNCHANGED <<WithReceiver, WithPlatform>>
  BY <1>1, <1>4, <1>5 DEF WithReceiver, WithPlatform
<1>7. Paid' = IF to = "share" THEN Paid \cup {p} ELSE Paid
  BY <1>1, <1>4 DEF Paid
<1>8. p \notin Paid
  BY <1>1 DEF Paid
<1>9. Balances'
  <2>1. CASE to = "share"
    <3>1. Cardinality(Paid') = Cardinality(Paid) + 1
      BY <1>1, <1>7, <1>8, <2>1, OneMore, Counted
    <3>2. balance \in [Users -> Nat] /\ balance' = [balance EXCEPT !["sender"] = @ - Gross]
      BY <1>3, <2>1, Parts DEF Typed, AllTypes, MoneyType, Take
    <3>3. Gross * Cardinality(Paid') = Gross * Cardinality(Paid) + Gross
          /\ Gross * Cardinality(Paid) \in Int
      BY <3>1, Counted, TimesMore, Amounts, Zenon
    <3>4. balance'["sender"] = Start["sender"] - Gross * Cardinality(Paid')
      BY <3>2, <3>3, Amounts DEF Balances, Users
    <3>5. QED
      BY <1>1, <1>6, <3>2, <3>4 DEF Balances, Users
  <2>2. CASE to # "share"
    BY <1>1, <1>3, <1>6, <1>7, <2>2 DEF Balances
  <2>3. QED
    BY <2>1, <2>2
<1>10. QED
  BY <1>4, <1>9

LEMMA CreditReceiverAccounts ==
  ASSUME Typed, Balances, Orderly, Clean', NEW p \in Procs, CreditReceiver(p) PROVE Balances' /\ Orderly'
<1>1. p \in Calls /\ pc[p] = "share" /\ UNCHANGED <<gift, reversed, spent>>
  BY Kinds, NotDoubtful DEF CreditReceiver, Typed, Shape, ReversalPoints
<1>2. PICK to \in {"fee", "refund"} :
        /\ Goto(p, to)
        /\ to = "fee" => Add("receiver", Share)
        /\ to = "refund" => UNCHANGED balance
  BY NotDoubtful DEF CreditReceiver
<1>3. /\ Orderly'
      /\ p \notin reversed /\ pc'[p] = to /\ \A g \in Calls \ {p} : pc'[g] = pc[g]
      /\ \A g : \A points \in SUBSET Returning : Back(g, points)' = Back(g, points)
      /\ \A points \in SUBSET Returning : ~Back(p, points)
  BY <1>1, <1>2, CallMoves DEF CallPoints
<1>4. {"undone"} \in SUBSET Returning /\ {"refee", "undone"} \in SUBSET Returning
  BY DEF Returning
<1>5. UNCHANGED <<Paid, WithPlatform>>
  BY <1>1, <1>3, <1>4 DEF Paid, WithPlatform
<1>6. WithReceiver' = IF to = "fee" THEN WithReceiver \cup {p} ELSE WithReceiver
  BY <1>1, <1>3, <1>4 DEF WithReceiver
<1>7. p \notin WithReceiver
  BY <1>1 DEF WithReceiver
<1>8. Balances'
  <2>1. CASE to = "fee"
    <3>1. Cardinality(WithReceiver') = Cardinality(WithReceiver) + 1
      BY <1>1, <1>6, <1>7, <2>1, OneMore, Counted
    <3>2. balance \in [Users -> Nat] /\ balance' = [balance EXCEPT !["receiver"] = @ + Share] /\ spent \in Nat
      BY <1>2, <2>1, Parts DEF Typed, AllTypes, MoneyType, Add
    <3>3. Share * Cardinality(WithReceiver') = Share * Cardinality(WithReceiver) + Share
          /\ Share * Cardinality(WithReceiver) \in Int
      BY <3>1, Counted, TimesMore, Amounts, Zenon
    <3>4. balance'["receiver"] = Start["receiver"] + Share * Cardinality(WithReceiver') - spent
      BY <3>2, <3>3, Amounts DEF Balances, Users
    <3>5. QED
      BY <1>1, <1>5, <3>2, <3>4 DEF Balances, Users
  <2>2. CASE to # "fee"
    BY <1>1, <1>2, <1>5, <1>6, <2>2 DEF Balances
  <2>3. QED
    BY <2>1, <2>2
<1>9. QED
  BY <1>3, <1>8

LEMMA RefundAccounts ==
  ASSUME Typed, Balances, Orderly, Clean', NEW p \in Procs, Refund(p) PROVE Balances' /\ Orderly'
<1>1. p \in Calls /\ pc[p] = "refund" /\ UNCHANGED <<gift, reversed, spent>>
  BY Kinds, NotDoubtful DEF Refund, Typed, Shape, ReversalPoints
<1>2. Add("sender", Gross) /\ Goto(p, "unsent")
  BY NotDoubtful DEF Refund, Goes, Clean
<1>3. /\ Orderly'
      /\ p \notin reversed /\ pc'[p] = "unsent" /\ \A g \in Calls \ {p} : pc'[g] = pc[g]
      /\ \A g : \A points \in SUBSET Returning : Back(g, points)' = Back(g, points)
  BY <1>1, <1>2, CallMoves DEF CallPoints
<1>4. {"undone"} \in SUBSET Returning /\ {"refee", "undone"} \in SUBSET Returning
  BY DEF Returning
<1>5. UNCHANGED <<WithReceiver, WithPlatform>>
  BY <1>1, <1>3, <1>4 DEF WithReceiver, WithPlatform
<1>6. p \in Paid /\ Paid' = Paid \ {p}
  BY <1>1, <1>3 DEF Paid
<1>7. Cardinality(Paid') = Cardinality(Paid) - 1
  BY <1>6, OneLess, Counted
<1>8. balance \in [Users -> Nat] /\ balance' = [balance EXCEPT !["sender"] = @ + Gross]
  BY <1>2, Parts DEF Typed, AllTypes, MoneyType, Add
<1>9. Gross * Cardinality(Paid') = Gross * Cardinality(Paid) - Gross
      /\ Gross * Cardinality(Paid) \in Int
  BY <1>7, Counted, TimesLess, Amounts, Zenon
<1>10. balance'["sender"] = Start["sender"] - Gross * Cardinality(Paid')
  BY <1>8, <1>9, Amounts DEF Balances, Users
<1>11. Balances'
  BY <1>1, <1>5, <1>8, <1>10 DEF Balances, Users
<1>12. QED
  BY <1>3, <1>11

LEMMA CreditPlatformAccounts ==
  ASSUME Typed, Balances, Orderly, Clean', NEW p \in Procs, CreditPlatform(p) PROVE Balances' /\ Orderly'
<1>1. p \in Calls /\ pc[p] = "fee" /\ UNCHANGED <<gift, reversed, spent>>
  BY Kinds, NotDoubtful DEF CreditPlatform, Typed, Shape, ReversalPoints
<1>2. Add("platform", Fee) /\ Goto(p, "sent")
  BY NotDoubtful DEF CreditPlatform, Goes, Clean
<1>3. /\ Orderly'
      /\ p \notin reversed /\ pc'[p] = "sent" /\ \A g \in Calls \ {p} : pc'[g] = pc[g]
      /\ \A g : \A points \in SUBSET Returning : Back(g, points)' = Back(g, points)
      /\ \A points \in SUBSET Returning : ~Back(p, points)
  BY <1>1, <1>2, CallMoves DEF CallPoints
<1>4. {"undone"} \in SUBSET Returning /\ {"refee", "undone"} \in SUBSET Returning
  BY DEF Returning
<1>5. UNCHANGED <<Paid, WithReceiver>>
  BY <1>1, <1>3, <1>4 DEF Paid, WithReceiver
<1>6. p \notin WithPlatform /\ WithPlatform' = WithPlatform \cup {p}
  BY <1>1, <1>3, <1>4 DEF WithPlatform
<1>7. Cardinality(WithPlatform') = Cardinality(WithPlatform) + 1
  BY <1>1, <1>6, OneMore, Counted
<1>8. balance \in [Users -> Nat] /\ balance' = [balance EXCEPT !["platform"] = @ + Fee]
  BY <1>2, Parts DEF Typed, AllTypes, MoneyType, Add
<1>9. Fee * Cardinality(WithPlatform') = Fee * Cardinality(WithPlatform) + Fee
      /\ Fee * Cardinality(WithPlatform) \in Int
  BY <1>7, Counted, TimesMore, Amounts, Zenon
<1>10. balance'["platform"] = Start["platform"] + Fee * Cardinality(WithPlatform')
  BY <1>8, <1>9, Amounts DEF Balances, Users
<1>11. Balances'
  BY <1>1, <1>5, <1>8, <1>10 DEF Balances, Users
<1>12. QED
  BY <1>3, <1>11

(* A reversal that is under way goes on, or is refused before it has paid. *)
LEMMA ReversalGoesOn ==
  ASSUME Typed, Orderly, NEW p \in Procs, pc[p] \in Undoing, NEW to \in Returning \cup {"refused"},
         Goto(p, to), UNCHANGED gift, pc[p] \in Returning => to \in Returning,
         reversed' = IF to \in Returning THEN reversed \cup {gift[p]} ELSE reversed
  PROVE  /\ p \in Reversals /\ gift[p] \in Calls /\ pc[gift[p]] = "sent" /\ pc'[p] = to
         /\ \A q \in Procs \ {p} : pc'[q] = pc[q]
         /\ Orderly'
<1>1. CallType /\ p \in Reversals /\ gift[p] \in Calls /\ pc[gift[p]] = "sent"
  <2>1. p \in Reversals
    BY Kinds DEF Typed, Shape, CallPoints, Undoing, Returning
  <2>2. QED
    BY <2>1, Parts DEF Orderly, Typed, AllTypes
<1>2. pc'[p] = to /\ \A q \in Procs \ {p} : pc'[q] = pc[q]
  BY <1>1 DEF CallType, Goto
<1>3. \A r \in Reversals : pc'[r] \in Undoing => pc[r] \in Undoing
  BY <1>2, Kinds
<1>4. \A r \in Reversals : pc'[r] \in Undoing => gift'[r] \in Calls /\ pc'[gift'[r]] = "sent"
  BY <1>1, <1>2, <1>3, Kinds DEF Orderly
<1>5. \A r \in Reversals : pc'[r] = "restore" => gift'[r] \notin reversed'
  <2> SUFFICES ASSUME NEW r \in Reversals, pc'[r] = "restore" PROVE gift[r] \notin reversed'
    OBVIOUS
  <2>1. r # p /\ pc[r] = "restore"
    BY <1>2, Kinds DEF Returning
  <2>2. gift[r] # gift[p] /\ gift[r] \notin reversed
    BY <1>1, <2>1 DEF Orderly, Undoing
  <2>3. QED
    BY <2>2
<1>6. \A r \in Reversals : pc'[r] \in Returning => gift'[r] \in reversed'
  BY <1>1, <1>2, Kinds DEF Orderly
<1>7. \A g \in reversed' : Back(g, Returning)'
  <2> SUFFICES ASSUME NEW g \in reversed' PROVE \E r \in Reversals : gift[r] = g /\ pc'[r] \in Returning
    BY DEF Back
  <2>1. CASE g \in reversed
    <3>1. PICK r \in Reversals : gift[r] = g /\ pc[r] \in Returning
      BY <2>1 DEF Orderly, Back
    <3>2. pc'[r] \in Returning
      BY <1>2, <3>1, Kinds
    <3>3. QED
      BY <3>1, <3>2
  <2>2. CASE g \notin reversed
    BY <1>1, <1>2, <2>2
  <2>3. QED
    BY <2>1, <2>2
<1>8. \A r, s \in Reversals : pc'[r] \in Undoing /\ pc'[s] \in Undoing /\ gift'[r] = gift'[s] => r = s
  BY <1>3 DEF Orderly
<1>9. \A q \in Procs : pc'[q] \notin {"halfway", "dead"}
  BY <1>2 DEF Orderly, Returning
<1>10. Orderly'
  BY <1>4, <1>5, <1>6, <1>7, <1>8, <1>9 DEF Orderly
<1>11. QED
  BY <1>1, <1>2, <1>10

LEMMA FindReversalAccounts ==
  ASSUME Typed, Balances, Orderly, Clean', NEW p \in Procs, NEW g \in Calls, FindReversal(p, g)
  PROVE  Balances' /\ Orderly'
<1>1. CallType /\ p \in Reversals /\ pc[p] = "idle"
      /\ UNCHANGED <<balance, reversed, spent>>
  BY Parts DEF FindReversal, Typed, AllTypes
<1>2. gift'[p] = g /\ \A r \in Reversals \ {p} : gift'[r] = gift[r]
  BY <1>1 DEF FindReversal, CallType
<1>3. PICK to \in {"refused", "restore"} : Goto(p, to) /\ (to = "restore" => g \notin reversed)
  BY DEF FindReversal, Goes
<1>4. pc'[p] = to /\ \A q \in Procs \ {p} : pc'[q] = pc[q]
  BY <1>1, <1>3 DEF CallType, Goto
<1>5. to = "restore" => /\ pc[g] = "sent"
                        /\ \A r \in Reversals \ {p} : gift[r] = g => pc[r] \notin Undoing
  <2> SUFFICES ASSUME to = "restore"
               PROVE  pc[g] = "sent" /\ \A r \in Reversals \ {p} : gift[r] = g => pc[r] \notin Undoing
    OBVIOUS
  <2>1. g \notin reversed
    BY <1>3
  <2>2. "unkept" \notin When("unkept", pc[g] # "sent")
        /\ "overlapped" \notin When("overlapped", \E r \in Reversals \ {p} : gift[r] = g /\ pc[r] = "restore")
    <3>1. incidents' = incidents \cup (When("unkept", pc[g] # "sent") \cup
            When("overlapped", \E r \in Reversals \ {p} : gift[r] = g /\ pc[r] = "restore"))
      BY <2>1, Zenon DEF FindReversal, Goes
    <3>2. "unkept" \notin incidents' /\ "overlapped" \notin incidents'
      BY DEF Clean
    <3>3. QED
      BY <3>1, <3>2
  <2>3. pc[g] = "sent" /\ ~\E r \in Reversals \ {p} : gift[r] = g /\ pc[r] = "restore"
    BY <2>2 DEF When
  <2>4. \A r \in Reversals : gift[r] = g => pc[r] \notin Returning
    BY <2>1 DEF Orderly
  <2>5. QED
    BY <2>3, <2>4 DEF Undoing
<1>6. \A x : \A points \in SUBSET Returning : Back(x, points)' = Back(x, points)
  BY <1>1, <1>2, <1>3, <1>4, Kinds DEF Back, Returning
<1>7. \A c \in Calls : pc'[c] = pc[c]
  BY <1>1, <1>4, Kinds
<1>8. UNCHANGED <<Paid, WithReceiver, WithPlatform>>
  BY <1>1, <1>6, <1>7 DEF Paid, WithReceiver, WithPlatform, Returning
<1>9. Balances'
  BY <1>1, <1>8 DEF Balances
<1>10. Orderly'
  <2>1. \A r \in Reversals : pc'[r] \in Undoing =>
          \/ r = p /\ to = "restore" /\ gift'[r] = g
          \/ r # p /\ pc[r] \in Undoing /\ gift'[r] = gift[r]
    BY <1>2, <1>3, <1>4, Kinds DEF Undoing, Returning
  <2>2. \A r \in Reversals : pc'[r] \in Undoing => gift'[r] \in Calls /\ pc'[gift'[r]] = "sent"
    BY <1>5, <1>7, <2>1 DEF Orderly
  <2>3. \A r \in Reversals : /\ pc'[r] = "restore" => gift'[r] \notin reversed'
                             /\ pc'[r] \in Returning => gift'[r] \in reversed'
    BY <1>1, <1>3, <1>4, <2>1, Kinds DEF Orderly, Undoing, Returning
  <2>4. \A x \in reversed' : Back(x, Returning)'
    BY <1>1, <1>6 DEF Orderly
  <2>5. \A r, s \in Reversals : pc'[r] \in Undoing /\ pc'[s] \in Undoing /\ gift'[r] = gift'[s] => r = s
    BY <1>5, <2>1 DEF Orderly
  <2>6. \A q \in Procs : pc'[q] \notin {"halfway", "dead"}
    BY <1>4 DEF Orderly
  <2>7. QED
    BY <2>2, <2>3, <2>4, <2>5, <2>6 DEF Orderly
<1>11. QED
  BY <1>9, <1>10

LEMMA RestoreSenderAccounts ==
  ASSUME Typed, Balances, Orderly, Clean', NEW p \in Procs, RestoreSender(p) PROVE Balances' /\ Orderly'
<1> DEFINE g == gift[p]
<1>1. pc[p] = "restore" /\ UNCHANGED <<gift, spent>>
  BY NotDoubtful DEF RestoreSender
<1>2. PICK to \in {"reclaim", "refused"} :
        /\ Goto(p, to)
        /\ to = "reclaim" => Add("sender", Gross) /\ reversed' = reversed \cup {g}
        /\ to = "refused" => UNCHANGED <<balance, reversed>>
  BY NotDoubtful DEF RestoreSender
<1>3. /\ p \in Reversals /\ g \in Calls /\ pc[g] = "sent" /\ pc'[p] = to
      /\ \A q \in Procs \ {p} : pc'[q] = pc[q]
      /\ Orderly'
  BY <1>1, <1>2, ReversalGoesOn DEF Undoing, Returning
<1>4. \A x : /\ Back(x, {"refee", "undone"})' = Back(x, {"refee", "undone"})
             /\ Back(x, {"undone"})' = Back(x, {"undone"})
  BY <1>1, <1>2, <1>3, Kinds DEF Back
<1>5. \A c \in Calls : pc'[c] = pc[c]
  BY <1>3, Kinds
<1>6. UNCHANGED <<WithReceiver, WithPlatform>>
  BY <1>4, <1>5 DEF WithReceiver, WithPlatform
<1>7. Balances'
  <2>1. CASE to = "reclaim"
    <3>1. g \in Paid /\ Paid' = Paid \ {g}
      BY <1>1, <1>2, <1>3, <1>5, <2>1 DEF Paid, Orderly
    <3>2. Cardinality(Paid') = Cardinality(Paid) - 1
      BY <3>1, OneLess, Counted
    <3>3. balance \in [Users -> Nat] /\ balance' = [balance EXCEPT !["sender"] = @ + Gross]
      BY <1>2, <2>1, Parts DEF Typed, AllTypes, MoneyType, Add
    <3>4. Gross * Cardinality(Paid') = Gross * Cardinality(Paid) - Gross
          /\ Gross * Cardinality(Paid) \in Int
      BY <3>2, Counted, TimesLess, Amounts, Zenon
    <3>5. balance'["sender"] = Start["sender"] - Gross * Cardinality(Paid')
      BY <3>3, <3>4, Amounts DEF Balances, Users
    <3>6. QED
      BY <1>1, <1>6, <3>3, <3>5 DEF Balances, Users
  <2>2. CASE to = "refused"
    <3>1. UNCHANGED Paid
      BY <1>2, <1>5, <2>2 DEF Paid
    <3>2. QED
      BY <1>1, <1>2, <1>6, <2>2, <3>1 DEF Balances
  <2>3. QED
    BY <2>1, <2>2
<1>8. QED
  BY <1>3, <1>7

LEMMA ReclaimShareAccounts ==
  ASSUME Typed, Balances, Orderly, Clean', NEW p \in Procs, ReclaimShare(p) PROVE Balances' /\ Orderly'
<1> DEFINE g == gift[p]
<1>1. pc[p] = "reclaim" /\ UNCHANGED <<gift, spent, reversed>>
  BY NotDoubtful DEF ReclaimShare
<1>2. Take("receiver", Share) /\ Goto(p, "refee")
  BY NotDoubtful DEF ReclaimShare, Goes, Clean
<1>3. p \in Reversals /\ g \in reversed
  BY <1>1, Kinds DEF Typed, Shape, CallPoints, Orderly, Returning
<1>4. /\ g \in Calls /\ pc[g] = "sent" /\ pc'[p] = "refee"
      /\ \A q \in Procs \ {p} : pc'[q] = pc[q]
      /\ Orderly'
  BY <1>1, <1>2, <1>3, ReversalGoesOn DEF Undoing, Returning
<1>5. \A c \in Calls : pc'[c] = pc[c]
  BY <1>3, <1>4, Kinds
<1>6. \A x : Back(x, {"undone"})' = Back(x, {"undone"})
  BY <1>1, <1>4, Kinds DEF Back
<1>7. ~Back(g, {"refee", "undone"})
  BY <1>1, <1>3 DEF Back, Orderly, Undoing, Returning
<1>8. \A x : Back(x, {"refee", "undone"})' <=> Back(x, {"refee", "undone"}) \/ x = g
  BY <1>1, <1>3, <1>4, Kinds DEF Back
<1>9. UNCHANGED <<Paid, WithPlatform>>
  BY <1>1, <1>5, <1>6 DEF Paid, WithPlatform
<1>10. g \in WithReceiver /\ WithReceiver' = WithReceiver \ {g}
  BY <1>4, <1>5, <1>7, <1>8 DEF WithReceiver
<1>11. Cardinality(WithReceiver') = Cardinality(WithReceiver) - 1
  BY <1>10, OneLess, Counted
<1>12. balance \in [Users -> Nat] /\ balance' = [balance EXCEPT !["receiver"] = @ - Share] /\ spent \in Nat
  BY <1>2, Parts DEF Typed, AllTypes, MoneyType, Take
<1>13. Share * Cardinality(WithReceiver') = Share * Cardinality(WithReceiver) - Share
      /\ Share * Cardinality(WithReceiver) \in Int
  BY <1>11, Counted, TimesLess, Amounts, Zenon
<1>14. balance'["receiver"] = Start["receiver"] + Share * Cardinality(WithReceiver') - spent
  BY <1>12, <1>13, Amounts DEF Balances, Users
<1>15. Balances'
  BY <1>1, <1>9, <1>12, <1>14 DEF Balances, Users
<1>16. QED
  BY <1>4, <1>15

LEMMA ReclaimFeeAccounts ==
  ASSUME Typed, Balances, Orderly, Clean', NEW p \in Procs, ReclaimFee(p) PROVE Balances' /\ Orderly'
<1> DEFINE g == gift[p]
<1>1. pc[p] = "refee" /\ UNCHANGED <<gift, spent, reversed>> /\ Goto(p, "undone")
  BY DEF ReclaimFee
<1>2. Take("platform", Fee)
  BY DEF ReclaimFee, Clean
<1>3. p \in Reversals /\ g \in reversed
  BY <1>1, Kinds DEF Typed, Shape, CallPoints, Orderly, Returning
<1>4. /\ g \in Calls /\ pc[g] = "sent" /\ pc'[p] = "undone"
      /\ \A q \in Procs \ {p} : pc'[q] = pc[q]
      /\ Orderly'
  BY <1>1, <1>3, ReversalGoesOn DEF Undoing, Returning
<1>5. \A c \in Calls : pc'[c] = pc[c]
  BY <1>3, <1>4, Kinds
<1>6. \A x : Back(x, {"refee", "undone"})' = Back(x, {"refee", "undone"})
  BY <1>1, <1>3, <1>4, Kinds DEF Back
<1>7. ~Back(g, {"undone"})
  BY <1>1, <1>3 DEF Back, Orderly, Undoing, Returning
<1>8. \A x : Back(x, {"undone"})' <=> Back(x, {"undone"}) \/ x = g
  BY <1>1, <1>3, <1>4, Kinds DEF Back
<1>9. UNCHANGED <<Paid, WithReceiver>>
  BY <1>1, <1>5, <1>6 DEF Paid, WithReceiver
<1>10. g \in WithPlatform /\ WithPlatform' = WithPlatform \ {g}
  BY <1>4, <1>5, <1>7, <1>8 DEF WithPlatform
<1>11. Cardinality(WithPlatform') = Cardinality(WithPlatform) - 1
  BY <1>10, OneLess, Counted
<1>12. balance \in [Users -> Nat] /\ balance' = [balance EXCEPT !["platform"] = @ - Fee]
  BY <1>2, Parts DEF Typed, AllTypes, MoneyType, Take
<1>13. Fee * Cardinality(WithPlatform') = Fee * Cardinality(WithPlatform) - Fee
      /\ Fee * Cardinality(WithPlatform) \in Int
  BY <1>11, Counted, TimesLess, Amounts, Zenon
<1>14. balance'["platform"] = Start["platform"] + Fee * Cardinality(WithPlatform')
  BY <1>12, <1>13, Amounts DEF Balances, Users
<1>15. Balances'
  BY <1>1, <1>9, <1>12, <1>14 DEF Balances, Users
<1>16. QED
  BY <1>4, <1>15

LEMMA SpendAccounts == ASSUME Typed, Balances, Orderly, Spend PROVE Balances' /\ Orderly'
<1>1. spent = 0 /\ spent' = balance["receiver"] /\ UNCHANGED <<reversed, pc, gift>>
      /\ balance' = [balance EXCEPT !["receiver"] = @ - balance["receiver"]]
  BY DEF Spend, Take
<1>2. balance \in [Users -> Nat] /\ "receiver" \in Users
  BY Parts DEF Typed, AllTypes, MoneyType, Users
<1>3. \A g, points : Back(g, points)' = Back(g, points)
  BY <1>1 DEF Back
<1>4. UNCHANGED <<Paid, WithReceiver, WithPlatform>>
  BY <1>1, <1>3 DEF Paid, WithReceiver, WithPlatform
<1>5. Orderly'
  BY <1>1 DEF Orderly, Back
<1>6. balance'["receiver"] = 0 /\ balance["receiver"] = Start["receiver"] + Share * Cardinality(WithReceiver)
  <2>1. Share * Cardinality(WithReceiver) \in Nat
    BY Counted, Amounts
  <2>2. balance["receiver"] = Start["receiver"] + Share * Cardinality(WithReceiver) - 0
    BY <1>1 DEF Balances
  <2>3. QED
    BY <1>1, <1>2, <2>1, <2>2, Amounts
<1>7. Balances'
  <2>1. Share * Cardinality(WithReceiver) \in Nat
    BY Counted, Amounts
  <2>2. balance'["receiver"] = Start["receiver"] + Share * Cardinality(WithReceiver) - spent'
    BY <1>1, <1>2, <1>6, <2>1, Amounts
  <2>3. QED
    BY <1>1, <1>2, <1>4, <2>2 DEF Balances, Users
<1>8. QED
  BY <1>5, <1>7

LEMMA AccountsInductive == Typed /\ Accounts /\ [Next]_vars => Accounts'
<1> SUFFICES ASSUME Typed, Accounts, [Next]_vars, Clean' PROVE Balances' /\ Orderly'
  BY DEF Accounts
<1>0. Balances /\ Orderly
  BY IncidentsGrow DEF Accounts, Clean
<1>1. CASE UNCHANGED vars
  BY <1>0, <1>1, StillAccounts DEF vars
<1>2. CASE \E p \in Procs : Send(p) \/ CreditReceiver(p) \/ Refund(p) \/ CreditPlatform(p)
  BY <1>0, <1>2, SendAccounts, CreditReceiverAccounts, RefundAccounts, CreditPlatformAccounts
<1>3. CASE \E p \in Procs : RestoreSender(p) \/ ReclaimShare(p) \/ ReclaimFee(p)
  BY <1>0, <1>3, RestoreSenderAccounts, ReclaimShareAccounts, ReclaimFeeAccounts
<1>4. CASE \E p \in Procs, g \in Calls : FindReversal(p, g)
  BY <1>0, <1>4, FindReversalAccounts
<1>5. CASE \E t \in Tasks : FindCreator(t) \/ LookAtWallet(t) \/ CreateCreator(t) \/ SaveCreator(t)
  BY <1>0, <1>5, StillAccounts DEF FindCreator, LookAtWallet, CreateCreator, SaveCreator
<1>6. CASE Spend
  BY <1>0, <1>6, SpendAccounts
<1>7. \A p \in Procs : ~Die(p)
  BY DEF Die, Goes, Clean
<1>8. CASE \E p \in Procs : LoseUpdates(p)
  BY <1>0, <1>8, StillAccounts DEF LoseUpdates
<1>9. QED
  BY <1>1, <1>2, <1>3, <1>4, <1>5, <1>6, <1>7, <1>8 DEF Next

(* When no call is under way, every gift has moved all of its three        *)
(* amounts or none, and a reversal all of them back, for any number of     *)
(* calls and reversals: each user's balance is what the gifts kept make    *)
(* it, but for the cases that AllOrNothing names (gifts.js:49-70, 128-160).*)
THEOREM GiftsMoveWhole == Spec => []AllOrNothing
<1>1. Typed /\ Accounts => AllOrNothing
  <2> SUFFICES ASSUME Typed, Accounts, Resting, Clean
               PROVE  balance = [u \in Users |->
                        CASE u = "sender"   -> Start[u] - Kept * Gross
                          [] u = "receiver" -> Start[u] + Kept * Share - spent
                          [] u = "platform" -> Start[u] + Kept * Fee]
    BY DEF AllOrNothing, Clean
  <2>1. Balances /\ Orderly
    BY DEF Accounts
  <2>2. /\ \A c \in Calls : pc[c] \in {"idle", "sent", "unsent"}
        /\ \A r \in Reversals : pc[r] \in {"idle", "undone", "refused"}
    BY <2>1, Kinds DEF Typed, Shape, CallPoints, ReversalPoints, Resting, Ends, Orderly
  <2>3. \A g \in Calls : /\ g \in reversed <=> Back(g, {"undone"})
                         /\ g \in reversed <=> Back(g, {"refee", "undone"})
    BY <2>1, <2>2 DEF Orderly, Back, Returning
  <2> DEFINE Here == {g \in Calls : pc[g] = "sent" /\ g \notin reversed}
  <2>4. Paid = Here /\ WithReceiver = Here /\ WithPlatform = Here
    BY <2>2, <2>3 DEF Paid, WithReceiver, WithPlatform
  <2>5. Kept = Cardinality(Paid) /\ Kept \in Nat
    BY <2>4, Counted DEF Kept
  <2>6. /\ Gross * Cardinality(Paid) = Kept * Gross
        /\ Share * Cardinality(WithReceiver) = Kept * Share
        /\ Fee * Cardinality(WithPlatform) = Kept * Fee
    BY <2>4, <2>5, Amounts
  <2>7. balance \in [Users -> Nat]
    BY Parts DEF Typed, AllTypes, MoneyType
  <2>8. /\ balance["sender"]   = Start["sender"]   - Kept * Gross
        /\ balance["receiver"] = Start["receiver"] + Kept * Share - spent
        /\ balance["platform"] = Start["platform"] + Kept * Fee
    BY <2>1, <2>6 DEF Balances
  <2>9. QED
    BY <2>7, <2>8 DEF Users
<1>2. QED
  BY <1>1, InitTyped, InitAccounts, TypedInductive, AccountsInductive, PTL DEF Spec

-----------------------------------------------------------------------------
(* What the CreatorWallet has: the gifts whose update has been made, less  *)
(* those whose reversal's update has been made too.  As long as nothing    *)
(* goes wrong, every share that was paid has started one update, and so    *)
(* has every reversal; one update runs at a time, and that of a reversal   *)
(* comes after that of its gift.                                           *)
Made(p) == task[<<p, 1>>] = "over"
Applied == {g \in Calls : Made(g) /\ ~\E r \in Reversals : gift[r] = g /\ Made(r)}

Started ==
  /\ \A p \in Procs : task[<<p, 2>>] = "none"
  /\ \A c \in Calls : task[<<c, 1>>] # "none" <=> pc[c] \in {"fee", "sent"}
  /\ \A r \in Reversals : task[<<r, 1>>] # "none" <=> pc[r] = "undone"
Updates ==
  /\ \A t \in Tasks : task[t] \notin {"look", "create"}
  /\ \A t \in Tasks : task[t] = "save" => seen[t] = earned
  /\ \A t, u \in Tasks : task[t] = "save" /\ task[u] = "save" => t = u
  /\ \A r \in Reversals : task[<<r, 1>>] \in {"save", "over"} => Made(gift[r])
SumsUp ==
  \/ earned = None /\ \A t \in Tasks : task[t] \in {"none", "find"}
  \/ earned = Start["receiver"] + Share * Cardinality(Applied)
Follows  == Started /\ Updates /\ SumsUp
Followed == incidents = {} => Follows

LEMMA TaskNames ==
  /\ \A p \in Procs : <<p, 1>> \in Tasks /\ <<p, 2>> \in Tasks
  /\ \A t \in Tasks : \E p \in Procs : t = <<p, 1>> \/ t = <<p, 2>>
  /\ \A p, q \in Procs : <<p, 1>> # <<q, 2>> /\ (<<p, 1>> = <<q, 1>> => p = q)
  BY DEF Tasks

LEMMA InitFollows == Init => Followed
<1> SUFFICES ASSUME Init PROVE Follows
  BY DEF Followed
<1>1. \A t \in Tasks : task[t] = "none"
  BY DEF Init
<1>2. \A p \in Procs : pc[p] = "idle"
  BY DEF Init
<1>3. Started
  BY <1>1, <1>2, Kinds DEF Started
<1>4. Updates
  BY <1>1, Kinds DEF Updates
<1>5. Applied = {}
  BY <1>1, Kinds DEF Applied, Made
<1>6. SumsUp
  <2>1. CASE earned = None
    BY <1>1, <2>1 DEF SumsUp
  <2>2. CASE earned = Start["receiver"]
    BY <1>5, <2>2, FS_EmptySet, Amounts DEF SumsUp, Users
  <2>3. QED
    BY <2>1, <2>2 DEF Init
<1>7. QED
  BY <1>3, <1>4, <1>6 DEF Follows

(* A movement that starts no update.                                       *)
LEMMA MovementFollows ==
  ASSUME Typed, Follows, NEW p \in Procs, NEW to, Goto(p, to), UNCHANGED <<task, earned, seen>>,
         \/ p \in Calls /\ (pc[p] \in {"fee", "sent"} <=> to \in {"fee", "sent"})
         \/ p \in Reversals /\ pc[p] # "undone" /\ to # "undone",
         \A r \in Reversals : r # p => gift'[r] = gift[r]
  PROVE  Follows'
<1>1. pc'[p] = to /\ \A q \in Procs \ {p} : pc'[q] = pc[q]
  BY Parts DEF Typed, AllTypes, CallType, Goto
<1>2. Started'
  <2>1. \A c \in Calls : pc'[c] \in {"fee", "sent"} <=> pc[c] \in {"fee", "sent"}
    BY <1>1, Kinds
  <2>2. \A r \in Reversals : pc'[r] = "undone" <=> pc[r] = "undone"
    BY <1>1, Kinds
  <2>3. QED
    BY <2>1, <2>2 DEF Follows, Started
<1>3. \A r \in Reversals : task[<<r, 1>>] \in {"save", "over"} => gift'[r] = gift[r]
  BY Kinds DEF Follows, Started
<1>4. Updates'
  BY <1>3 DEF Follows, Updates, Made
<1>5. Applied' = Applied
  BY <1>3 DEF Applied, Made
<1>6. QED
  BY <1>2, <1>4, <1>5 DEF Follows, SumsUp

(* A share that is paid, or a reversal that is done, starts one.           *)
LEMMA StartFollows ==
  ASSUME Typed, Follows, NEW p \in Procs, NEW to, Goto(p, to), Start1(p, 1),
         UNCHANGED <<earned, seen, gift>>,
         \/ p \in Calls /\ pc[p] = "share" /\ to = "fee"
         \/ p \in Reversals /\ pc[p] = "refee" /\ to = "undone"
  PROVE  Follows'
<1>1. pc'[p] = to /\ \A q \in Procs \ {p} : pc'[q] = pc[q]
  BY Parts DEF Typed, AllTypes, CallType, Goto
<1>2. task[<<p, 1>>] = "none"
  BY Kinds DEF Follows, Started
<1>3. task'[<<p, 1>>] = "find" /\ \A t \in Tasks \ {<<p, 1>>} : task'[t] = task[t]
  <2>1. \A t \in Tasks : task'[t] = IF t[1] = p /\ t[2] <= 1 THEN "find" ELSE task[t]
    BY DEF Start1
  <2>2. \A t \in Tasks : t[1] = p /\ t[2] <= 1 <=> t = <<p, 1>>
    BY Kinds
  <2>3. QED
    BY <2>1, <2>2, Kinds
<1>4. \A q \in Procs \ {p} : task'[<<q, 1>>] = task[<<q, 1>>]
  BY <1>3, TaskNames
<1>5. Started'
  <2>1. \A q \in Procs : task'[<<q, 2>>] = "none"
    BY <1>3, TaskNames DEF Follows, Started
  <2>2. \A c \in Calls : task'[<<c, 1>>] # "none" <=> pc'[c] \in {"fee", "sent"}
    BY <1>1, <1>3, <1>4, Kinds DEF Follows, Started
  <2>3. ASSUME NEW r \in Reversals PROVE task'[<<r, 1>>] # "none" <=> pc'[r] = "undone"
    <3>1. CASE r = p
      BY <1>1, <1>3, <3>1, Kinds
    <3>2. CASE r # p
      BY <1>1, <1>4, <3>2, Kinds DEF Follows, Started
    <3>3. QED
      BY <3>1, <3>2
  <2>4. QED
    BY <2>1, <2>2, <2>3 DEF Started
<1>6. ASSUME NEW x \in Procs PROVE Made(x)' <=> Made(x)
  <2>1. CASE x = p
    BY <1>2, <1>3, <2>1 DEF Made
  <2>2. CASE x # p
    BY <1>4, <2>2 DEF Made
  <2>3. QED
    BY <2>1, <2>2
<1>7. Updates'
  <2>1. \A t \in Tasks : task'[t] \in {"look", "create", "save"} => task[t] = task'[t]
    BY <1>3
  <2>2. ASSUME NEW r \in Reversals, task'[<<r, 1>>] \in {"save", "over"} PROVE Made(gift[r])'
    <3>1. r # p /\ task[<<r, 1>>] \in {"save", "over"}
      BY <1>3, <1>4, <2>2, Kinds
    <3>2. Made(gift[r])
      BY <3>1 DEF Follows, Updates
    <3>3. gift[r] # p
      BY <1>2, <3>2 DEF Made
    <3>4. gift[r] \in Procs
      <4>1. pc[r] = "undone"
        BY <3>1 DEF Follows, Started
      <4>2. gift[r] \in given /\ given \subseteq Calls
        BY <4>1, Parts DEF Typed, AllTypes, CallType, Shape
      <4>3. QED
        BY <4>2, Kinds
    <3>5. QED
      BY <1>6, <3>2, <3>4 DEF Made
  <2>3. QED
    BY <2>1, <2>2 DEF Follows, Updates, Made
<1>8. Applied' = Applied
  BY <1>6, Kinds DEF Applied
<1>9. SumsUp'
  BY <1>3, <1>8 DEF Follows, SumsUp
<1>10. QED
  BY <1>5, <1>7, <1>9 DEF Follows

(* A reversal that is done was for a gift of which no other reversal is.   *)
LEMMA DoneReversal ==
  ASSUME Typed, Orderly, Follows, NEW r \in Reversals, task[<<r, 1>>] # "none"
  PROVE  /\ gift[r] \in Calls /\ task[<<gift[r], 1>>] # "none"
         /\ \A s \in Reversals : gift[s] = gift[r] /\ Made(s) => s = r
<1>1. pc[r] = "undone"
  BY DEF Follows, Started
<1>2. gift[r] \in Calls /\ pc[gift[r]] = "sent"
  BY <1>1 DEF Orderly, Undoing, Returning
<1>3. \A s \in Reversals : Made(s) => pc[s] = "undone"
  BY DEF Follows, Started, Made
<1>4. QED
  BY <1>1, <1>2, <1>3 DEF Follows, Started, Orderly, Undoing, Returning

LEMMA EarnsApplied ==
  /\ Applied \in SUBSET Calls /\ Cardinality(Applied) \in Nat
  /\ \A g \in Applied : Cardinality(Applied) >= 1
<1>1. Applied \in SUBSET Calls
  BY DEF Applied
<1>2. IsFiniteSet(Applied)
  BY <1>1, CallsAssumption, FS_Subset
<1>3. QED
  BY <1>1, <1>2, FS_CardinalityType, FS_EmptySet

LEMMA FindFollows ==
  ASSUME Typed, Orderly, Follows, incidents' = {}, NEW t \in Tasks, FindCreator(t) PROVE Follows'
<1>1. task[t] = "find" /\ UNCHANGED <<pc, gift, earned>>
  BY DEF FindCreator
<1>2. earned # None /\ ~Among(t) /\ ~Overtakes(t)
  <2>1. "raced" \notin When("raced", Among(t)) /\ "overtaken" \notin When("overtaken", Overtakes(t))
        /\ "late" \notin When("late", earned = None)
    BY DEF FindCreator
  <2>2. QED
    BY <2>1 DEF When
<1>3. PICK x \in Procs : t = <<x, 1>>
  BY <1>1, TaskNames DEF Follows, Started
<1>4. x \in Reversals => /\ gift[x] \in Calls /\ Made(gift[x]) /\ gift[x] \in Applied
  <2> SUFFICES ASSUME x \in Reversals
               PROVE  gift[x] \in Calls /\ Made(gift[x]) /\ gift[x] \in Applied
    OBVIOUS
  <2>1. gift[x] \in Calls /\ task[<<gift[x], 1>>] # "none"
        /\ \A s \in Reversals : gift[s] = gift[x] /\ Made(s) => s = x
    BY <1>1, <1>3, DoneReversal
  <2>2. ~Credits(t)
    BY <1>3, Kinds DEF Credits
  <2>3. task[<<gift[x], 1>>] \in {"none", "over"}
    BY <1>2, <1>3, <2>2 DEF Overtakes
  <2>4. Made(gift[x]) /\ ~Made(x)
    BY <1>1, <1>3, <2>1, <2>3 DEF Made
  <2>5. QED
    BY <2>1, <2>4 DEF Applied
<1>5. Credits(t) \/ earned > 0
  <2>1. CASE x \in Calls
    BY <1>3, <2>1 DEF Credits
  <2>2. CASE x \in Reversals
    <3>1. earned = Start["receiver"] + Share * Cardinality(Applied)
      BY <1>2 DEF Follows, SumsUp
    <3>2. Cardinality(Applied) \in Nat /\ Cardinality(Applied) >= 1
      BY <1>4, <2>2, EarnsApplied
    <3>3. Share * Cardinality(Applied) > 0
      BY <3>2, Amounts
    <3>4. Share * Cardinality(Applied) \in Nat /\ Start["receiver"] \in Nat
      BY <3>2, Amounts DEF Users
    <3>5. QED
      BY <3>1, <3>3, <3>4
  <2>3. QED
    BY <2>1, <2>2, Kinds
<1>6. /\ task' = [task EXCEPT ![t] = "save"]
      /\ seen' = [seen EXCEPT ![t] = earned]
  BY <1>2, <1>5 DEF FindCreator
<1>7. /\ task'[t] = "save" /\ \A u \in Tasks \ {t} : task'[u] = task[u]
      /\ seen'[t] = earned /\ \A u \in Tasks \ {t} : seen'[u] = seen[u]
  BY <1>6, Parts DEF Typed, AllTypes, TaskType
<1>8. \A y \in Procs : Made(y)' <=> Made(y)
  BY <1>1, <1>7, TaskNames DEF Made
<1>9. \A u \in Tasks \ {t} : task[u] # "save"
  BY <1>2 DEF Among, Updating
<1>10. Started'
  <2>1. \A y \in Procs : /\ task'[<<y, 1>>] = "none" <=> task[<<y, 1>>] = "none"
                         /\ task'[<<y, 2>>] = task[<<y, 2>>]
    BY <1>1, <1>3, <1>7, TaskNames
  <2>2. QED
    BY <1>1, <2>1, Kinds DEF Follows, Started
<1>11. Updates'
  <2>1. ASSUME NEW r \in Reversals, task'[<<r, 1>>] \in {"save", "over"} PROVE Made(gift[r])'
    <3>1. CASE r = x
      BY <1>1, <1>4, <1>8, <3>1, Kinds DEF Made
    <3>2. CASE r # x
      <4>1. task[<<r, 1>>] \in {"save", "over"}
        BY <1>3, <1>7, <2>1, <3>2, Kinds, TaskNames
      <4>2. Made(gift[r]) /\ gift[r] \in Calls
        BY <4>1, DoneReversal DEF Follows, Updates
      <4>3. QED
        BY <1>1, <1>8, <4>2, Kinds DEF Made
    <3>3. QED
      BY <3>1, <3>2
  <2>2. \A u, w \in Tasks : task'[u] = "save" /\ task'[w] = "save" => u = w
    BY <1>7, <1>9
  <2>3. \A u \in Tasks : task'[u] \notin {"look", "create"} /\ (task'[u] = "save" => seen'[u] = earned')
    BY <1>1, <1>7, <1>9 DEF Follows, Updates
  <2>4. QED
    BY <1>1, <2>1, <2>2, <2>3 DEF Updates, Made
<1>12. Applied' = Applied
  BY <1>1, <1>8, Kinds DEF Applied
<1>13. SumsUp'
  BY <1>1, <1>2, <1>12 DEF Follows, SumsUp
<1>14. QED
  BY <1>10, <1>11, <1>13 DEF Follows

LEMMA SaveFollows ==
  ASSUME Typed, Orderly, Follows, NEW t \in Tasks, SaveCreator(t) PROVE Follows'
<1>1. task[t] = "save" /\ UNCHANGED <<pc, gift>> /\ seen[t] = earned
  BY DEF SaveCreator, Follows, Updates
<1>2. PICK x \in Procs : t = <<x, 1>>
  BY <1>1, TaskNames DEF Follows, Started
<1>3. earned = Start["receiver"] + Share * Cardinality(Applied)
  BY <1>1 DEF Follows, SumsUp
<1>4. task'[t] = "over" /\ \A u \in Tasks \ {t} : task'[u] = task[u]
  BY Parts DEF Typed, AllTypes, TaskType, SaveCreator, Settle
<1>5. \A y \in Procs : Made(y)' <=> Made(y) \/ y = x
  BY <1>2, <1>4, TaskNames DEF Made
<1>6. Started'
  <2>1. \A y \in Procs : /\ task'[<<y, 1>>] = "none" <=> task[<<y, 1>>] = "none"
                         /\ task'[<<y, 2>>] = task[<<y, 2>>]
    BY <1>1, <1>2, <1>4, TaskNames
  <2>2. QED
    BY <1>1, <2>1, Kinds DEF Follows, Started
<1>7. Updates'
  <2>1. ASSUME NEW r \in Reversals, task'[<<r, 1>>] \in {"save", "over"} PROVE Made(gift[r])'
    <3>1. task[<<r, 1>>] \in {"save", "over"}
      BY <1>1, <1>2, <1>4, <2>1, Kinds, TaskNames
    <3>2. Made(gift[r]) /\ gift[r] \in Calls
      BY <3>1, DoneReversal DEF Follows, Updates
    <3>3. QED
      BY <1>1, <1>5, <3>2, Kinds DEF Made
  <2>2. \A u \in Tasks : task'[u] \notin {"look", "create", "save"}
    BY <1>1, <1>4 DEF Follows, Updates
  <2>3. QED
    BY <2>1, <2>2 DEF Updates, Made
<1>8. Share \in Nat /\ Start["receiver"] \in Nat /\ Cardinality(Applied) \in Nat
  BY Amounts, EarnsApplied DEF Users
<1>9. CASE x \in Calls
  <2>1. x \notin Applied
    BY <1>1, <1>2 DEF Applied, Made
  <2>2. \A r \in Reversals : gift[r] = x => ~Made(r)
    BY <1>1, <1>2 DEF Follows, Updates, Made
  <2>3. Applied' = Applied \cup {x}
    BY <1>1, <1>5, <1>9, <2>2, Kinds DEF Applied
  <2>4. Cardinality(Applied') = Cardinality(Applied) + 1
    BY <1>9, <2>1, <2>3, OneMore, EarnsApplied
  <2>5. earned' = earned + Share
    BY <1>1, <1>2, <1>9 DEF SaveCreator, Credits
  <2>6. Share * Cardinality(Applied') = Share * Cardinality(Applied) + Share
    BY <1>8, <2>4, TimesMore, Zenon
  <2>7. earned' = Start["receiver"] + Share * Cardinality(Applied')
    BY <1>3, <1>8, <2>5, <2>6
  <2>8. QED
    BY <1>6, <1>7, <2>7 DEF Follows, SumsUp
<1>10. CASE x \in Reversals
  <2>1. /\ gift[x] \in Calls
        /\ \A s \in Reversals : gift[s] = gift[x] /\ Made(s) => s = x
    BY <1>1, <1>2, <1>10, DoneReversal
  <2>2. Made(gift[x]) /\ ~Made(x)
    BY <1>1, <1>2, <1>10 DEF Follows, Updates, Made
  <2>3. gift[x] \in Applied
    BY <2>1, <2>2 DEF Applied
  <2>4. Applied' = Applied \ {gift[x]}
    BY <1>1, <1>5, <1>10, <2>1, <2>2, Kinds DEF Applied
  <2>5. Cardinality(Applied') = Cardinality(Applied) - 1
    BY <2>3, <2>4, OneLess, EarnsApplied
  <2>6. Share * Cardinality(Applied') = Share * Cardinality(Applied) - Share
        /\ Share * Cardinality(Applied) \in Int
    BY <1>8, <2>5, TimesLess, Zenon
  <2>7. Share * Cardinality(Applied') \in Nat
    BY <1>8, <2>3, <2>5, EarnsApplied
  <2>8. earned' = IF earned > Share THEN earned - Share ELSE 0
    BY <1>1, <1>2, <1>10, Kinds DEF SaveCreator, Credits
  <2>9. earned' = Start["receiver"] + Share * Cardinality(Applied')
    BY <1>3, <1>8, <2>6, <2>7, <2>8
  <2>10. QED
    BY <1>6, <1>7, <2>9 DEF Follows, SumsUp
<1>11. QED
  BY <1>9, <1>10, Kinds

LEMMA FollowsInductive == Typed /\ Accounts /\ Followed /\ [Next]_vars => Followed'
<1> SUFFICES ASSUME Typed, Accounts, Followed, [Next]_vars, incidents' = {} PROVE Follows'
  BY DEF Followed
<1>1. incidents = {} /\ Clean' /\ Follows /\ Orderly
  BY IncidentsGrow DEF Clean, Followed, Accounts
<1>2. ASSUME NEW p, NEW to, NEW what, what # {} PROVE ~Goes(p, to, what)
  BY <1>1, <1>2 DEF Goes
<1>3. CASE UNCHANGED <<task, earned, seen, pc, gift>>
  BY <1>1, <1>3 DEF Follows, Started, Updates, SumsUp, Applied, Made
<1>4. ASSUME NEW p \in Procs, Send(p) \/ Refund(p) \/ CreditPlatform(p) PROVE Follows'
  <2>1. /\ p \in Calls /\ UNCHANGED <<task, earned, seen, gift>>
        /\ \E to : Goto(p, to) /\ (pc[p] \in {"fee", "sent"} <=> to \in {"fee", "sent"})
    BY <1>1, <1>2, <1>4, NotDoubtful, Kinds
    DEF Send, Refund, CreditPlatform, Typed, Shape, ReversalPoints
  <2>2. QED
    BY <1>1, <2>1, MovementFollows
<1>5. ASSUME NEW p \in Procs, CreditReceiver(p) PROVE Follows'
  <2>1. p \in Calls /\ pc[p] = "share" /\ UNCHANGED <<earned, seen, gift>>
    BY <1>1, <1>5, NotDoubtful, Kinds DEF CreditReceiver, Typed, Shape, ReversalPoints
  <2>2. CASE Start1(p, 1) /\ Goto(p, "fee")
    BY <1>1, <2>1, <2>2, StartFollows
  <2>3. CASE UNCHANGED task /\ Goto(p, "refund")
    BY <1>1, <2>1, <2>3, MovementFollows
  <2>4. QED
    BY <1>1, <1>5, <2>2, <2>3, NotDoubtful DEF CreditReceiver
<1>6. ASSUME NEW p \in Procs, NEW g \in Calls, FindReversal(p, g) PROVE Follows'
  <2>1. /\ p \in Reversals /\ pc[p] = "idle" /\ UNCHANGED <<task, earned, seen>>
        /\ \A r \in Reversals : r # p => gift'[r] = gift[r]
        /\ \E to \in {"refused", "restore"} : Goto(p, to)
    BY <1>6, Parts DEF FindReversal, Goes, Typed, AllTypes, CallType
  <2>2. QED
    BY <1>1, <2>1, MovementFollows
<1>7. ASSUME NEW p \in Procs, RestoreSender(p) \/ ReclaimShare(p) PROVE Follows'
  <2>1. /\ p \in Reversals /\ pc[p] # "undone" /\ UNCHANGED <<task, earned, seen, gift>>
        /\ \E to \in {"reclaim", "refused", "refee"} : Goto(p, to)
    BY <1>1, <1>2, <1>7, NotDoubtful, Kinds
    DEF RestoreSender, ReclaimShare, Typed, Shape, CallPoints
  <2>2. QED
    BY <1>1, <2>1, MovementFollows
<1>8. ASSUME NEW p \in Procs, ReclaimFee(p) PROVE Follows'
  <2>1. /\ p \in Reversals /\ pc[p] = "refee" /\ Goto(p, "undone") /\ Start1(p, 1)
        /\ UNCHANGED <<earned, seen, gift>>
    BY <1>8, Kinds DEF ReclaimFee, Typed, Shape, CallPoints
  <2>2. QED
    BY <1>1, <2>1, StartFollows
<1>9. ASSUME NEW t \in Tasks, FindCreator(t) \/ LookAtWallet(t) \/ CreateCreator(t) \/ SaveCreator(t)
      PROVE  Follows'
  <2>1. ~LookAtWallet(t) /\ ~CreateCreator(t)
    BY <1>1 DEF LookAtWallet, CreateCreator, Follows, Updates
  <2>2. QED
    BY <1>1, <1>9, <2>1, FindFollows, SaveFollows
<1>10. \A p \in Procs : ~Die(p) /\ ~LoseUpdates(p)
  BY <1>1, <1>2 DEF Die, LoseUpdates
<1>11. Spend \/ UNCHANGED vars => UNCHANGED <<task, earned, seen, pc, gift>>
  BY DEF Spend, vars
<1>12. QED
  BY <1>3, <1>4, <1>5, <1>6, <1>7, <1>8, <1>9, <1>10, <1>11 DEF Next

(* When everything rests, the CreatorWallet has what the gifts have        *)
(* brought, for any number of gifts, reversals and updates, as long as no  *)
(* movement and no update was lost, no two updates overlapped and the      *)
(* document was there (creatorWallet.js:10-56, 79-89; coins.js:86, 108).   *)
THEOREM CreatorWalletKeepsUp == Spec => []CreatorWalletFollows
<1>1. Typed /\ Accounts /\ Followed => CreatorWalletFollows
  <2> SUFFICES ASSUME Typed, Accounts, Followed, Resting, incidents = {},
                      \A t \in Tasks : task[t] \in {"none", "over"}
               PROVE  earned \in {None, Start["receiver"] + Kept * Share}
    BY DEF CreatorWalletFollows
  <2>1. Orderly /\ Follows
    BY DEF Accounts, Clean, Followed
  <2>2. /\ \A c \in Calls : pc[c] \in {"idle", "sent", "unsent"}
        /\ \A r \in Reversals : pc[r] \in {"idle", "undone", "refused"}
    BY <2>1, Kinds DEF Typed, Shape, CallPoints, ReversalPoints, Resting, Ends, Orderly
  <2>3. /\ \A c \in Calls : Made(c) <=> pc[c] = "sent"
        /\ \A r \in Reversals : Made(r) <=> pc[r] = "undone"
    BY <2>1, <2>2, Kinds DEF Follows, Started, Made
  <2>4. \A g \in Calls : g \in reversed <=> \E r \in Reversals : gift[r] = g /\ pc[r] = "undone"
    BY <2>1, <2>2 DEF Orderly, Back, Returning
  <2>5. Applied = {g \in Calls : pc[g] = "sent" /\ g \notin reversed}
    BY <2>3, <2>4 DEF Applied
  <2>6. Kept = Cardinality(Applied) /\ Kept \in Nat
    BY <2>5, EarnsApplied DEF Kept
  <2>7. Share * Cardinality(Applied) = Kept * Share
    BY <2>6, Amounts
  <2>8. QED
    BY <2>1, <2>7 DEF Follows, SumsUp
<1>2. QED
  BY <1>1, InitTyped, InitAccounts, InitFollows, TypedInductive, AccountsInductive,
     FollowsInductive, PTL DEF Spec
=============================================================================

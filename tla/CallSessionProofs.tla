-------------------------- MODULE CallSessionProofs -------------------------
(* Proofs for CallSession: its types, that the creator receives what the   *)
(* user pays, that a session is charged once and what it costs, and that   *)
(* the offline queue keeps its order, for any number of ends, approvals,   *)
(* syncs and events.                                                       *)
EXTENDS CallSession, WellFoundedInduction, TLAPS

(* The type invariant by parts, each of which most steps leave alone, and  *)
(* what is behind it: an end that is to be saved has its time, and only a  *)
(* sync marks events.                                                      *)
DocType   == clock \in Moments /\ session \in Sessions
MoneyType == paid \in [Procs -> Nat] /\ received \in [Procs -> Nat]
QueueType == /\ \E n \in 0 .. QueueLimit : queue \in [1 .. n -> Kinds]
             /\ processed \subseteq DOMAIN queue /\ failed \subseteq DOMAIN queue
CallType  == /\ pc \in [Procs -> Points]
             /\ copy \in [Procs -> Sessions]
             /\ todo \in [Syncs -> SUBSET DOMAIN queue]
             /\ \A s \in Syncs : todo[s] = {} <=> pc[s] \in {"idle", "done"}
HistType  == incidents \subseteq Incidents /\ faults \in 0 .. FaultLimit
Shape     == \A p \in Procs : /\ pc[p] = "save end" => copy[p].endedAt \in Moments
                              /\ pc[p] = "mark" => p \in Syncs
Typed     == DocType /\ MoneyType /\ QueueType /\ CallType /\ HistType /\ Shape

LEMMA Kinds3 == /\ Ends \subseteq Procs /\ Approvals \subseteq Procs /\ Syncs \subseteq Procs
                /\ Moments \subseteq Nat /\ 0 \in Moments /\ None \notin Moments
                /\ QueueLimit \in Nat /\ FaultLimit \in Nat
                /\ Blank \in Sessions
  BY NumbersAssumption DEF Procs, Blank, Sessions

(* The next event of a sync is the earliest of those it has before it.     *)
LEMMA FirstIs == ASSUME NEW S \in SUBSET Nat, S # {}
                 PROVE  First(S) \in S /\ \A f \in S : First(S) <= f
<1>1. \E e \in S : \A f \in S : ~(<<f, e>> \in OpToRel(<, Nat))
  BY NatLessThanWellFounded, WFMin
<1>2. PICK e \in S : \A f \in S : ~(<<f, e>> \in OpToRel(<, Nat))
  BY <1>1
<1>3. \A f \in S : ~(f < e)
  <2> SUFFICES ASSUME NEW f \in S, f < e PROVE FALSE
    OBVIOUS
  <2>1. <<f, e>> \in {d \in Nat \X Nat : d[1] < d[2]}
    OBVIOUS
  <2>2. QED
    BY <1>2, <2>1 DEF OpToRel
<1>4. \A f \in S : e <= f
  BY <1>3
<1>5. QED
  BY <1>4 DEF First

LEMMA ChargeNat == ASSUME NEW m \in Nat PROVE Charge(m) \in Nat
<1>1. Free \in Nat /\ Cap \in Nat /\ Rate \in Nat
  BY NumbersAssumption
<1> DEFINE billable == (IF m < Cap THEN m ELSE Cap) - Free
<1>2. billable \in Int /\ (billable > 0 => billable * Rate \in Nat)
  <2>1. billable \in Int
    BY <1>1
  <2> HIDE DEF billable
  <2>2. billable > 0 => billable * Rate \in Nat
    BY <1>1, <2>1
  <2>3. QED
    BY <2>1, <2>2
<1>3. QED
  BY <1>2 DEF Charge

-----------------------------------------------------------------------------
LEMMA InitTyped == Init => Typed
<1> SUFFICES ASSUME Init PROVE Typed
  OBVIOUS
<1>1. DocType /\ HistType /\ MoneyType
  BY Kinds3 DEF Init, DocType, HistType, MoneyType, Nothing
<1>2. QueueType
  <2>1. << >> \in [1 .. 0 -> Kinds] /\ 0 \in 0 .. QueueLimit
    BY Kinds3
  <2>2. QED
    BY <2>1 DEF Init, QueueType
<1>3. CallType /\ Shape
  BY Kinds3 DEF Init, CallType, Shape, Points
<1>4. QED
  BY <1>1, <1>2, <1>3 DEF Typed

(* A call moves on, and the others stay where they are.                    *)
Moves(p) == /\ \A q \in Procs \ {p} : pc'[q] = pc[q] /\ copy'[q] = copy[q]
            /\ \A s \in Syncs \ {p} : todo'[s] = todo[s]

LEMMA AdvanceIs ==
  ASSUME Typed, NEW s \in Syncs, pc[s] \notin {"idle", "done"}, Advance(s)
  PROVE  /\ Upcoming(todo[s]) \in todo[s] /\ Upcoming(todo[s]) \in DOMAIN queue
         /\ pc' = [pc EXCEPT ![s] = Enter(todo[s] \ {Upcoming(todo[s])})]
         /\ pc'[s] \in {"done", "end", "approve"} /\ pc' \in [Procs -> Points]
         /\ todo' \in [Syncs -> SUBSET DOMAIN queue]
         /\ todo'[s] = {} <=> pc'[s] = "done"
         /\ \A q \in Procs \ {s} : pc'[q] = pc[q]
         /\ \A r \in Syncs \ {s} : todo'[r] = todo[r]
<1> DEFINE e == Upcoming(todo[s])
           rest == todo[s] \ {e}
<1>1. CallType /\ QueueType
  BY DEF Typed
<1>2. DOMAIN queue \subseteq Nat /\ todo[s] \subseteq DOMAIN queue /\ todo[s] # {}
  BY <1>1 DEF CallType, QueueType
<1>3. e \in todo[s] /\ e \in DOMAIN queue
  BY <1>2, FirstIs DEF Upcoming
<1>4. pc' = [pc EXCEPT ![s] = Enter(rest)] /\ todo' = [todo EXCEPT ![s] = rest]
  BY DEF Advance, Goto
<1> HIDE DEF e
<1>5. Enter(rest) \in {"done", "end", "approve"} /\ (rest = {} <=> Enter(rest) = "done")
  BY DEF Enter
<1>6. rest \subseteq DOMAIN queue
  BY <1>2
<1> HIDE DEF rest
<1>7. pc'[s] = Enter(rest) /\ pc' \in [Procs -> Points] /\ \A q \in Procs \ {s} : pc'[q] = pc[q]
  BY <1>1, <1>4, <1>5, Kinds3 DEF CallType, Points
<1>8. todo' \in [Syncs -> SUBSET DOMAIN queue] /\ todo'[s] = rest
      /\ \A r \in Syncs \ {s} : todo'[r] = todo[r]
  BY <1>1, <1>4, <1>6 DEF CallType
<1>9. QED
  BY <1>3, <1>4, <1>5, <1>7, <1>8 DEF e, rest

LEMMA AdvanceTyped ==
  ASSUME Typed, NEW s \in Syncs, pc[s] \notin {"idle", "done"}, Advance(s), UNCHANGED queue,
         copy' \in {copy, [copy EXCEPT ![s] = Blank]}
  PROVE  CallType' /\ Shape' /\ Moves(s)
<1>1. copy' \in [Procs -> Sessions] /\ \A q \in Procs \ {s} : copy'[q] = copy[q]
  BY Kinds3 DEF Typed, CallType
<1>2. CallType'
  <2>1. \A r \in Syncs : todo'[r] = {} <=> pc'[r] \in {"idle", "done"}
    <3> SUFFICES ASSUME NEW r \in Syncs PROVE todo'[r] = {} <=> pc'[r] \in {"idle", "done"}
      OBVIOUS
    <3>1. CASE r = s
      BY <3>1, AdvanceIs
    <3>2. CASE r # s
      BY <3>2, AdvanceIs, Kinds3 DEF Typed, CallType
    <3>3. QED
      BY <3>1, <3>2
  <2>2. pc' \in [Procs -> Points] /\ todo' \in [Syncs -> SUBSET DOMAIN queue']
    BY AdvanceIs
  <2>3. QED
    BY <1>1, <2>1, <2>2 DEF CallType
<1>3. Shape'
  BY <1>1, AdvanceIs, Kinds3 DEF Typed, Shape
<1>4. QED
  BY <1>1, <1>2, <1>3, AdvanceIs DEF Moves

(* A call that stays at work, or a route that is done.                     *)
LEMMA GotoTyped ==
  ASSUME Typed, NEW p \in Procs, pc[p] \notin {"idle", "done"}, NEW to \in Points \ {"idle"}, Goto(p, to),
         UNCHANGED <<queue, todo>>, to = "done" => p \notin Syncs, to = "mark" => p \in Syncs,
         NEW doc \in Sessions, copy' = [copy EXCEPT ![p] = doc], to = "save end" => doc.endedAt \in Moments
  PROVE  CallType' /\ Shape' /\ Moves(p) /\ pc'[p] = to /\ copy'[p] = doc
<1>1. CallType
  BY DEF Typed
<1>2. pc' \in [Procs -> Points] /\ pc'[p] = to /\ \A q \in Procs \ {p} : pc'[q] = pc[q]
  BY <1>1 DEF CallType, Goto
<1>3. copy' \in [Procs -> Sessions] /\ copy'[p] = doc /\ \A q \in Procs \ {p} : copy'[q] = copy[q]
  BY <1>1 DEF CallType
<1>4. CallType'
  BY <1>1, <1>2, <1>3, Kinds3 DEF CallType
<1>5. Shape'
  BY <1>2, <1>3 DEF Typed, Shape
<1>6. QED
  BY <1>2, <1>3, <1>4, <1>5 DEF Moves

LEMMA RaiseTyped ==
  ASSUME Typed, NEW p \in Procs, pc[p] \notin {"idle", "done"}, Raise(p), UNCHANGED queue
  PROVE  /\ CallType' /\ Shape' /\ Moves(p) /\ failed' \subseteq DOMAIN queue
         /\ pc'[p] \in {"done", "end", "approve"} /\ copy'[p] = Blank
<1>1. copy' = [copy EXCEPT ![p] = Blank] /\ copy'[p] = Blank
  BY DEF Raise, Forget, Typed, CallType
<1>2. CASE p \in Syncs
  <2>1. Advance(p) /\ failed' = failed \cup {Upcoming(todo[p])}
    BY <1>2 DEF Raise
  <2>2. CallType' /\ Shape' /\ Moves(p)
    BY <1>1, <1>2, <2>1, AdvanceTyped
  <2>3. pc'[p] \in {"done", "end", "approve"} /\ Upcoming(todo[p]) \in DOMAIN queue
    BY <1>2, <2>1, AdvanceIs
  <2>4. QED
    BY <1>1, <2>1, <2>2, <2>3 DEF Typed, QueueType
<1>3. CASE p \notin Syncs
  <2>1. Goto(p, "done") /\ UNCHANGED <<todo, failed>>
    BY <1>3 DEF Raise
  <2>2. CallType' /\ Shape' /\ Moves(p) /\ pc'[p] = "done"
    BY <1>1, <1>3, <2>1, GotoTyped, Kinds3 DEF Points
  <2>3. QED
    BY <1>1, <2>1, <2>2 DEF Typed, QueueType
<1>4. QED
  BY <1>2, <1>3

LEMMA ReturnTyped ==
  ASSUME Typed, NEW p \in Procs, pc[p] \notin {"idle", "done"}, Return(p), UNCHANGED queue
  PROVE  /\ CallType' /\ Shape' /\ Moves(p) /\ failed' \subseteq DOMAIN queue
         /\ pc'[p] \in {"done", "mark"} /\ copy'[p] = Blank
<1>1. \E to \in {"done", "mark"} :
        Goto(p, to) /\ (to = "done" => p \notin Syncs) /\ (to = "mark" => p \in Syncs)
  BY DEF Return
<1>2. copy' = [copy EXCEPT ![p] = Blank] /\ UNCHANGED <<todo, failed>>
  BY DEF Return, Forget
<1>3. CallType' /\ Shape' /\ Moves(p) /\ pc'[p] \in {"done", "mark"} /\ copy'[p] = Blank
  BY <1>1, <1>2, GotoTyped, Kinds3 DEF Points
<1>4. QED
  BY <1>2, <1>3 DEF Typed, QueueType

-----------------------------------------------------------------------------
LEMMA HistTyped ==
  ASSUME Typed, Fault \/ NoFault,
         UNCHANGED incidents \/ \E i \in SUBSET Incidents : Note(i)
  PROVE  HistType'
  BY Kinds3 DEF Typed, HistType, Fault, NoFault, Note

(* What a step leaves alone keeps its type.                                *)
LEMMA SameDoc   == ASSUME Typed, UNCHANGED <<clock, session>> PROVE DocType'
  BY DEF Typed, DocType
LEMMA SameMoney == ASSUME Typed, UNCHANGED <<paid, received>> PROVE MoneyType'
  BY DEF Typed, MoneyType
LEMMA SameQueue == ASSUME Typed, UNCHANGED <<queue, processed>>, failed' \subseteq DOMAIN queue PROVE QueueType'
  BY DEF Typed, QueueType
LEMMA SameFailed == Typed => failed \subseteq DOMAIN queue
  BY DEF Typed, QueueType

(* The steps of a call that has loaded, by how they end.                   *)
LEMMA Leaves ==
  ASSUME Typed, NEW p \in Procs, pc[p] \notin {"idle", "done"}, UNCHANGED queue, Raise(p) \/ Return(p)
  PROVE  /\ CallType' /\ Shape' /\ Moves(p) /\ failed' \subseteq DOMAIN queue
         /\ pc'[p] \in {"done", "end", "approve", "mark"} /\ copy'[p] = Blank
  BY RaiseTyped, ReturnTyped

LEMMA StaysOn ==
  ASSUME Typed, NEW p \in Procs, pc[p] \notin {"idle", "done"}, UNCHANGED <<queue, todo, failed, copy>>,
         NEW to \in {"debit", "credit", "save charge"}, Goto(p, to)
  PROVE  /\ CallType' /\ Shape' /\ Moves(p) /\ failed' \subseteq DOMAIN queue
         /\ pc'[p] = to /\ copy'[p] = copy[p]
<1>1. copy[p] \in Sessions /\ copy' = [copy EXCEPT ![p] = copy[p]]
  BY DEF Typed, CallType
<1>2. to \in Points \ {"idle"}
  BY DEF Points
<1>3. QED
  BY <1>1, <1>2, GotoTyped, SameFailed

LEMMA Loads ==
  ASSUME Typed, NEW p \in Procs, pc[p] \notin {"idle", "done"}, UNCHANGED <<queue, todo, failed>>,
         NEW to \in {"save end", "save approval"}, Goto(p, to),
         NEW doc \in Sessions, copy' = [copy EXCEPT ![p] = doc], to = "save end" => doc.endedAt \in Moments
  PROVE  /\ CallType' /\ Shape' /\ Moves(p) /\ failed' \subseteq DOMAIN queue
         /\ pc'[p] = to /\ copy'[p] = doc
<1>1. to \in Points \ {"idle", "done", "mark"}
  BY DEF Points
<1>2. QED
  BY <1>1, GotoTyped, SameFailed

LEMMA LoadToEndTyped == ASSUME Typed, NEW p \in Procs, LoadToEnd(p) PROVE Typed'
<1>1. DocType' /\ MoneyType'
  BY SameDoc, SameMoney DEF LoadToEnd
<1>2. HistType'
  BY HistTyped DEF LoadToEnd, When, Incidents
<1>3. CallType' /\ Shape' /\ failed' \subseteq DOMAIN queue
  <2>1. CASE Raise(p) \/ Return(p)
    BY <2>1, Leaves DEF LoadToEnd
  <2>2. CASE ~(Raise(p) \/ Return(p))
    <3>1. /\ copy' = [copy EXCEPT ![p] = [session EXCEPT !.endedAt = clock]]
          /\ Goto(p, "save end") /\ UNCHANGED <<todo, failed>>
      BY <2>2 DEF LoadToEnd
    <3>2. [session EXCEPT !.endedAt = clock] \in Sessions /\ [session EXCEPT !.endedAt = clock].endedAt \in Moments
      BY DEF Typed, DocType, Sessions
    <3>3. QED
      BY <3>1, <3>2, Loads DEF LoadToEnd
  <2>3. QED
    BY <2>1, <2>2
<1>4. QueueType'
  BY <1>3, SameQueue DEF LoadToEnd
<1>5. QED
  BY <1>1, <1>2, <1>3, <1>4 DEF Typed

LEMMA SaveEndTyped == ASSUME Typed, NEW p \in Procs, SaveEnd(p) PROVE Typed'
<1>1. Ended(p) \in Sessions
  <2>1. copy[p].endedAt \in Moments /\ session \in Sessions
    BY DEF Typed, DocType, Shape, SaveEnd
  <2>2. Charge(copy[p].endedAt) \in Nat
    BY <2>1, ChargeNat, Kinds3
  <2>3. QED
    BY <2>1, <2>2 DEF Ended, Sessions
<1>2. DocType' /\ MoneyType'
  BY <1>1, SameMoney DEF SaveEnd, Typed, DocType
<1>3. HistType'
  BY HistTyped DEF SaveEnd
<1>4. CallType' /\ Shape' /\ failed' \subseteq DOMAIN queue
  BY Leaves DEF SaveEnd
<1>5. QueueType'
  BY <1>4, SameQueue DEF SaveEnd
<1>6. QED
  BY <1>2, <1>3, <1>4, <1>5 DEF Typed

LEMMA LoadToApproveTyped == ASSUME Typed, NEW p \in Procs, LoadToApprove(p) PROVE Typed'
<1>1. DocType' /\ MoneyType'
  BY SameDoc, SameMoney DEF LoadToApprove
<1>2. HistType'
  BY HistTyped DEF LoadToApprove, When, Incidents
<1>3. CallType' /\ Shape' /\ failed' \subseteq DOMAIN queue
  <2>1. CASE Raise(p)
    BY <2>1, Leaves DEF LoadToApprove
  <2>2. CASE ~Raise(p)
    <3>1. /\ copy' = [copy EXCEPT ![p] = [session EXCEPT !.approved = TRUE]]
          /\ Goto(p, "save approval") /\ UNCHANGED <<todo, failed>>
      BY <2>2 DEF LoadToApprove
    <3>2. [session EXCEPT !.approved = TRUE] \in Sessions
      BY DEF Typed, DocType, Sessions
    <3>3. QED
      BY <3>1, <3>2, Loads DEF LoadToApprove
  <2>3. QED
    BY <2>1, <2>2
<1>4. QueueType'
  BY <1>3, SameQueue DEF LoadToApprove
<1>5. QED
  BY <1>1, <1>2, <1>3, <1>4 DEF Typed

LEMMA SaveApprovalTyped == ASSUME Typed, NEW p \in Procs, SaveApproval(p) PROVE Typed'
<1>1. DocType' /\ MoneyType'
  BY SameMoney DEF SaveApproval, Typed, DocType, Sessions
<1>2. HistType'
  BY HistTyped DEF SaveApproval
<1>3. CallType' /\ Shape' /\ failed' \subseteq DOMAIN queue
  BY Leaves, StaysOn DEF SaveApproval
<1>4. QueueType'
  BY <1>3, SameQueue DEF SaveApproval
<1>5. QED
  BY <1>1, <1>2, <1>3, <1>4 DEF Typed

LEMMA DebitTyped == ASSUME Typed, NEW p \in Procs, Debit(p) PROVE Typed'
<1>1. copy[p].amount \in Nat /\ 2 * copy[p].amount \in Nat
  BY DEF Typed, CallType, Sessions
<1>2. DocType' /\ MoneyType'
  <2>1. paid' = paid \/ (\E k \in 1 .. 2 : paid' = [paid EXCEPT ![p] = @ + k * copy[p].amount])
    <3>1. copy[p].amount = 1 * copy[p].amount /\ 1 \in 1 .. 2
      BY <1>1
    <3>2. QED
      BY <3>1, Zenon DEF Debit
  <2>2. \A k \in 1 .. 2 : k * copy[p].amount \in Nat
    BY <1>1
  <2>3. paid' \in [Procs -> Nat]
    BY <2>1, <2>2 DEF Typed, MoneyType
  <2>4. UNCHANGED <<received, clock, session>>
    BY DEF Debit
  <2>5. QED
    BY <2>3, <2>4, SameDoc DEF Typed, MoneyType
<1>3. HistType'
  BY HistTyped DEF Debit, Incidents
<1>4. CallType' /\ Shape' /\ failed' \subseteq DOMAIN queue
  BY Leaves, StaysOn DEF Debit
<1>5. QueueType'
  BY <1>4, SameQueue DEF Debit
<1>6. QED
  BY <1>2, <1>3, <1>4, <1>5 DEF Typed

LEMMA CreditTyped == ASSUME Typed, NEW p \in Procs, Credit(p) PROVE Typed'
<1>1. copy[p].amount \in Nat /\ 2 * copy[p].amount \in Nat
  BY DEF Typed, CallType, Sessions
<1>2. DocType' /\ MoneyType'
  <2>1. received' = received \/ (\E k \in 1 .. 2 : received' = [received EXCEPT ![p] = @ + k * copy[p].amount])
    <3>1. copy[p].amount = 1 * copy[p].amount /\ 1 \in 1 .. 2
      BY <1>1
    <3>2. QED
      BY <3>1, Zenon DEF Credit
  <2>2. \A k \in 1 .. 2 : k * copy[p].amount \in Nat
    BY <1>1
  <2>3. received' \in [Procs -> Nat]
    BY <2>1, <2>2 DEF Typed, MoneyType
  <2>4. UNCHANGED <<paid, clock, session>>
    BY DEF Credit
  <2>5. QED
    BY <2>3, <2>4, SameDoc DEF Typed, MoneyType
<1>3. HistType'
  BY HistTyped DEF Credit, Incidents
<1>4. CallType' /\ Shape' /\ failed' \subseteq DOMAIN queue
  BY Leaves, StaysOn DEF Credit
<1>5. QueueType'
  BY <1>4, SameQueue DEF Credit
<1>6. QED
  BY <1>2, <1>3, <1>4, <1>5 DEF Typed

LEMMA SaveChargeTyped == ASSUME Typed, NEW p \in Procs, SaveCharge(p) PROVE Typed'
<1>1. DocType' /\ MoneyType'
  BY SameMoney DEF SaveCharge, Typed, DocType, Sessions
<1>2. HistType'
  BY HistTyped DEF SaveCharge, Incidents
<1>3. CallType' /\ Shape' /\ failed' \subseteq DOMAIN queue
  BY Leaves DEF SaveCharge
<1>4. QueueType'
  BY <1>3, SameQueue DEF SaveCharge
<1>5. QED
  BY <1>1, <1>2, <1>3, <1>4 DEF Typed

(* A mark is the last step for one event of a sync.                        *)
LEMMA MarkLeaves ==
  ASSUME Typed, NEW p \in Procs, MarkProcessed(p)
  PROVE  /\ CallType' /\ Shape' /\ Moves(p) /\ failed' \subseteq DOMAIN queue
         /\ pc'[p] \in {"done", "end", "approve"} /\ copy'[p] \in {copy[p], Blank}
         /\ p \in Syncs /\ processed' \subseteq DOMAIN queue
<1>1. p \in Syncs /\ pc[p] = "mark" /\ UNCHANGED queue
  BY DEF MarkProcessed, Typed, Shape
<1>2. CASE Raise(p)
  <2>1. Advance(p)
    BY <1>1, <1>2 DEF Raise
  <2>2. Upcoming(todo[p]) \in DOMAIN queue
    BY <1>1, <2>1, AdvanceIs
  <2>3. processed' \subseteq DOMAIN queue
    BY <2>2 DEF MarkProcessed, Typed, QueueType
  <2>4. QED
    BY <1>1, <1>2, <2>3, RaiseTyped
<1>3. CASE ~Raise(p)
  <2>1. Advance(p) /\ UNCHANGED <<copy, failed>> /\ processed' = processed \cup {Upcoming(todo[p])}
    BY <1>3 DEF MarkProcessed
  <2>2. CallType' /\ Shape' /\ Moves(p)
    BY <1>1, <2>1, AdvanceTyped
  <2>3. Upcoming(todo[p]) \in DOMAIN queue /\ pc'[p] \in {"done", "end", "approve"}
    BY <1>1, <2>1, AdvanceIs
  <2>4. QED
    BY <1>1, <2>1, <2>2, <2>3 DEF Typed, QueueType
<1>4. QED
  BY <1>2, <1>3

LEMMA MarkTyped == ASSUME Typed, NEW p \in Procs, MarkProcessed(p) PROVE Typed'
<1>1. DocType' /\ MoneyType' /\ HistType'
  BY SameDoc, SameMoney, HistTyped DEF MarkProcessed
<1>2. QueueType'
  BY MarkLeaves DEF MarkProcessed, Typed, QueueType
<1>3. QED
  BY <1>1, <1>2, MarkLeaves DEF Typed

LEMMA DieTyped == ASSUME Typed, NEW p \in Procs, Die(p)
                  PROVE  Typed' /\ Moves(p) /\ pc'[p] = "dead" /\ copy'[p] = Blank
<1>1. DocType' /\ MoneyType' /\ QueueType'
  BY SameDoc, SameMoney, SameQueue, SameFailed DEF Die
<1>2. HistType'
  BY HistTyped DEF Die, When, Incidents
<1>3. CallType' /\ Shape' /\ Moves(p) /\ pc'[p] = "dead" /\ copy'[p] = Blank
  BY GotoTyped, Kinds3 DEF Die, Forget, Points
<1>4. QED
  BY <1>1, <1>2, <1>3 DEF Typed

(* The beginnings: a route, a sync, an event, and time.                    *)
LEMMA Begins ==
  ASSUME Typed, NEW p \in Procs, AskToEnd(p) \/ AskToApprove(p) \/ StartSync(p)
  PROVE  /\ Typed' /\ Moves(p) /\ UNCHANGED copy /\ pc[p] = "idle"
         /\ pc'[p] \in {"done", "end", "approve"}
<1>1. DocType' /\ MoneyType' /\ QueueType' /\ HistType' /\ UNCHANGED copy /\ pc[p] = "idle"
  BY DEF AskToEnd, AskToApprove, StartSync, Typed, DocType, MoneyType, QueueType, HistType
<1>2. CASE AskToEnd(p) \/ AskToApprove(p)
  <2>1. p \notin Syncs /\ UNCHANGED <<todo, queue, copy>>
    BY <1>2, CallersAssumption DEF AskToEnd, AskToApprove
  <2>2. /\ pc'[p] \in {"done", "end", "approve"} /\ pc' \in [Procs -> Points]
        /\ \A q \in Procs \ {p} : pc'[q] = pc[q]
    BY <1>2 DEF AskToEnd, AskToApprove, Goto, Typed, CallType, Points
  <2>3. CallType' /\ Shape' /\ Moves(p)
    BY <2>1, <2>2, Kinds3 DEF Typed, CallType, Shape, Moves
  <2>4. QED
    BY <1>1, <2>2, <2>3 DEF Typed
<1>3. CASE StartSync(p)
  <2> DEFINE pending == DOMAIN queue \ processed
  <2>1. /\ p \in Syncs /\ UNCHANGED <<queue, copy>>
        /\ todo' = [todo EXCEPT ![p] = pending] /\ pc' = [pc EXCEPT ![p] = Enter(pending)]
    BY <1>3 DEF StartSync, Goto
  <2>2. Enter(pending) \in {"done", "end", "approve"} /\ (pending = {} <=> Enter(pending) = "done")
    BY DEF Enter
  <2>3. pending \subseteq DOMAIN queue
    OBVIOUS
  <2> HIDE DEF pending
  <2>4. /\ pc'[p] = Enter(pending) /\ pc' \in [Procs -> Points]
        /\ \A q \in Procs \ {p} : pc'[q] = pc[q]
        /\ todo'[p] = pending /\ todo' \in [Syncs -> SUBSET DOMAIN queue]
        /\ \A s \in Syncs \ {p} : todo'[s] = todo[s]
    BY <2>1, <2>2, <2>3 DEF Typed, CallType, Points
  <2>5. CallType'
    <3>1. \A s \in Syncs : todo'[s] = {} <=> pc'[s] \in {"idle", "done"}
      BY <2>2, <2>4, Kinds3 DEF Typed, CallType
    <3>2. QED
      BY <2>1, <2>4, <3>1 DEF Typed, CallType
  <2>6. Shape' /\ Moves(p)
    BY <2>1, <2>2, <2>4 DEF Typed, Shape, Moves
  <2>7. QED
    BY <1>1, <2>2, <2>4, <2>5, <2>6 DEF Typed
<1>4. QED
  BY <1>2, <1>3

LEMMA EnqueueTyped == ASSUME Typed, NEW kind \in Kinds, Enqueue(kind) PROVE Typed'
<1>1. PICK n \in 0 .. QueueLimit - 1 :
        /\ DOMAIN queue = 1 .. n
        /\ queue' = [e \in 1 .. n + 1 |-> IF e <= n THEN queue[e] ELSE kind]
        /\ UNCHANGED <<clock, session, paid, received, processed, pc, copy, todo, failed, incidents, faults>>
  BY DEF Enqueue
<1>2. queue' \in [1 .. n + 1 -> Kinds] /\ n + 1 \in 0 .. QueueLimit /\ DOMAIN queue \subseteq DOMAIN queue'
  <2>1. \A e \in 1 .. n : queue[e] \in Kinds
    BY <1>1 DEF Typed, QueueType
  <2>2. QED
    BY <1>1, <2>1, Kinds3
<1>3. QueueType'
  BY <1>1, <1>2 DEF Typed, QueueType
<1>4. CallType' /\ Shape'
  BY <1>1, <1>2 DEF Typed, CallType, Shape
<1>5. QED
  BY <1>1, <1>3, <1>4 DEF Typed, DocType, MoneyType, HistType

LEMMA Unmoved ==
  ASSUME Typed, UNCHANGED <<session, paid, received, queue, processed, pc, copy, todo, failed, incidents, faults>>,
         clock' \in Moments
  PROVE  Typed'
  BY DEF Typed, DocType, MoneyType, QueueType, CallType, HistType, Shape

LEMMA TypedInductive == Typed /\ [Next]_vars => Typed'
<1> SUFFICES ASSUME Typed, [Next]_vars PROVE Typed'
  OBVIOUS
<1>1. CASE \E p \in Procs : AskToEnd(p) \/ AskToApprove(p) \/ StartSync(p)
  BY <1>1, Begins
<1>2. CASE \E p \in Procs : Step(p)
  BY <1>2, LoadToEndTyped, SaveEndTyped, LoadToApproveTyped, SaveApprovalTyped, DebitTyped, CreditTyped,
     SaveChargeTyped, MarkTyped DEF Step
<1>3. CASE \E p \in Procs : Die(p)
  BY <1>3, DieTyped
<1>4. CASE \E kind \in Kinds : Enqueue(kind)
  BY <1>4, EnqueueTyped
<1>5. CASE Tick
  BY <1>5, Unmoved DEF Tick
<1>6. CASE UNCHANGED vars
  BY <1>6, Unmoved DEF vars, Typed, DocType
<1>7. QED
  BY <1>1, <1>2, <1>3, <1>4, <1>5, <1>6 DEF Next

(* All variables keep their types, for any number of calls and events; in  *)
(* particular a sync is at an event exactly as long as it has one before   *)
(* it (offlineQueue.js:17-33).                                             *)
THEOREM TypeCorrect == Spec => []TypeOK
<1>1. Typed => TypeOK
  BY DEF Typed, TypeOK, DocType, MoneyType, QueueType, CallType, HistType
<1>2. QED
  BY <1>1, InitTyped, TypedInductive, PTL DEF Spec

-----------------------------------------------------------------------------
(* What the user has paid to a call and the creator has not received is    *)
(* what that call is about to credit.                                      *)
Even == incidents \cap {"doubtful", "halfway"} = {} =>
  \A p \in Procs : paid[p] = received[p] + (IF pc[p] = "credit" THEN copy[p].amount ELSE 0)

LEMMA IncidentsGrow == [Next]_vars => incidents \subseteq incidents'
  BY DEF Next, vars, Step, AskToEnd, AskToApprove, StartSync, Enqueue, LoadToEnd, SaveEnd, LoadToApprove,
         SaveApproval, Debit, Credit, SaveCharge, MarkProcessed, Tick, Die, Note

LEMMA StillEven ==
  ASSUME Typed, Even, incidents \subseteq incidents', NEW p \in Procs, Moves(p), UNCHANGED <<paid, received>>,
         pc[p] # "credit", pc'[p] # "credit"
  PROVE  Even'
  BY DEF Even, Moves

(* Where a step of a call leads, if nothing goes wrong.                    *)
LEMMA EndMoves == ASSUME Typed, NEW p \in Procs, LoadToEnd(p) \/ SaveEnd(p)
                  PROVE  Moves(p) /\ pc'[p] \in {"save end", "done", "end", "approve", "mark"}
<1>1. CASE Raise(p) \/ Return(p)
  BY <1>1, Leaves DEF LoadToEnd, SaveEnd
<1>2. CASE ~(Raise(p) \/ Return(p))
  <2>1. /\ copy' = [copy EXCEPT ![p] = [session EXCEPT !.endedAt = clock]] /\ pc[p] = "end"
        /\ Goto(p, "save end") /\ UNCHANGED <<todo, failed, queue>>
    BY <1>2 DEF LoadToEnd, SaveEnd
  <2>2. [session EXCEPT !.endedAt = clock] \in Sessions /\ [session EXCEPT !.endedAt = clock].endedAt \in Moments
    BY DEF Typed, DocType, Sessions
  <2>3. QED
    BY <2>1, <2>2, Loads
<1>3. QED
  BY <1>1, <1>2

LEMMA LoadToApproveMoves ==
  ASSUME Typed, NEW p \in Procs, LoadToApprove(p)
  PROVE  /\ Moves(p)
         /\ \/ pc'[p] \in {"done", "end", "approve"}
            \/ /\ pc'[p] = "save approval" /\ copy'[p] = [session EXCEPT !.approved = TRUE]
               /\ Note(When("overlapped", WillCharge(session) /\ \E q \in Procs \ {p} : Charging(q)))
<1>1. CASE Raise(p)
  BY <1>1, RaiseTyped DEF LoadToApprove
<1>2. CASE ~Raise(p)
  <2>1. /\ copy' = [copy EXCEPT ![p] = [session EXCEPT !.approved = TRUE]] /\ pc[p] = "approve"
        /\ Goto(p, "save approval") /\ UNCHANGED <<todo, failed, queue>>
        /\ Note(When("overlapped", WillCharge(session) /\ \E q \in Procs \ {p} : Charging(q)))
    BY <1>2 DEF LoadToApprove
  <2>2. [session EXCEPT !.approved = TRUE] \in Sessions
    BY DEF Typed, DocType, Sessions
  <2>3. QED
    BY <2>1, <2>2, Loads
<1>3. QED
  BY <1>1, <1>2

LEMMA SaveApprovalMoves ==
  ASSUME Typed, NEW p \in Procs, SaveApproval(p)
  PROVE  /\ Moves(p) /\ session' \in {session, [session EXCEPT !.approved = TRUE]}
         /\ \/ pc'[p] \in {"done", "end", "approve", "mark"}
            \/ pc'[p] = "debit" /\ copy'[p] = copy[p] /\ WillCharge(copy[p])
  BY Leaves, StaysOn DEF SaveApproval

(* A refused debit is over; one that was made leads on.                    *)
LEMMA DebitMoves ==
  ASSUME Typed, NEW p \in Procs, Debit(p), "doubtful" \notin incidents'
  PROVE  /\ Moves(p)
         /\ \/ UNCHANGED paid /\ pc'[p] \in {"done", "end", "approve"}
            \/ /\ paid' = [paid EXCEPT ![p] = @ + copy[p].amount]
               /\ pc'[p] = "credit" /\ copy'[p] = copy[p]
  BY RaiseTyped, StaysOn DEF Debit, Note

LEMMA CreditMoves ==
  ASSUME Typed, NEW p \in Procs, Credit(p), incidents' \cap {"doubtful", "halfway"} = {}
  PROVE  /\ Moves(p) /\ received' = [received EXCEPT ![p] = @ + copy[p].amount]
         /\ pc'[p] = "save charge" /\ copy'[p] = copy[p]
  BY StaysOn DEF Credit, Note

LEMMA SaveChargeMoves ==
  ASSUME Typed, NEW p \in Procs, SaveCharge(p)
  PROVE  /\ Moves(p) /\ pc'[p] \in {"done", "end", "approve", "mark"}
         /\ session' = [session EXCEPT !.charged = TRUE] \/ "halfway" \in incidents'
  BY Leaves DEF SaveCharge, Note

LEMMA EvenInductive == Typed /\ Even /\ [Next]_vars => Even'
<1> SUFFICES ASSUME Typed, Even, [Next]_vars, incidents' \cap {"doubtful", "halfway"} = {} PROVE Even'
  BY DEF Even
<1>0. /\ incidents \subseteq incidents'
      /\ \A p \in Procs : paid[p] = received[p] + (IF pc[p] = "credit" THEN copy[p].amount ELSE 0)
  BY IncidentsGrow DEF Even
<1>1. ASSUME NEW p \in Procs, AskToEnd(p) \/ AskToApprove(p) \/ StartSync(p) PROVE Even'
  BY <1>0, <1>1, Begins, StillEven DEF AskToEnd, AskToApprove, StartSync
<1>2. ASSUME NEW p \in Procs, LoadToEnd(p) \/ SaveEnd(p) PROVE Even'
  BY <1>0, <1>2, EndMoves, StillEven DEF LoadToEnd, SaveEnd
<1>3. ASSUME NEW p \in Procs, LoadToApprove(p) PROVE Even'
  BY <1>0, <1>3, LoadToApproveMoves, StillEven DEF LoadToApprove
<1>4. ASSUME NEW p \in Procs, SaveApproval(p) PROVE Even'
  BY <1>0, <1>4, SaveApprovalMoves, StillEven DEF SaveApproval
<1>5. ASSUME NEW p \in Procs, Debit(p) PROVE Even'
  <2>1. Moves(p) /\ pc[p] = "debit" /\ UNCHANGED received
    BY <1>5, DebitMoves DEF Debit
  <2>2. CASE UNCHANGED paid /\ pc'[p] \in {"done", "end", "approve"}
    BY <1>0, <2>1, <2>2, StillEven
  <2>3. CASE paid' = [paid EXCEPT ![p] = @ + copy[p].amount] /\ pc'[p] = "credit" /\ copy'[p] = copy[p]
    <3>1. copy[p].amount \in Nat /\ paid \in [Procs -> Nat] /\ received \in [Procs -> Nat]
      BY DEF Typed, CallType, MoneyType, Sessions
    <3>2. paid'[p] = received'[p] + copy'[p].amount
      BY <1>0, <2>1, <2>3, <3>1
    <3>3. \A q \in Procs \ {p} : paid'[q] = paid[q] /\ received'[q] = received[q]
      BY <2>1, <2>3, <3>1
    <3>4. QED
      BY <1>0, <2>1, <2>3, <3>2, <3>3 DEF Even, Moves
  <2>4. QED
    BY <1>5, <2>2, <2>3, DebitMoves
<1>6. ASSUME NEW p \in Procs, Credit(p) PROVE Even'
  <2>1. /\ Moves(p) /\ received' = [received EXCEPT ![p] = @ + copy[p].amount] /\ UNCHANGED paid
        /\ pc'[p] = "save charge" /\ pc[p] = "credit"
    BY <1>6, CreditMoves DEF Credit
  <2>2. copy[p].amount \in Nat /\ paid \in [Procs -> Nat] /\ received \in [Procs -> Nat]
    BY DEF Typed, CallType, MoneyType, Sessions
  <2>3. paid[p] = received[p] + copy[p].amount /\ received'[p] = received[p] + copy[p].amount
    BY <1>0, <2>1, <2>2
  <2>4. paid'[p] = received'[p] + 0
    <3>1. paid[p] \in Nat /\ paid'[p] = paid[p]
      BY <2>1, <2>2
    <3>2. received'[p] = paid[p]
      BY <2>3
    <3>3. QED
      BY <3>1, <3>2
  <2>5. \A q \in Procs \ {p} : paid'[q] = received'[q] + (IF pc'[q] = "credit" THEN copy'[q].amount ELSE 0)
    <3> SUFFICES ASSUME NEW q \in Procs \ {p}
                 PROVE  paid'[q] = received'[q] + (IF pc'[q] = "credit" THEN copy'[q].amount ELSE 0)
      OBVIOUS
    <3>1. received'[q] = received[q] /\ paid'[q] = paid[q] /\ pc'[q] = pc[q] /\ copy'[q] = copy[q]
      BY <2>1, <2>2 DEF Moves
    <3>2. QED
      BY <1>0, <3>1
  <2>6. QED
    BY <2>1, <2>4, <2>5 DEF Even
<1>7. ASSUME NEW p \in Procs, SaveCharge(p) PROVE Even'
  BY <1>0, <1>7, SaveChargeMoves, StillEven DEF SaveCharge
<1>8. ASSUME NEW p \in Procs, MarkProcessed(p) PROVE Even'
  BY <1>0, <1>8, MarkLeaves, StillEven DEF MarkProcessed
<1>9. ASSUME NEW p \in Procs, Die(p) PROVE Even'
  <2>1. Moves(p) /\ pc'[p] = "dead" /\ UNCHANGED <<paid, received>>
    BY <1>9, DieTyped DEF Die
  <2>2. pc[p] # "credit"
    BY <1>9 DEF Die, Note, When
  <2>3. QED
    BY <1>0, <2>1, <2>2, StillEven
<1>10. CASE (\E kind \in Kinds : Enqueue(kind)) \/ Tick \/ UNCHANGED vars
  BY <1>0, <1>10 DEF Enqueue, Tick, vars, Even
<1>11. QED
  BY <1>1, <1>2, <1>3, <1>4, <1>5, <1>6, <1>7, <1>8, <1>9, <1>10 DEF Next, Step

(* The creator receives what the user pays, however many ends and charges  *)
(* overlap (sessions.js:40-43).                                            *)
THEOREM CreatorIsPaid == Spec => []CreatorGetsIt
<1>1. Init => Even
  BY DEF Init, Even, Nothing
<1>2. Typed /\ Even => CreatorGetsIt
  <2> SUFFICES ASSUME Typed, Even, NobodyMoves, incidents \cap {"doubtful", "halfway"} = {}
               PROVE  received = paid
    BY DEF CreatorGetsIt
  <2>1. paid \in [Procs -> Nat] /\ received \in [Procs -> Nat]
    BY DEF Typed, MoneyType
  <2>2. \A p \in Procs : paid[p] = received[p] + 0
    BY DEF Even, NobodyMoves
  <2>3. \A p \in Procs : paid[p] = received[p]
    BY <2>1, <2>2
  <2>4. QED
    BY <2>1, <2>3
<1>3. QED
  BY <1>1, <1>2, InitTyped, TypedInductive, EvenInductive, PTL DEF Spec

-----------------------------------------------------------------------------
(* As long as nothing has gone wrong but a refused debit: one end is       *)
(* about to be saved, of a session that has not ended;                     *)
Clean   == incidents \subseteq {"refused"}
Moving  == {"credit", "save charge"}
Ending  ==
  /\ \A p \in Procs : pc[p] = "save end" => session.endedAt = None /\ copy[p].amount = 0
  /\ \A p, q \in Procs : pc[p] = "save end" /\ pc[q] = "save end" => p = q
  /\ session.endedAt = None => session.amount = 0 /\ ~session.charged

(* one call charges the session, for what it costs and before it is        *)
(* marked;                                                                 *)
OneCharge ==
  /\ \A p \in Procs : pc[p] \in {"debit"} \cup Moving => WillCharge(copy[p])
  /\ \A p \in Procs : Charging(p) =>
       session.endedAt # None /\ session.amount = copy[p].amount /\ ~session.charged
  /\ \A p, q \in Procs : Charging(p) /\ Charging(q) => p = q

(* and the user has paid that call if it has moved coins, or one that has  *)
(* marked the session, or nobody.                                          *)
Billed ==
  /\ \A p \in Procs : pc[p] \in Moving => paid = Bill(p)
  /\ session.charged => \E p \in Procs : paid = Bill(p)
  /\ ~session.charged /\ NobodyMoves => paid = Nothing

Once == Clean => Ending /\ OneCharge /\ Billed

LEMMA InitOnce == Init => Once
<1> SUFFICES ASSUME Init PROVE Ending /\ OneCharge /\ Billed
  BY DEF Once
<1>1. session.endedAt = None /\ session.amount = 0 /\ session.charged = FALSE /\ paid = Nothing
      /\ \A p \in Procs : pc[p] = "idle"
  BY DEF Init, Blank
<1>2. QED
  BY <1>1 DEF Ending, OneCharge, Billed, Charging, Moving

(* A call that charges nothing goes where it does not either, and the      *)
(* session costs what it did.                                              *)
LEMMA LeaveOnce ==
  ASSUME Typed, Ending, OneCharge, Billed, NEW p \in Procs, Moves(p), UNCHANGED paid,
         session'.endedAt = session.endedAt, session'.amount = session.amount,
         session'.charged = session.charged,
         pc[p] \notin Moving, pc'[p] \in {"done", "end", "approve", "mark", "dead"}
  PROVE  Ending' /\ OneCharge' /\ Billed'
<1>1. \A q \in Procs : Charging(q)' => Charging(q) /\ q # p
  BY DEF Moves, Charging
<1>2. \A q \in Procs : Bill(q)' = Bill(q)
  BY DEF Bill
<1>3. Ending'
  BY DEF Ending, Moves
<1>4. OneCharge'
  BY <1>1 DEF OneCharge, Moves, Moving
<1>5. NobodyMoves' = NobodyMoves /\ \A q \in Procs : pc'[q] \in Moving => pc[q] \in Moving
  BY DEF NobodyMoves, Moves, Moving
<1>6. Billed'
  BY <1>2, <1>5 DEF Billed
<1>7. QED
  BY <1>3, <1>4, <1>6

LEMMA LoadToEndOnce ==
  ASSUME Typed, Ending, OneCharge, Billed, Clean', NEW p \in Procs, LoadToEnd(p)
  PROVE  Ending' /\ OneCharge' /\ Billed'
<1>1. pc[p] = "end" /\ UNCHANGED <<session, paid>>
  BY DEF LoadToEnd
<1>2. CASE Raise(p) \/ Return(p)
  <2>1. Moves(p) /\ pc'[p] \in {"done", "end", "approve", "mark"}
    BY <1>1, <1>2, Leaves DEF LoadToEnd
  <2>2. QED
    BY <1>1, <2>1, LeaveOnce DEF Moving
<1>3. CASE ~(Raise(p) \/ Return(p))
  <2>1. /\ copy' = [copy EXCEPT ![p] = [session EXCEPT !.endedAt = clock]]
        /\ Goto(p, "save end") /\ UNCHANGED <<todo, failed, queue>> /\ session.endedAt = None
        /\ Note(When("twice", \E q \in Procs \ {p} : pc[q] = "save end"))
    BY <1>3 DEF LoadToEnd
  <2>2. \A q \in Procs \ {p} : pc[q] # "save end"
    BY <2>1 DEF Clean, Note, When
  <2>3. [session EXCEPT !.endedAt = clock] \in Sessions /\ [session EXCEPT !.endedAt = clock].endedAt \in Moments
        /\ [session EXCEPT !.endedAt = clock].amount = session.amount
    BY DEF Typed, DocType, Sessions
  <2>4. Moves(p) /\ pc'[p] = "save end" /\ copy'[p].amount = session.amount
    BY <1>1, <2>1, <2>3, Loads
  <2>5. Ending'
    <3>1. \A q \in Procs : pc'[q] = "save end" => q = p
      BY <2>2, <2>4 DEF Moves
    <3>2. session.amount = 0 /\ ~session.charged
      BY <2>1 DEF Ending
    <3>3. \A q \in Procs : pc'[q] = "save end" => session'.endedAt = None /\ copy'[q].amount = 0
      BY <1>1, <2>1, <2>4, <3>1, <3>2
    <3>4. QED
      BY <1>1, <3>1, <3>2, <3>3 DEF Ending
  <2>6. \A q \in Procs : Charging(q)' => Charging(q) /\ q # p
    BY <2>4 DEF Moves, Charging
  <2>7. OneCharge'
    BY <1>1, <2>4, <2>6 DEF OneCharge, Moves, Moving
  <2>8. NobodyMoves' = NobodyMoves /\ \A q \in Procs : pc'[q] \in Moving => pc[q] \in Moving
    BY <1>1, <2>4 DEF NobodyMoves, Moves, Moving
  <2>9. Billed'
    BY <1>1, <2>8 DEF Billed, Bill
  <2>10. QED
    BY <2>5, <2>7, <2>9
<1>4. QED
  BY <1>2, <1>3

LEMMA SaveEndOnce ==
  ASSUME Typed, Ending, OneCharge, Billed, NEW p \in Procs, SaveEnd(p)
  PROVE  Ending' /\ OneCharge' /\ Billed'
<1>1. /\ pc[p] = "save end" /\ UNCHANGED paid /\ session' \in {session, Ended(p)}
      /\ Moves(p) /\ pc'[p] \in {"done", "end", "approve", "mark"}
  BY Leaves DEF SaveEnd
<1>2. CASE session' = session
  BY <1>1, <1>2, LeaveOnce DEF Moving
<1>3. CASE session' = Ended(p)
  <2>1. session.endedAt = None /\ session.amount = 0 /\ ~session.charged
    BY <1>1 DEF Ending
  <2>2. session'.endedAt \in Moments /\ session'.charged = session.charged
    BY <1>1, <1>3 DEF Ended, Typed, Shape, DocType, Sessions
  <2>3. session'.endedAt # None
    BY <2>2, Kinds3
  <2>4. \A q \in Procs : ~Charging(q) /\ pc[q] \notin {"debit"} \cup Moving
    BY <2>1 DEF OneCharge, Charging, Moving
  <2>5. \A q \in Procs : ~Charging(q)' /\ pc'[q] \notin {"debit"} \cup Moving
    BY <1>1, <2>4 DEF Charging, Moves, Moving
  <2>6. \A q \in Procs : pc'[q] # "save end"
    BY <1>1 DEF Ending, Moves
  <2>7. NobodyMoves
    BY <2>4 DEF NobodyMoves, Moving
  <2>8. Ending' /\ OneCharge'
    BY <2>3, <2>5, <2>6 DEF Ending, OneCharge
  <2>9. Billed'
    BY <1>1, <2>1, <2>2, <2>5, <2>7 DEF Billed
  <2>10. QED
    BY <2>8, <2>9
<1>4. QED
  BY <1>1, <1>2, <1>3

LEMMA LoadToApproveOnce ==
  ASSUME Typed, Ending, OneCharge, Billed, Clean', NEW p \in Procs, LoadToApprove(p)
  PROVE  Ending' /\ OneCharge' /\ Billed'
<1>1. pc[p] = "approve" /\ UNCHANGED <<session, paid>> /\ Moves(p)
  BY LoadToApproveMoves DEF LoadToApprove
<1>2. CASE pc'[p] \in {"done", "end", "approve"}
  BY <1>1, <1>2, LeaveOnce DEF Moving
<1>3. CASE pc'[p] = "save approval"
  <2>1. /\ copy'[p] = [session EXCEPT !.approved = TRUE]
        /\ Note(When("overlapped", WillCharge(session) /\ \E q \in Procs \ {p} : Charging(q)))
    BY <1>3, LoadToApproveMoves
  <2>2. copy'[p].amount = session.amount /\ copy'[p].charged = session.charged
    BY <2>1 DEF Typed, DocType, Sessions
  <2>3. WillCharge(session) => \A q \in Procs \ {p} : ~Charging(q)
    BY <2>1 DEF Clean, Note, When
  <2>4. Charging(p)' => WillCharge(session)
    BY <2>2 DEF Charging, WillCharge
  <2>5. WillCharge(session) => session.endedAt # None /\ ~session.charged
    <3>1. session.endedAt = None => session.amount = 0
      BY DEF Ending
    <3>2. QED
      BY <3>1 DEF WillCharge
  <2>6. \A q \in Procs \ {p} : Charging(q)' = Charging(q)
    BY <1>1 DEF Charging, Moves
  <2>7. Ending'
    BY <1>1, <1>3 DEF Ending, Moves
  <2>8. OneCharge'
    BY <1>1, <1>3, <2>2, <2>3, <2>4, <2>5, <2>6 DEF OneCharge, Moves, Moving
  <2>9. NobodyMoves' = NobodyMoves /\ \A q \in Procs : pc'[q] \in Moving => pc[q] \in Moving
    BY <1>1, <1>3 DEF NobodyMoves, Moves, Moving
  <2>10. Billed'
    BY <1>1, <2>9 DEF Billed, Bill
  <2>11. QED
    BY <2>7, <2>8, <2>10
<1>4. QED
  BY <1>2, <1>3, LoadToApproveMoves

LEMMA SaveApprovalOnce ==
  ASSUME Typed, Ending, OneCharge, Billed, NEW p \in Procs, SaveApproval(p)
  PROVE  Ending' /\ OneCharge' /\ Billed'
<1>1. pc[p] = "save approval" /\ UNCHANGED paid /\ Moves(p)
  BY SaveApprovalMoves DEF SaveApproval
<1>2. session'.endedAt = session.endedAt /\ session'.amount = session.amount
      /\ session'.charged = session.charged
  BY SaveApprovalMoves DEF Typed, DocType, Sessions
<1>3. CASE pc'[p] \in {"done", "end", "approve", "mark"}
  BY <1>1, <1>2, <1>3, LeaveOnce DEF Moving
<1>4. CASE pc'[p] = "debit" /\ copy'[p] = copy[p] /\ WillCharge(copy[p])
  <2>1. Charging(p) /\ \A q \in Procs : Charging(q)' = Charging(q)
    BY <1>1, <1>4 DEF Charging, Moves
  <2>2. \A q \in Procs : copy'[q] = copy[q]
    BY <1>1, <1>4 DEF Moves
  <2>3. Ending'
    BY <1>1, <1>2, <1>4 DEF Ending, Moves
  <2>4. OneCharge'
    BY <1>1, <1>2, <1>4, <2>1, <2>2 DEF OneCharge, Moves, Moving
  <2>5. NobodyMoves' = NobodyMoves /\ \A q \in Procs : pc'[q] \in Moving => pc[q] \in Moving
    BY <1>1, <1>4 DEF NobodyMoves, Moves, Moving
  <2>6. Billed'
    BY <1>1, <1>2, <2>5 DEF Billed, Bill
  <2>7. QED
    BY <2>3, <2>4, <2>6
<1>5. QED
  BY <1>3, <1>4, SaveApprovalMoves

LEMMA DebitOnce ==
  ASSUME Typed, Ending, OneCharge, Billed, Clean', NEW p \in Procs, Debit(p)
  PROVE  Ending' /\ OneCharge' /\ Billed'
<1>1. pc[p] = "debit" /\ UNCHANGED session /\ Moves(p)
  BY DebitMoves DEF Debit, Clean
<1>2. CASE UNCHANGED paid /\ pc'[p] \in {"done", "end", "approve"}
  BY <1>1, <1>2, LeaveOnce DEF Moving
<1>3. CASE paid' = [paid EXCEPT ![p] = @ + copy[p].amount] /\ pc'[p] = "credit" /\ copy'[p] = copy[p]
  <2>1. Charging(p) /\ WillCharge(copy[p]) /\ \A q \in Procs : Charging(q)' = Charging(q)
    BY <1>1, <1>3 DEF OneCharge, Charging, Moves
  <2>2. session.amount = copy[p].amount /\ ~session.charged /\ \A q \in Procs : Charging(q) => q = p
    BY <2>1 DEF OneCharge
  <2>3. \A q \in Procs : pc[q] \notin Moving
    BY <1>1, <2>2 DEF OneCharge, Charging, Moving
  <2>4. paid = Nothing
    BY <2>2, <2>3 DEF Billed, NobodyMoves, Moving
  <2>5. paid' = Bill(p)'
    <3>1. copy[p].amount \in Nat
      BY DEF Typed, CallType, Sessions
    <3>2. paid[p] + copy[p].amount = session.amount
      BY <2>2, <2>4, <3>1 DEF Nothing
    <3>3. QED
      BY <1>1, <1>3, <2>4, <3>2 DEF Bill
  <2>6. \A q \in Procs : pc'[q] \in Moving => q = p
    BY <2>3 , <1>1 DEF Moves
  <2>7. Ending'
    BY <1>1, <1>3 DEF Ending, Moves
  <2>8. OneCharge'
    BY <1>1, <1>3, <2>1, <2>6 DEF OneCharge, Moves
  <2>9. ~NobodyMoves' /\ ~session'.charged
    BY <1>1, <1>3, <2>2 DEF NobodyMoves
  <2>10. Billed'
    BY <2>5, <2>6, <2>9 DEF Billed
  <2>11. QED
    BY <2>7, <2>8, <2>10
<1>4. QED
  BY <1>2, <1>3, DebitMoves DEF Clean

LEMMA CreditOnce ==
  ASSUME Typed, Ending, OneCharge, Billed, Clean', NEW p \in Procs, Credit(p)
  PROVE  Ending' /\ OneCharge' /\ Billed'
<1>1. /\ pc[p] = "credit" /\ pc'[p] = "save charge" /\ copy'[p] = copy[p]
      /\ UNCHANGED <<session, paid>> /\ Moves(p)
  BY CreditMoves DEF Credit, Clean
<1>2. \A q \in Procs : Charging(q)' = Charging(q) /\ (pc'[q] \in Moving <=> pc[q] \in Moving)
  BY <1>1 DEF Charging, Moves, Moving
<1>3. NobodyMoves' = NobodyMoves
  BY <1>2 DEF NobodyMoves, Moving
<1>4. \A q \in Procs : copy'[q] = copy[q]
  BY <1>1 DEF Moves
<1>5. Ending'
  BY <1>1 DEF Ending, Moves
<1>6. OneCharge'
  BY <1>1, <1>2, <1>4 DEF OneCharge, Moves, Moving
<1>7. Billed'
  BY <1>1, <1>2, <1>3 DEF Billed, Bill
<1>8. QED
  BY <1>5, <1>6, <1>7

LEMMA SaveChargeOnce ==
  ASSUME Typed, Ending, OneCharge, Billed, Clean', NEW p \in Procs, SaveCharge(p)
  PROVE  Ending' /\ OneCharge' /\ Billed'
<1>1. /\ pc[p] = "save charge" /\ UNCHANGED paid /\ Moves(p) /\ pc'[p] \in {"done", "end", "approve", "mark"}
      /\ session' = [session EXCEPT !.charged = TRUE]
  BY SaveChargeMoves DEF SaveCharge, Clean
<1>2. /\ session'.endedAt = session.endedAt /\ session'.amount = session.amount
      /\ session'.charged = TRUE
  BY <1>1 DEF Typed, DocType, Sessions
<1>3. Charging(p) /\ session.endedAt # None /\ \A q \in Procs : Charging(q) => q = p
  BY <1>1 DEF OneCharge, Charging, Moving
<1>4. \A q \in Procs : ~Charging(q)' /\ pc'[q] \notin {"debit"} \cup Moving
  <2>1. \A q \in Procs \ {p} : ~Charging(q) /\ pc[q] \notin {"debit"} \cup Moving
    BY <1>3 DEF OneCharge, Charging, Moving
  <2>2. QED
    BY <1>1, <2>1 DEF Charging, Moves, Moving
<1>5. Ending'
  BY <1>1, <1>2, <1>3 DEF Ending, Moves
<1>6. OneCharge'
  BY <1>4 DEF OneCharge
<1>7. paid' = Bill(p)'
  BY <1>1, <1>2 DEF Billed, Bill, Moving
<1>8. Billed'
  BY <1>2, <1>4, <1>7 DEF Billed
<1>9. QED
  BY <1>5, <1>6, <1>8

LEMMA OnceInductive == Typed /\ Once /\ [Next]_vars => Once'
<1> SUFFICES ASSUME Typed, Once, [Next]_vars, Clean' PROVE Ending' /\ OneCharge' /\ Billed'
  BY DEF Once
<1>0. Ending /\ OneCharge /\ Billed
  BY IncidentsGrow DEF Once, Clean
<1>1. ASSUME NEW p \in Procs, AskToEnd(p) \/ AskToApprove(p) \/ StartSync(p)
      PROVE  Ending' /\ OneCharge' /\ Billed'
  <2>1. /\ Moves(p) /\ pc[p] = "idle" /\ pc'[p] \in {"done", "end", "approve"}
        /\ UNCHANGED <<session, paid>>
    BY <1>1, Begins DEF AskToEnd, AskToApprove, StartSync
  <2>2. QED
    BY <1>0, <2>1, LeaveOnce DEF Moving
<1>2. ASSUME NEW p \in Procs, Step(p) PROVE Ending' /\ OneCharge' /\ Billed'
  <2>1. CASE MarkProcessed(p)
    <3>1. Moves(p) /\ pc[p] = "mark" /\ pc'[p] \in {"done", "end", "approve"} /\ UNCHANGED <<session, paid>>
      BY <2>1, MarkLeaves DEF MarkProcessed
    <3>2. QED
      BY <1>0, <3>1, LeaveOnce DEF Moving
  <2>2. CASE LoadToEnd(p) \/ SaveEnd(p) \/ LoadToApprove(p) \/ SaveApproval(p)
    BY <1>0, <2>2, LoadToEndOnce, SaveEndOnce, LoadToApproveOnce, SaveApprovalOnce
  <2>3. CASE Debit(p) \/ Credit(p) \/ SaveCharge(p)
    BY <1>0, <2>3, DebitOnce, CreditOnce, SaveChargeOnce
  <2>4. QED
    BY <1>2, <2>1, <2>2, <2>3 DEF Step
<1>3. ASSUME NEW p \in Procs, Die(p) PROVE Ending' /\ OneCharge' /\ Billed'
  <2>1. Moves(p) /\ pc'[p] = "dead" /\ UNCHANGED <<session, paid>>
    BY <1>3, DieTyped DEF Die
  <2>2. pc[p] \notin Moving
    BY <1>3 DEF Die, Note, When, Clean, Moving
  <2>3. QED
    BY <1>0, <2>1, <2>2, LeaveOnce
<1>4. CASE (\E kind \in Kinds : Enqueue(kind)) \/ Tick \/ UNCHANGED vars
  <2>1. UNCHANGED <<session, paid, pc, copy>>
    BY <1>4 DEF Enqueue, Tick, vars
  <2>2. QED
    BY <1>0, <2>1 DEF Ending, OneCharge, Billed, Charging, NobodyMoves, Bill
<1>5. QED
  BY <1>1, <1>2, <1>3, <1>4 DEF Next

(* A session is charged once, for what it costs, to the call that marks    *)
(* it, for any number of ends, approvals and syncs (sessions.js:18-47).    *)
THEOREM ChargedOnce == Spec => []ChargedWhatItCost
<1>1. Typed /\ Once => ChargedWhatItCost
  BY DEF Once, Billed, Clean, ChargedWhatItCost
<1>2. QED
  BY <1>1, InitTyped, InitOnce, TypedInductive, OnceInductive, PTL DEF Spec

-----------------------------------------------------------------------------
(* As long as no two ends overlap, a session that has ended costs what it  *)
(* costs.                                                                  *)
Single ==
  /\ \A p \in Procs : pc[p] = "save end" => session.endedAt = None /\ copy[p].amount = 0
  /\ \A p, q \in Procs : pc[p] = "save end" /\ pc[q] = "save end" => p = q
  /\ session.endedAt = None => session.amount = 0

Settled      == session.endedAt # None /\ (session.amount = 0 \/ session.charged)
Approving    == {"save approval", "debit", "credit", "save charge"}
EndBefore(f) == \E e \in DOMAIN queue \ failed : e < f /\ queue[e] = "end"
Current      == \A p \in Procs : pc[p] \in Approving /\ copy[p].charged => session.charged

(* A sync is at the kind of event that it has before it; the ends it has   *)
(* left behind have ended the session or failed; and with such an end      *)
(* before it, an approval sees what the session costs and settles it.      *)
At(s) ==
  /\ pc[s] \in {"end", "save end"} => queue[Upcoming(todo[s])] = "end"
  /\ pc[s] \in {"approve"} \cup Approving => queue[Upcoming(todo[s])] # "end"
  /\ pc[s] = "mark" /\ queue[Upcoming(todo[s])] = "end" => session.endedAt # None
  /\ \A e \in DOMAIN queue \ failed : \A f \in todo[s] :
       e < f /\ queue[e] = "end" /\ e \notin todo[s] => session.endedAt # None
  /\ pc[s] \in Approving /\ EndBefore(Upcoming(todo[s])) =>
       session.endedAt # None /\ session.amount = copy[s].amount
  /\ pc[s] = "mark" /\ queue[Upcoming(todo[s])] = "approve" /\ EndBefore(Upcoming(todo[s])) => Settled

(* And so have the events that are processed.                              *)
Processed ==
  /\ \A e \in processed : queue[e] = "end" => session.endedAt # None
  /\ \A f \in processed \ failed : queue[f] = "approve" /\ EndBefore(f) => Settled

InOrder == Single /\ Current /\ Processed /\ \A s \in Syncs : At(s)

LEMMA InitInOrder == Init => InOrder
<1> SUFFICES ASSUME Init PROVE InOrder
  OBVIOUS
<1>1. session.endedAt = None /\ session.amount = 0 /\ processed = {} /\ \A p \in Procs : pc[p] = "idle"
  BY DEF Init, Blank
<1>2. Single /\ Current /\ Processed
  BY <1>1 DEF Single, Current, Processed, Approving
<1>3. \A s \in Syncs : At(s)
  BY <1>1, Kinds3 DEF Init, At, Approving
<1>4. QED
  BY <1>2, <1>3 DEF InOrder

(* What any step does to the session, and to the failures.                 *)
Grows == /\ session.endedAt # None => session'.endedAt # None /\ session'.amount = session.amount
         /\ session.charged => session'.charged
         /\ failed \subseteq failed'

LEMMA SettledStays == ASSUME Settled, Grows PROVE Settled'
  BY DEF Settled, Grows

LEMMA FailedGrows == ASSUME NEW p, Raise(p) \/ Return(p) PROVE failed \subseteq failed'
  BY DEF Raise, Return

LEMMA OthersKeep ==
  ASSUME Grows, UNCHANGED queue, NEW p \in Procs, Moves(p), NEW s \in Syncs \ {p}, At(s) PROVE At(s)'
<1>1. pc'[s] = pc[s] /\ copy'[s] = copy[s] /\ todo'[s] = todo[s]
  BY Kinds3 DEF Moves
<1>2. EndBefore(Upcoming(todo[s]))' => EndBefore(Upcoming(todo[s]))
  BY <1>1 DEF Grows, EndBefore
<1>3. Settled => Settled'
  BY SettledStays
<1>4. \A e \in DOMAIN queue' \ failed' : \A f \in todo'[s] :
        e < f /\ queue'[e] = "end" /\ e \notin todo'[s] => session'.endedAt # None
  BY <1>1 DEF At, Grows
<1>5. pc'[s] \in Approving /\ EndBefore(Upcoming(todo[s]))' =>
        session'.endedAt # None /\ session'.amount = copy'[s].amount
  <2> SUFFICES ASSUME pc'[s] \in Approving, EndBefore(Upcoming(todo[s]))'
               PROVE  session'.endedAt # None /\ session'.amount = copy'[s].amount
    OBVIOUS
  <2>1. session.endedAt # None /\ session.amount = copy[s].amount
    BY <1>1, <1>2 DEF At
  <2>2. QED
    BY <1>1, <2>1 DEF Grows
<1>6. QED
  BY <1>1, <1>2, <1>3, <1>4, <1>5 DEF At, Grows

(* A sync that has no event any more, or goes on to the next one.          *)
LEMMA AdvanceKeeps ==
  ASSUME Typed, NEW s \in Syncs, pc[s] \notin {"idle", "done"}, Advance(s), UNCHANGED queue, Grows, At(s),
         \/ Upcoming(todo[s]) \in failed'
         \/ queue[Upcoming(todo[s])] = "end" => session.endedAt # None
  PROVE  At(s)'
<1> DEFINE e == Upcoming(todo[s])
           rest == todo[s] \ {e}
<1>1. todo'[s] = rest /\ pc'[s] = Enter(rest)
  <2>1. todo' = [todo EXCEPT ![s] = rest] /\ pc' = [pc EXCEPT ![s] = Enter(rest)]
    BY DEF Advance, Goto
  <2> HIDE DEF rest
  <2>2. QED
    BY <2>1, Kinds3 DEF Typed, CallType
<1>2. /\ pc'[s] = "end" => queue'[Upcoming(todo'[s])] = "end"
      /\ pc'[s] = "approve" => queue'[Upcoming(todo'[s])] # "end"
      /\ pc'[s] \in {"done", "end", "approve"}
  BY <1>1 DEF Enter
<1>3. \A d \in DOMAIN queue' \ failed' : \A f \in todo'[s] :
        d < f /\ queue'[d] = "end" /\ d \notin todo'[s] => session'.endedAt # None
  <2> SUFFICES ASSUME NEW d \in DOMAIN queue \ failed', NEW f \in rest, d < f, queue[d] = "end", d \notin rest
               PROVE  session'.endedAt # None
    BY <1>1
  <2>1. CASE d \in todo[s]
    BY <2>1 DEF Grows
  <2>2. CASE d \notin todo[s]
    BY <2>2 DEF At, Grows
  <2>3. QED
    BY <2>1, <2>2
<1>4. QED
  BY <1>2, <1>3 DEF At, Approving

(* A sync that stays with its event.                                       *)
LEMMA StayKeeps ==
  ASSUME NEW s \in Syncs, UNCHANGED queue, todo'[s] = todo[s], Grows, At(s), NEW to, pc'[s] = to,
         to \in {"end", "save end"} => queue[Upcoming(todo[s])] = "end",
         to \in {"approve"} \cup Approving => queue[Upcoming(todo[s])] # "end",
         to = "mark" /\ queue[Upcoming(todo[s])] = "end" => session'.endedAt # None,
         to \in Approving /\ EndBefore(Upcoming(todo[s])) =>
           session'.endedAt # None /\ session'.amount = copy'[s].amount,
         to = "mark" /\ queue[Upcoming(todo[s])] = "approve" /\ EndBefore(Upcoming(todo[s])) => Settled'
  PROVE  At(s)'
<1>1. EndBefore(Upcoming(todo[s]))' => EndBefore(Upcoming(todo[s]))
  BY DEF Grows, EndBefore
<1>2. \A e \in DOMAIN queue' \ failed' : \A f \in todo'[s] :
        e < f /\ queue'[e] = "end" /\ e \notin todo'[s] => session'.endedAt # None
  BY DEF At, Grows
<1>3. QED
  BY <1>1, <1>2 DEF At

LEMMA SameProcessed ==
  ASSUME Processed, Grows, UNCHANGED <<queue, processed>> PROVE Processed'
<1>1. \A f : EndBefore(f)' => EndBefore(f)
  BY DEF Grows, EndBefore
<1>2. QED
  BY <1>1, SettledStays DEF Processed, Grows

LEMMA RaiseKeeps ==
  ASSUME Typed, NEW p \in Procs, pc[p] \notin {"idle", "done"}, Raise(p), UNCHANGED queue, Grows,
         \A s \in Syncs : At(s)
  PROVE  \A s \in Syncs : At(s)'
<1>1. Moves(p)
  BY RaiseTyped
<1>2. p \in Syncs => At(p)'
  <2> SUFFICES ASSUME p \in Syncs PROVE At(p)'
    OBVIOUS
  <2>1. Advance(p) /\ Upcoming(todo[p]) \in failed'
    BY DEF Raise
  <2>2. QED
    BY <2>1, AdvanceKeeps
<1>3. QED
  BY <1>1, <1>2, OthersKeep
LEMMA UpcomingIs ==
  ASSUME Typed, NEW s \in Syncs, pc[s] \notin {"idle", "done"}
  PROVE  /\ Upcoming(todo[s]) \in todo[s] /\ Upcoming(todo[s]) \in DOMAIN queue
         /\ DOMAIN queue \subseteq Nat /\ todo[s] \subseteq DOMAIN queue
         /\ \A f \in todo[s] : Upcoming(todo[s]) <= f
<1>1. DOMAIN queue \subseteq Nat /\ todo[s] \subseteq DOMAIN queue /\ todo[s] # {}
  BY DEF Typed, CallType, QueueType
<1>2. QED
  BY <1>1, FirstIs DEF Upcoming

LEMMA ReturnKeeps ==
  ASSUME Typed, NEW p \in Procs, pc[p] \notin {"idle", "done"}, Return(p), UNCHANGED queue, Grows,
         \A s \in Syncs : At(s),
         p \in Syncs => /\ queue[Upcoming(todo[p])] = "end" => session'.endedAt # None
                        /\ queue[Upcoming(todo[p])] = "approve" /\ EndBefore(Upcoming(todo[p])) => Settled'
  PROVE  \A s \in Syncs : At(s)'
<1>1. Moves(p)
  BY ReturnTyped
<1>2. p \in Syncs => At(p)'
  <2> SUFFICES ASSUME p \in Syncs PROVE At(p)'
    OBVIOUS
  <2>1. pc'[p] = "mark" /\ todo' = todo
    BY DEF Return, Goto, Typed, CallType
  <2>2. QED
    BY <2>1, StayKeeps DEF Approving
<1>3. QED
  BY <1>1, <1>2, OthersKeep

(* A step of a call that keeps what the session costs and when it ended.   *)
LEMMA CallKeeps ==
  ASSUME InOrder, NEW p \in Procs, Moves(p), UNCHANGED <<queue, processed>>, failed \subseteq failed',
         session' \in {session, [session EXCEPT !.approved = TRUE], [session EXCEPT !.charged = TRUE]},
         session \in Sessions,
         pc'[p] # "save end",
         pc'[p] \in Approving /\ copy'[p].charged => session'.charged,
         Grows => \A s \in Syncs : At(s)'
  PROVE  InOrder'
<1>1. session'.endedAt = session.endedAt /\ session'.amount = session.amount
      /\ (session.charged => session'.charged)
  BY DEF Sessions
<1>2. Grows
  BY <1>1 DEF Grows
<1>3. Single' /\ Current'
  <2>1. \A q \in Procs : pc'[q] = "save end" => pc[q] = "save end" /\ copy'[q] = copy[q]
    BY DEF Moves
  <2>2. Single'
    BY <1>1, <2>1, Zenon DEF InOrder, Single
  <2>3. \A q \in Procs \ {p} : pc'[q] \in Approving /\ copy'[q].charged => session'.charged
    BY <1>1, Zenon DEF InOrder, Current, Moves
  <2>4. QED
    BY <2>2, <2>3, Zenon DEF Current
<1>4. Processed'
  BY <1>2, SameProcessed DEF InOrder
<1>5. QED
  BY <1>2, <1>3, <1>4 DEF InOrder

LEMMA BeginInOrder ==
  ASSUME Typed, InOrder, NEW p \in Procs, AskToEnd(p) \/ AskToApprove(p) \/ StartSync(p)
  PROVE  InOrder'
<1>1. Moves(p) /\ pc'[p] \in {"done", "end", "approve"}
      /\ UNCHANGED <<queue, processed, failed, session, copy>>
  BY Begins DEF AskToEnd, AskToApprove, StartSync
<1>2. Grows
  BY <1>1 DEF Grows
<1>3. p \in Syncs => At(p)'
  <2> SUFFICES ASSUME p \in Syncs PROVE At(p)'
    OBVIOUS
  <2> DEFINE pending == DOMAIN queue \ processed
  <2>1. todo' = [todo EXCEPT ![p] = pending] /\ pc' = [pc EXCEPT ![p] = Enter(pending)]
    BY CallersAssumption DEF AskToEnd, AskToApprove, StartSync, Goto
  <2>2. todo'[p] = pending /\ pc'[p] = Enter(pending)
    <3> HIDE DEF pending
    <3>1. QED
      BY <2>1 DEF Typed, CallType
  <2>3. /\ pc'[p] = "end" => queue'[Upcoming(todo'[p])] = "end"
        /\ pc'[p] = "approve" => queue'[Upcoming(todo'[p])] # "end"
    BY <1>1, <2>2 DEF Enter
  <2>4. \A e \in DOMAIN queue' \ failed' : \A f \in todo'[p] :
          e < f /\ queue'[e] = "end" /\ e \notin todo'[p] => session'.endedAt # None
    BY <1>1, <2>2 DEF InOrder, Processed
  <2>5. QED
    BY <1>1, <2>3, <2>4 DEF At, Approving
<1>4. \A s \in Syncs : At(s)'
  BY <1>1, <1>2, <1>3, OthersKeep DEF InOrder
<1>5. QED
  BY <1>1, <1>4, CallKeeps DEF Approving, Typed, DocType

LEMMA LoadToEndInOrder ==
  ASSUME Typed, InOrder, NEW p \in Procs, LoadToEnd(p), "twice" \notin incidents' PROVE InOrder'
<1>1. pc[p] = "end" /\ UNCHANGED <<queue, processed, session>> /\ session \in Sessions
  BY DEF LoadToEnd, Typed, DocType
<1>2. CASE Raise(p)
  <2>1. Moves(p) /\ pc'[p] \in {"done", "end", "approve"} /\ failed \subseteq failed'
    BY <1>1, <1>2, RaiseTyped, FailedGrows
  <2>2. Grows => \A s \in Syncs : At(s)'
    BY <1>1, <1>2, RaiseKeeps DEF InOrder
  <2>3. QED
    BY <1>1, <2>1, <2>2, CallKeeps DEF Approving
<1>3. CASE Return(p) /\ session.endedAt # None
  <2>1. Moves(p) /\ pc'[p] \in {"done", "mark"} /\ failed \subseteq failed'
    BY <1>1, <1>3, ReturnTyped, FailedGrows
  <2>2. Grows => \A s \in Syncs : At(s)'
    <3>1. p \in Syncs => queue[Upcoming(todo[p])] = "end"
      BY <1>1 DEF InOrder, At
    <3>2. QED
      BY <1>1, <1>3, <3>1, ReturnKeeps DEF InOrder
  <2>3. QED
    BY <1>1, <2>1, <2>2, CallKeeps DEF Approving
<1>4. CASE ~Raise(p) /\ session.endedAt = None
  <2>1. /\ copy' = [copy EXCEPT ![p] = [session EXCEPT !.endedAt = clock]]
        /\ Goto(p, "save end") /\ UNCHANGED <<todo, failed>>
        /\ Note(When("twice", \E q \in Procs \ {p} : pc[q] = "save end"))
    BY <1>4 DEF LoadToEnd
  <2>2. [session EXCEPT !.endedAt = clock] \in Sessions /\ [session EXCEPT !.endedAt = clock].endedAt \in Moments
    BY DEF Typed, DocType, Sessions
  <2>3. Moves(p) /\ pc'[p] = "save end" /\ copy'[p] = [session EXCEPT !.endedAt = clock]
    BY <1>1, <2>1, <2>2, Loads
  <2>4. \A q \in Procs \ {p} : pc[q] # "save end"
    BY <2>1 DEF Note, When
  <2>5. copy'[p].amount = session.amount
    BY <1>1, <2>3 DEF Sessions
  <2>6. Single' /\ Current'
    <3>1. session.amount = 0
      BY <1>4 DEF InOrder, Single
    <3>2. \A q \in Procs : pc'[q] = "save end" => q = p
      BY <2>3, <2>4 DEF Moves
    <3>3. Single'
      BY <1>1, <1>4, <2>5, <3>1, <3>2 DEF Single
    <3>4. Current'
      BY <1>1, <2>3, Zenon DEF InOrder, Current, Moves, Approving
    <3>5. QED
      BY <3>3, <3>4
  <2>7. Grows
    BY <1>1, <2>1 DEF Grows
  <2>8. p \in Syncs => At(p)'
    BY <1>1, <2>1, <2>3, <2>7, StayKeeps DEF InOrder, At, Approving
  <2>9. QED
    BY <1>1, <2>3, <2>6, <2>7, <2>8, OthersKeep, SameProcessed DEF InOrder
<1>5. QED
  BY <1>2, <1>3, <1>4 DEF LoadToEnd

LEMMA SaveEndInOrder == ASSUME Typed, InOrder, NEW p \in Procs, SaveEnd(p) PROVE InOrder'
<1>1. /\ pc[p] = "save end" /\ UNCHANGED <<queue, processed>> /\ session' \in {session, Ended(p)}
      /\ Raise(p) \/ (Return(p) /\ session' = Ended(p))
  BY DEF SaveEnd
<1>2. session.endedAt = None /\ \A q \in Procs \ {p} : pc[q] # "save end"
  BY <1>1 DEF InOrder, Single
<1>3. Ended(p).endedAt # None /\ Ended(p).charged = session.charged
  BY <1>1, Kinds3 DEF Ended, Typed, DocType, Shape, Sessions
<1>4. Moves(p) /\ pc'[p] \in {"done", "end", "approve", "mark"} /\ failed \subseteq failed'
  BY <1>1, Leaves, FailedGrows
<1>5. Grows
  BY <1>1, <1>2, <1>3, <1>4 DEF Grows
<1>6. Single'
  <2>1. \A q \in Procs : pc'[q] # "save end"
    BY <1>2, <1>4 DEF Moves
  <2>2. QED
    BY <1>1, <1>3, <2>1 DEF InOrder, Single
<1>7. Current'
  BY <1>4, <1>5 DEF InOrder, Current, Moves, Approving, Grows
<1>8. \A s \in Syncs : At(s)'
  <2>1. CASE Raise(p)
    BY <1>1, <1>5, <2>1, RaiseKeeps DEF InOrder
  <2>2. CASE Return(p) /\ session' = Ended(p)
    <3>1. p \in Syncs => queue[Upcoming(todo[p])] = "end"
      BY <1>1 DEF InOrder, At
    <3>2. QED
      BY <1>1, <1>3, <1>5, <2>2, <3>1, ReturnKeeps DEF InOrder
  <2>3. QED
    BY <1>1, <2>1, <2>2
<1>9. QED
  BY <1>1, <1>5, <1>6, <1>7, <1>8, SameProcessed DEF InOrder
LEMMA LoadToApproveInOrder ==
  ASSUME Typed, InOrder, NEW p \in Procs, LoadToApprove(p) PROVE InOrder'
<1>1. pc[p] = "approve" /\ UNCHANGED <<queue, processed, session>> /\ session \in Sessions
  BY DEF LoadToApprove, Typed, DocType
<1>2. CASE Raise(p)
  <2>1. Moves(p) /\ pc'[p] \in {"done", "end", "approve"} /\ failed \subseteq failed'
    BY <1>1, <1>2, RaiseTyped, FailedGrows
  <2>2. Grows => \A s \in Syncs : At(s)'
    BY <1>1, <1>2, RaiseKeeps DEF InOrder
  <2>3. QED
    BY <1>1, <2>1, <2>2, CallKeeps DEF Approving
<1>3. CASE ~Raise(p)
  <2>1. /\ copy' = [copy EXCEPT ![p] = [session EXCEPT !.approved = TRUE]]
        /\ Goto(p, "save approval") /\ UNCHANGED <<todo, failed>>
    BY <1>3 DEF LoadToApprove
  <2>2. [session EXCEPT !.approved = TRUE] \in Sessions
    BY DEF Typed, DocType, Sessions
  <2>3. Moves(p) /\ pc'[p] = "save approval" /\ copy'[p] = [session EXCEPT !.approved = TRUE]
    BY <1>1, <2>1, <2>2, Loads
  <2>4. copy'[p].amount = session'.amount /\ copy'[p].charged = session'.charged
    BY <1>1, <2>3 DEF Sessions
  <2>5. p \in Syncs /\ EndBefore(Upcoming(todo[p])) => session'.endedAt # None
    <3> SUFFICES ASSUME p \in Syncs, NEW e \in DOMAIN queue \ failed, e < Upcoming(todo[p]), queue[e] = "end"
                 PROVE  session.endedAt # None
      BY <1>1 DEF EndBefore
    <3>1. Upcoming(todo[p]) \in todo[p] /\ e \notin todo[p]
      BY <1>1, UpcomingIs
    <3>2. QED
      BY <3>1 DEF InOrder, At
  <2>6. Grows => (p \in Syncs => At(p)')
    BY <1>1, <2>1, <2>3, <2>4, <2>5, StayKeeps DEF InOrder, At, Approving
  <2>7. Grows => \A s \in Syncs : At(s)'
    BY <1>1, <2>3, <2>6, OthersKeep DEF InOrder
  <2>8. QED
    BY <1>1, <2>1, <2>3, <2>4, <2>7, CallKeeps
<1>4. QED
  BY <1>2, <1>3

(* The steps after it, which leave the event or go on with it.             *)
LEMMA ChargeKeeps ==
  ASSUME Typed, InOrder, NEW p \in Procs, pc[p] \in Approving, UNCHANGED <<queue, processed>>,
         session' \in {session, [session EXCEPT !.approved = TRUE], [session EXCEPT !.charged = TRUE]},
         \/ Raise(p)
         \/ /\ Return(p)
            /\ p \in Syncs /\ EndBefore(Upcoming(todo[p])) => session'.amount = 0 \/ session'.charged
         \/ \E to \in {"debit", "credit", "save charge"} : Goto(p, to) /\ UNCHANGED <<copy, todo, failed>>
  PROVE  InOrder'
<1>1. pc[p] \notin {"idle", "done"} /\ session \in Sessions
  BY DEF Approving, Typed, DocType
<1>2. /\ session'.endedAt = session.endedAt /\ session'.amount = session.amount
      /\ session.charged => session'.charged
  BY <1>1 DEF Sessions
<1>3. CASE Raise(p)
  <2>1. Moves(p) /\ pc'[p] \in {"done", "end", "approve"} /\ failed \subseteq failed'
    BY <1>1, <1>3, RaiseTyped, FailedGrows
  <2>2. Grows => \A s \in Syncs : At(s)'
    BY <1>1, <1>3, RaiseKeeps DEF InOrder
  <2>3. QED
    BY <1>1, <2>1, <2>2, CallKeeps DEF Approving
<1>4. CASE /\ Return(p)
           /\ p \in Syncs /\ EndBefore(Upcoming(todo[p])) => session'.amount = 0 \/ session'.charged
  <2>1. Moves(p) /\ pc'[p] \in {"done", "mark"} /\ failed \subseteq failed'
    BY <1>1, <1>4, ReturnTyped, FailedGrows
  <2>2. Grows => \A s \in Syncs : At(s)'
    <3>1. p \in Syncs => /\ queue[Upcoming(todo[p])] # "end"
                         /\ EndBefore(Upcoming(todo[p])) => session.endedAt # None
      BY DEF InOrder, At
    <3>2. p \in Syncs /\ EndBefore(Upcoming(todo[p])) => Settled'
      BY <1>2, <1>4, <3>1 DEF Settled
    <3>3. QED
      BY <1>1, <1>4, <3>1, <3>2, ReturnKeeps DEF InOrder
  <2>3. QED
    BY <1>1, <2>1, <2>2, CallKeeps DEF Approving
<1>5. ASSUME NEW to \in {"debit", "credit", "save charge"}, Goto(p, to), UNCHANGED <<copy, todo, failed>>
      PROVE  InOrder'
  <2>1. Moves(p) /\ pc'[p] = to /\ copy'[p] = copy[p]
    BY <1>1, <1>5, StaysOn
  <2>2. Grows => (p \in Syncs => At(p)')
    BY <1>2, <1>5, <2>1, StayKeeps DEF InOrder, At, Approving
  <2>3. Grows => \A s \in Syncs : At(s)'
    BY <2>1, <2>2, OthersKeep DEF InOrder
  <2>4. copy'[p].charged => session'.charged
    BY <1>2, <2>1 DEF InOrder, Current
  <2>5. QED
    BY <1>1, <1>5, <2>1, <2>3, <2>4, CallKeeps
<1>6. QED
  BY <1>3, <1>4, <1>5

LEMMA ChargeInOrder ==
  ASSUME Typed, InOrder, NEW p \in Procs, SaveApproval(p) \/ Debit(p) \/ Credit(p) \/ SaveCharge(p)
  PROVE  InOrder'
<1>1. CASE SaveApproval(p)
  <2>1. /\ pc[p] \in Approving /\ UNCHANGED <<queue, processed>>
        /\ session' \in {session, [session EXCEPT !.approved = TRUE]}
    BY <1>1 DEF SaveApproval, Approving
  <2>2. ASSUME Return(p), session' = [session EXCEPT !.approved = TRUE], ~WillCharge(copy[p]), p \in Syncs,
               EndBefore(Upcoming(todo[p]))
        PROVE  session'.amount = 0 \/ session'.charged
    <3>1. copy[p].amount = 0 \/ copy[p].charged
      BY <2>2 DEF Typed, CallType, Sessions, WillCharge
    <3>2. session.amount = 0 \/ session.charged
      BY <2>1, <2>2, <3>1 DEF InOrder, At, Current
    <3>3. session \in Sessions
      BY DEF Typed, DocType
    <3>4. QED
      BY <2>2, <3>2, <3>3 DEF Sessions
  <2>3. QED
    BY <1>1, <2>1, <2>2, ChargeKeeps DEF SaveApproval
<1>2. CASE Debit(p)
  <2>1. pc[p] \in Approving /\ UNCHANGED <<queue, processed, session>>
    BY <1>2 DEF Debit, Approving
  <2>2. Raise(p) \/ (Goto(p, "credit") /\ UNCHANGED <<copy, todo, failed>>)
    BY <1>2, Zenon DEF Debit
  <2>3. QED
    BY <2>1, <2>2, ChargeKeeps
<1>3. CASE Credit(p)
  <2>1. pc[p] \in Approving /\ UNCHANGED <<queue, processed, session>>
    BY <1>3 DEF Credit, Approving
  <2>2. Raise(p) \/ (Goto(p, "save charge") /\ UNCHANGED <<copy, todo, failed>>)
    BY <1>3, Zenon DEF Credit
  <2>3. QED
    BY <2>1, <2>2, ChargeKeeps
<1>4. CASE SaveCharge(p)
  <2>1. /\ pc[p] \in Approving /\ UNCHANGED <<queue, processed>>
        /\ session' \in {session, [session EXCEPT !.charged = TRUE]}
        /\ Raise(p) \/ (Return(p) /\ session' = [session EXCEPT !.charged = TRUE])
    BY <1>4 DEF SaveCharge, Approving
  <2>2. [session EXCEPT !.charged = TRUE].charged
    BY DEF Typed, DocType, Sessions
  <2>3. QED
    BY <2>1, <2>2, ChargeKeeps
<1>5. QED
  BY <1>1, <1>2, <1>3, <1>4

LEMMA MarkInOrder == ASSUME Typed, InOrder, NEW p \in Procs, MarkProcessed(p) PROVE InOrder'
<1> DEFINE e == Upcoming(todo[p])
<1>1. /\ p \in Syncs /\ pc[p] = "mark" /\ UNCHANGED <<queue, session>>
      /\ processed' \subseteq processed \cup {e}
      /\ Raise(p) \/ (Advance(p) /\ UNCHANGED failed)
  BY DEF MarkProcessed, Typed, Shape
<1>2. Moves(p) /\ pc'[p] \in {"done", "end", "approve"} /\ copy'[p] \in {copy[p], Blank}
  BY MarkLeaves
<1>3. failed \subseteq failed'
  BY <1>1, FailedGrows
<1>4. Grows
  BY <1>1, <1>3 DEF Grows
<1>5. /\ queue[e] = "end" => session.endedAt # None
      /\ queue[e] = "approve" /\ EndBefore(e) => Settled
  BY <1>1 DEF InOrder, At
<1>6. Single' /\ Current'
  <2>1. \A q \in Procs : pc'[q] = "save end" => pc[q] = "save end" /\ copy'[q] = copy[q]
    BY <1>2 DEF Moves
  <2>2. Single'
    BY <1>1, <2>1, Zenon DEF InOrder, Single
  <2>3. \A q \in Procs \ {p} : pc'[q] \in Approving /\ copy'[q].charged => session'.charged
    BY <1>1, <1>2, Zenon DEF InOrder, Current, Moves
  <2>4. pc'[p] \notin Approving
    BY <1>2 DEF Approving
  <2>5. QED
    BY <2>2, <2>3, <2>4, Zenon DEF Current
<1>7. Processed'
  <2>1. \A f : EndBefore(f)' => EndBefore(f)
    BY <1>1, <1>4 DEF Grows, EndBefore
  <2>2. \A d \in processed' : queue'[d] = "end" => session'.endedAt # None
    BY <1>1, <1>5 DEF InOrder, Processed
  <2>3. ASSUME NEW f \in processed' \ failed', queue'[f] = "approve", EndBefore(f)' PROVE Settled'
    <3>1. Settled
      BY <1>1, <1>3, <1>5, <2>1, <2>3 DEF InOrder, Processed
    <3>2. QED
      BY <1>4, <3>1, SettledStays
  <2>4. QED
    BY <2>2, <2>3 DEF Processed
<1>8. At(p)'
  <2>1. Advance(p) /\ (e \in failed' \/ (queue[e] = "end" => session.endedAt # None))
    BY <1>1, <1>5 DEF Raise
  <2>2. QED
    BY <1>1, <1>4, <2>1, AdvanceKeeps DEF InOrder
<1>9. \A s \in Syncs : At(s)'
  BY <1>1, <1>2, <1>4, <1>8, OthersKeep DEF InOrder
<1>10. QED
  BY <1>6, <1>7, <1>9 DEF InOrder

LEMMA DieInOrder == ASSUME Typed, InOrder, NEW p \in Procs, Die(p) PROVE InOrder'
<1>1. Moves(p) /\ pc'[p] = "dead" /\ UNCHANGED <<queue, processed, session, failed, todo>>
  BY DieTyped DEF Die
<1>2. Grows
  BY <1>1 DEF Grows
<1>3. p \in Syncs => At(p)'
  BY <1>1, <1>2, StayKeeps DEF InOrder, Approving
<1>4. \A s \in Syncs : At(s)'
  BY <1>1, <1>2, <1>3, OthersKeep DEF InOrder
<1>5. QED
  BY <1>1, <1>4, CallKeeps DEF Typed, DocType, Approving

(* A new event is behind all that there are.                               *)
LEMMA EnqueueInOrder == ASSUME Typed, InOrder, NEW kind \in Kinds, Enqueue(kind) PROVE InOrder'
<1>1. PICK n \in 0 .. QueueLimit - 1 :
        /\ DOMAIN queue = 1 .. n
        /\ queue' = [e \in 1 .. n + 1 |-> IF e <= n THEN queue[e] ELSE kind]
        /\ UNCHANGED <<session, processed, pc, copy, todo, failed>>
  BY DEF Enqueue
<1>2. n \in Nat /\ DOMAIN queue' = 1 .. n + 1
  BY <1>1, Kinds3
<1>3. \A e \in DOMAIN queue : queue'[e] = queue[e]
  BY <1>1, <1>2
<1>4. \A e \in DOMAIN queue' : \A f \in DOMAIN queue : e < f => e \in DOMAIN queue
  BY <1>1, <1>2
<1>5. \A f \in DOMAIN queue : EndBefore(f)' => EndBefore(f)
  BY <1>1, <1>3, <1>4 DEF EndBefore
<1>6. Single' /\ Current'
  BY <1>1, Zenon DEF InOrder, Single, Current
<1>7. processed \subseteq DOMAIN queue
  BY DEF Typed, QueueType
<1>8. Processed'
  BY <1>1, <1>3, <1>5, <1>7 DEF InOrder, Processed, Settled
<1>9. ASSUME NEW s \in Syncs PROVE At(s)'
  <2>1. todo[s] \subseteq DOMAIN queue /\ At(s)
    BY DEF Typed, CallType, InOrder
  <2>2. \A e \in DOMAIN queue' \ failed' : \A f \in todo'[s] :
          e < f /\ queue'[e] = "end" /\ e \notin todo'[s] => session'.endedAt # None
    BY <1>1, <1>3, <1>4, <2>1 DEF At
  <2>3. CASE pc[s] \in {"idle", "done"}
    BY <1>1, <2>2, <2>3 DEF At, Approving
  <2>4. CASE pc[s] \notin {"idle", "done"}
    <3>1. Upcoming(todo[s]) \in DOMAIN queue
      BY <2>4, UpcomingIs
    <3>2. QED
      BY <1>1, <1>3, <1>5, <2>1, <2>2, <3>1 DEF At, Settled, Approving
  <2>5. QED
    BY <2>3, <2>4
<1>10. QED
  BY <1>6, <1>8, <1>9 DEF InOrder

LEMMA SameInOrder ==
  ASSUME InOrder, UNCHANGED <<session, queue, processed, pc, copy, todo, failed>> PROVE InOrder'
<1>1. \A f : EndBefore(f)' => EndBefore(f)
  BY DEF EndBefore
<1>2. Single' /\ Current'
  BY Zenon DEF InOrder, Single, Current
<1>3. Processed'
  BY <1>1 DEF InOrder, Processed, Settled
<1>4. \A s \in Syncs : At(s)'
  <2> SUFFICES ASSUME NEW s \in Syncs PROVE At(s)'
    OBVIOUS
  <2>1. EndBefore(Upcoming(todo[s]))' => EndBefore(Upcoming(todo[s]))
    BY DEF EndBefore
  <2>2. QED
    BY <2>1 DEF InOrder, At, Settled, Approving
<1>5. QED
  BY <1>2, <1>3, <1>4 DEF InOrder

Orderly == "twice" \in incidents \/ InOrder

LEMMA OrderlyInductive == Typed /\ Orderly /\ [Next]_vars => Orderly'
<1> SUFFICES ASSUME Typed, Orderly, [Next]_vars, "twice" \notin incidents' PROVE InOrder'
  BY DEF Orderly
<1>0. InOrder
  BY IncidentsGrow DEF Orderly
<1>1. CASE \E p \in Procs : AskToEnd(p) \/ AskToApprove(p) \/ StartSync(p)
  BY <1>0, <1>1, BeginInOrder
<1>2. CASE \E p \in Procs : Step(p)
  BY <1>0, <1>2, LoadToEndInOrder, SaveEndInOrder, LoadToApproveInOrder, ChargeInOrder, MarkInOrder DEF Step
<1>3. CASE \E p \in Procs : Die(p)
  BY <1>0, <1>3, DieInOrder
<1>4. CASE \E kind \in Kinds : Enqueue(kind)
  BY <1>0, <1>4, EnqueueInOrder
<1>5. CASE Tick \/ UNCHANGED vars
  BY <1>0, <1>5, SameInOrder DEF Tick, vars
<1>6. QED
  BY <1>1, <1>2, <1>3, <1>4, <1>5 DEF Next

(* An offline end and a later approval charge the call, for any number of  *)
(* events, syncs and requests, if neither has failed and no two ends       *)
(* overlapped (offlineQueue.js:13-33).                                     *)
THEOREM QueueKeepsOrder == Spec => []OfflineOrderKept
<1>1. Init => Orderly
  BY InitInOrder DEF Orderly
<1>2. Typed /\ Orderly => OfflineOrderKept
  <2> SUFFICES ASSUME Typed, InOrder, NEW e \in DOMAIN queue, NEW f \in DOMAIN queue,
                      e < f, queue[e] = "end", queue[f] = "approve", {e, f} \subseteq processed \ failed
               PROVE  Settled
    BY DEF Orderly, OfflineOrderKept, Settled
  <2>1. EndBefore(f)
    BY DEF EndBefore
  <2>2. QED
    BY <2>1 DEF InOrder, Processed
<1>3. QED
  BY <1>1, <1>2, InitTyped, TypedInductive, OrderlyInductive, PTL DEF Spec
=============================================================================

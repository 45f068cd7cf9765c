---------------------------- MODULE CallSession -----------------------------
(***************************************************************************)
(* A paid call with a creator is one DMSession (packages/dm-monetization): *)
(* either side ends it, which fixes what it costs, and the creator         *)
(* approves it, which moves the coins.  Both may come over HTTP            *)
(* (api/src/routes/dm.js) or from the offline queue, whose events any      *)
(* number of syncs work off.  Every handler loads the document, awaits and *)
(* saves the fields it has changed; nothing locks the session, and the     *)
(* debit, the credit and the last save are three steps.                    *)
(* One session, from the moment it has started.                            *)
(***************************************************************************)
EXTENDS Integers

CONSTANTS
  Ends,       \* calls of POST /dm/calls/:sessionId/end
  Approvals,  \* calls of POST /dm/calls/:sessionId/approve
  Syncs,      \* calls of syncOfflineQueue
  Moments,    \* minutes after the start at which something happens
  Free,       \* DM_FREE_BUFFER_MINUTES
  Cap,        \* DM_MAX_SESSION_MINUTES
  Rate,       \* DM_CENTS_PER_MINUTE
  QueueLimit, \* bound: offline events
  FaultLimit, \* bound: database errors, movements that go wrong and deaths
  None        \* not ended

Procs    == Ends \cup Approvals \cup Syncs
Kinds    == {"end", "approve", "stranger"}  \* the last: an approval by somebody else
Sessions == [endedAt : Moments \cup {None}, amount : Nat, approved : BOOLEAN, charged : BOOLEAN]

ASSUME CallersAssumption ==
  Ends \cap Approvals = {} /\ Ends \cap Syncs = {} /\ Approvals \cap Syncs = {}
ASSUME NumbersAssumption ==
  /\ Moments \subseteq Nat /\ 0 \in Moments /\ None \notin Moments
  /\ {Free, Cap, Rate} \subseteq Nat \ {0} \* a zero in the environment means the default
  /\ QueueLimit \in Nat /\ FaultLimit \in Nat

VARIABLES
  clock,    \* minutes since startedAt
  session,  \* the DMSession
  paid,     \* history: what the user has paid, by call
  received, \* history: what the creator has received
  queue,    \* DMOfflineEvent by createdAt: their types
  processed,\* events with a processedAt
  pc,       \* the await each call is at
  copy,     \* the document it has loaded and changed
  todo,     \* events that a sync has before it
  failed,   \* history: events of which an attempt has failed
  incidents,\* history: what has gone wrong
  faults

vars == <<clock, session, paid, received, queue, processed, pc, copy, todo, failed, incidents, faults>>

Blank     == [endedAt |-> None, amount |-> 0, approved |-> FALSE, charged |-> FALSE]
Nothing   == [p \in Procs |-> 0]
Points    == {"idle", "end", "save end", "approve", "save approval", "debit", "credit",
              "save charge", "mark", "done", "dead"}
Incidents == {"twice", "overlapped", "refused", "doubtful", "halfway"}

TypeOK ==
  /\ clock \in Moments
  /\ session \in Sessions
  /\ paid \in [Procs -> Nat] /\ received \in [Procs -> Nat]
  /\ \E n \in 0 .. QueueLimit : queue \in [1 .. n -> Kinds]
  /\ processed \subseteq DOMAIN queue /\ failed \subseteq DOMAIN queue
  /\ pc \in [Procs -> Points]
  /\ copy \in [Procs -> Sessions]
  /\ todo \in [Syncs -> SUBSET DOMAIN queue]
  /\ \A s \in Syncs : todo[s] = {} <=> pc[s] \in {"idle", "done"}
  /\ incidents \subseteq Incidents
  /\ faults \in 0 .. FaultLimit

Init ==
  /\ clock = 0
  /\ session = Blank
  /\ paid = Nothing /\ received = Nothing
  /\ queue = << >> /\ processed = {} /\ failed = {}
  /\ pc = [p \in Procs |-> "idle"]
  /\ copy = [p \in Procs |-> Blank]
  /\ todo = [s \in Syncs |-> {}]
  /\ incidents = {}
  /\ faults = 0

(* computeCharge: the free minutes are off the capped ones.                *)
Charge(minutes) ==
  LET billable == (IF minutes < Cap THEN minutes ELSE Cap) - Free
  IN  IF billable > 0 THEN billable * Rate ELSE 0

Fault   == faults < FaultLimit /\ faults' = faults + 1
NoFault == UNCHANGED faults
Note(what)      == incidents' = incidents \cup what
When(what, now) == IF now THEN {what} ELSE {}
Goto(p, to)     == pc' = [pc EXCEPT ![p] = to]
Last(S)         == CHOOSE e \in S : \A f \in S : f <= e
First(S)        == CHOOSE e \in S : \A f \in S : e <= f
Forget(p)       == copy' = [copy EXCEPT ![p] = Blank]

-----------------------------------------------------------------------------
(* Mutant: newest event first.                                             *)
NewestFirst(S) == Last(S)

(* processQueue takes its events by createdAt and works off one after the  *)
(* other.                                                                  *)
Upcoming(S) == First(S)
Enter(S) == IF S = {} THEN "done" ELSE IF queue[Upcoming(S)] = "end" THEN "end" ELSE "approve"
Advance(s) ==
  LET rest == todo[s] \ {Upcoming(todo[s])}
  IN  todo' = [todo EXCEPT ![s] = rest] /\ Goto(s, Enter(rest))

(* Mutant: an error of one event ends the sync.                            *)
RaiseToCaller(p) ==
  /\ Forget(p)
  /\ Goto(p, "done")
  /\ IF p \in Syncs THEN failed' = failed \cup {Upcoming(todo[p])} ELSE UNCHANGED failed
  /\ UNCHANGED todo

(* An error is the answer of a route; a sync leaves the event for later.   *)
Raise(p) ==
  /\ Forget(p)
  /\ IF p \in Syncs
     THEN Advance(p) /\ failed' = failed \cup {Upcoming(todo[p])}
     ELSE Goto(p, "done") /\ UNCHANGED <<todo, failed>>

Return(p) ==
  /\ Forget(p)
  /\ Goto(p, IF p \in Syncs THEN "mark" ELSE "done")
  /\ UNCHANGED <<todo, failed>>

-----------------------------------------------------------------------------
(* The routes look at the session first.                                   *)
AskToEnd(p) ==
  /\ p \in Ends /\ pc[p] = "idle"
  /\ Goto(p, IF session.endedAt # None THEN "done" ELSE "end")
  /\ UNCHANGED <<clock, session, paid, received, queue, processed, copy, todo, failed, incidents, faults>>

AskToApprove(p) ==
  /\ p \in Approvals /\ pc[p] = "idle"
  /\ Goto(p, IF session.approved THEN "done" ELSE "approve")
  /\ UNCHANGED <<clock, session, paid, received, queue, processed, copy, todo, failed, incidents, faults>>

Enqueue(kind) ==
  \E n \in 0 .. QueueLimit - 1 :
    /\ DOMAIN queue = 1 .. n
    /\ queue' = [e \in 1 .. n + 1 |-> IF e <= n THEN queue[e] ELSE kind]
    /\ UNCHANGED <<clock, session, paid, received, processed, pc, copy, todo, failed, incidents, faults>>

StartSync(s) ==
  /\ s \in Syncs /\ pc[s] = "idle"
  /\ LET pending == DOMAIN queue \ processed
     IN  todo' = [todo EXCEPT ![s] = pending] /\ Goto(s, Enter(pending))
  /\ UNCHANGED <<clock, session, paid, received, queue, processed, copy, failed, incidents, faults>>

-----------------------------------------------------------------------------
(* Mutant: endSession does not look whether the session has ended.         *)
LoadToEndAgain(p) ==
  /\ pc[p] = "end"
  /\ copy' = [copy EXCEPT ![p] = [session EXCEPT !.endedAt = clock]]
  /\ Goto(p, "save end")
  /\ Note(When("twice", session.endedAt = None /\ \E q \in Procs \ {p} : pc[q] = "save end"))
  /\ NoFault /\ UNCHANGED <<todo, failed, clock, session, paid, received, queue, processed>>

(* endSession takes the time; somebody else may be about to save another.  *)
LoadToEnd(p) ==
  /\ pc[p] = "end"
  /\ \/ /\ session.endedAt # None
        /\ Return(p)
        /\ NoFault /\ UNCHANGED incidents
     \/ /\ session.endedAt = None
        /\ copy' = [copy EXCEPT ![p] = [session EXCEPT !.endedAt = clock]]
        /\ Goto(p, "save end")
        /\ Note(When("twice", \E q \in Procs \ {p} : pc[q] = "save end"))
        /\ NoFault /\ UNCHANGED <<todo, failed>>
     \/ Raise(p) /\ Fault /\ UNCHANGED incidents
  /\ UNCHANGED <<clock, session, paid, received, queue, processed>>

(* An amount that is still what was loaded is not written.                 *)
Ended(p) ==
  LET cost == Charge(copy[p].endedAt)
  IN  [session EXCEPT !.endedAt = copy[p].endedAt,
                      !.amount  = IF cost = copy[p].amount THEN @ ELSE cost]

(* A save that reports an error may have been made.                        *)
SaveEnd(p) ==
  /\ pc[p] = "save end"
  /\ \/ session' = Ended(p) /\ Return(p) /\ NoFault
     \/ session' \in {session, Ended(p)} /\ Raise(p) /\ Fault
  /\ UNCHANGED <<clock, paid, received, queue, processed, incidents>>

-----------------------------------------------------------------------------
WillCharge(doc) == doc.amount > 0 /\ ~doc.charged
Charging(p)     == pc[p] \in {"save approval", "debit", "credit", "save charge"} /\ WillCharge(copy[p])

(* approveSession; a stranger is not authorised.                           *)
LoadToApprove(p) ==
  /\ pc[p] = "approve"
  /\ \/ /\ ~(p \in Syncs /\ queue[Upcoming(todo[p])] = "stranger")
        /\ copy' = [copy EXCEPT ![p] = [session EXCEPT !.approved = TRUE]]
        /\ Goto(p, "save approval")
        /\ Note(When("overlapped", WillCharge(session) /\ \E q \in Procs \ {p} : Charging(q)))
        /\ NoFault /\ UNCHANGED <<todo, failed>>
     \/ /\ p \in Syncs /\ queue[Upcoming(todo[p])] = "stranger"
        /\ Raise(p)
        /\ NoFault /\ UNCHANGED incidents
     \/ Raise(p) /\ Fault /\ UNCHANGED incidents
  /\ UNCHANGED <<clock, session, paid, received, queue, processed>>

(* Mutant: whether it has been charged is not looked at.                   *)
SaveApprovalAndCharge(p) ==
  /\ pc[p] = "save approval"
  /\ session' = [session EXCEPT !.approved = TRUE]
  /\ IF copy[p].amount > 0 THEN Goto(p, "debit") /\ UNCHANGED <<copy, todo, failed>> ELSE Return(p)
  /\ NoFault
  /\ UNCHANGED <<clock, paid, received, queue, processed, incidents>>

SaveApproval(p) ==
  LET approved == [session EXCEPT !.approved = TRUE]
  IN  /\ pc[p] = "save approval"
      /\ \/ /\ session' = approved
            /\ IF WillCharge(copy[p]) THEN Goto(p, "debit") /\ UNCHANGED <<copy, todo, failed>>
               ELSE Return(p)
            /\ NoFault
         \/ session' \in {session, approved} /\ Raise(p) /\ Fault
      /\ UNCHANGED <<clock, paid, received, queue, processed, incidents>>

(* economy.debit and economy.credit, as in Wallet: refused, because the    *)
(* wallet is busy or has too little; or made once or twice, and told to    *)
(* have been made or not.                                                  *)
Debit(p) ==
  /\ pc[p] = "debit"
  /\ \/ /\ paid' = [paid EXCEPT ![p] = @ + copy[p].amount]
        /\ Goto(p, "credit")
        /\ NoFault /\ UNCHANGED <<copy, todo, failed, incidents>>
     \/ Raise(p) /\ Note({"refused"}) /\ NoFault /\ UNCHANGED paid
     \/ /\ \E k \in 1 .. 2 : paid' = [paid EXCEPT ![p] = @ + k * copy[p].amount]
        /\ Raise(p) \/ (Goto(p, "credit") /\ UNCHANGED <<copy, todo, failed>>)
        /\ Note({"doubtful"}) /\ Fault
  /\ UNCHANGED <<clock, session, received, queue, processed>>

(* Mutant: what the session costs by now.                                  *)
CreditLatest(p) ==
  /\ pc[p] = "credit"
  /\ received' = [received EXCEPT ![p] = @ + session.amount]
  /\ Goto(p, "save charge")
  /\ NoFault /\ UNCHANGED <<copy, todo, failed, incidents>>
  /\ UNCHANGED <<clock, session, paid, queue, processed>>

(* Nothing gives the user back its coins when the credit fails.            *)
Credit(p) ==
  /\ pc[p] = "credit"
  /\ \/ /\ received' = [received EXCEPT ![p] = @ + copy[p].amount]
        /\ Goto(p, "save charge")
        /\ NoFault /\ UNCHANGED <<copy, todo, failed, incidents>>
     \/ Raise(p) /\ Note({"halfway"}) /\ Fault /\ UNCHANGED received
     \/ /\ \E k \in 1 .. 2 : received' = [received EXCEPT ![p] = @ + k * copy[p].amount]
        /\ Raise(p) \/ (Goto(p, "save charge") /\ UNCHANGED <<copy, todo, failed>>)
        /\ Note({"doubtful"}) /\ Fault
  /\ UNCHANGED <<clock, session, paid, queue, processed>>

SaveCharge(p) ==
  LET charged == [session EXCEPT !.charged = TRUE]
  IN  /\ pc[p] = "save charge"
      /\ \/ session' = charged /\ Return(p) /\ NoFault /\ UNCHANGED incidents
         \/ session' = charged /\ Raise(p) /\ Fault /\ UNCHANGED incidents
         \/ UNCHANGED session /\ Raise(p) /\ Fault /\ Note({"halfway"})
      /\ UNCHANGED <<clock, paid, received, queue, processed>>

(* processedAt is the last thing an event gets.                            *)
MarkProcessed(s) ==
  /\ pc[s] = "mark"
  /\ \/ /\ processed' = processed \cup {Upcoming(todo[s])}
        /\ Advance(s)
        /\ NoFault /\ UNCHANGED <<copy, failed>>
     \/ /\ processed' \in {processed, processed \cup {Upcoming(todo[s])}}
        /\ Raise(s)
        /\ Fault
  /\ UNCHANGED <<clock, session, paid, received, queue, incidents>>

Tick ==
  /\ \E m \in Moments : m > clock /\ clock' = m
  /\ UNCHANGED <<session, paid, received, queue, processed, pc, copy, todo, failed, incidents, faults>>

(* The process dies; a call that has moved coins leaves them where they    *)
(* are.                                                                    *)
Die(p) ==
  /\ pc[p] \notin {"idle", "done", "dead"}
  /\ Fault
  /\ Goto(p, "dead") /\ Forget(p)
  /\ Note(When("halfway", pc[p] \in {"credit", "save charge"}))
  /\ UNCHANGED <<clock, session, paid, received, queue, processed, todo, failed>>

Step(p) ==
  \/ LoadToEnd(p) \/ SaveEnd(p)
  \/ LoadToApprove(p) \/ SaveApproval(p) \/ Debit(p) \/ Credit(p) \/ SaveCharge(p)
  \/ MarkProcessed(p)

Next ==
  \/ \E p \in Procs : AskToEnd(p) \/ AskToApprove(p) \/ StartSync(p) \/ Step(p) \/ Die(p)
  \/ \E kind \in Kinds : Enqueue(kind)
  \/ Tick

Spec == Init /\ [][Next]_vars

-----------------------------------------------------------------------------
Bill(p)     == [Nothing EXCEPT ![p] = session.amount]
NobodyMoves == \A p \in Procs : pc[p] \notin {"credit", "save charge"}

(* However ends, approvals and syncs overlap, are retried or die, the user *)
(* pays what the session costs, once, if and only if it is marked charged, *)
(* unless two ends or two charges overlapped, or a movement or what comes  *)
(* after it went wrong (sessions.js:18-47).                                *)
ChargedWhatItCost ==
  NobodyMoves /\ incidents \subseteq {"refused"} =>
    IF session.charged THEN \E p \in Procs : paid = Bill(p) ELSE paid = Nothing

(* The creator receives what the user pays, also when two ends or two      *)
(* charges overlap: both movements use the document that was loaded once   *)
(* (sessions.js:40-43).                                                    *)
CreatorGetsIt ==
  NobodyMoves /\ incidents \cap {"doubtful", "halfway"} = {} => received = paid

(* An end and a later approval from the queue charge the session, whoever  *)
(* else ends, approves or syncs, if neither event has failed once and no   *)
(* two ends overlapped; a failed end does not keep back the approval       *)
(* behind it, which then has nothing to charge (offlineQueue.js:13-33).    *)
OfflineOrderKept ==
  \A e, f \in DOMAIN queue :
    /\ e < f /\ queue[e] = "end" /\ queue[f] = "approve"
    /\ {e, f} \subseteq processed \ failed /\ "twice" \notin incidents
    => session.endedAt # None /\ (session.amount = 0 \/ session.charged)
=============================================================================

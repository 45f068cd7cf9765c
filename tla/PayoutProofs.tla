----------------------------- MODULE PayoutProofs -----------------------------
(***************************************************************************)
(* For any number of payouts, admins, clerks and faults: a payout is paid  *)
(* only if the provider was called and has returned (PaidIsSent), and money*)
(* goes both ways only where handlers have overlapped (UnracedOneWayOut).  *)
(***************************************************************************)
EXTENDS Payout, TLAPS

Busy == [op : Ops, pc : Awaits, cur : Payouts, todo : SUBSET Payouts, read : Statuses]

(* A job that has not read the payout it has taken on, or no job.          *)
Fresh(j) == j = Idle \/ j.pc \in {"check", "approve", "reject", "overwrite"}

(* c is in a handler, at one of the awaits of A, for payout p.             *)
In(c, A, p) == job[c].op # "none" /\ job[c].pc \in A /\ job[c].cur = p

(* A handler about to save paid has a completed provider call behind it.   *)
Settled == \A c \in Callers, p \in Payouts :
             In(c, {"settle"}, p) => sent[p] > 0 /\ record[p] = "completed"

(* A completed record is a payment.                                        *)
Recorded == \A p \in Payouts : record[p] = "completed" => sent[p] > 0

(* What handlers rely on between their read and their write.               *)
Reads == \A c \in Callers, p \in Payouts :
           /\ In(c, {"mark"}, p) => job[c].read \in Open
           /\ In(c, {"refuse"}, p) => job[c].read = "pending"

(* The state of an undisturbed payout: who works on it, its status and its *)
(* money agree, and one handler at most is about to pay or refund it, for  *)
(* the first time.                                                         *)
Orderly(p) ==
  /\ sent[p] # 0 => status[p] \in {"approved", "paid"} /\ sent[p] = 1
  /\ refunds[p] # 0 => status[p] = "rejected" /\ refunds[p] = 1
  /\ \A c \in Callers : In(c, {"pay", "settle"}, p) => status[p] = "approved"
  /\ \A c \in Callers : In(c, {"pay"}, p) => sent[p] = 0
  /\ \A c \in Callers : In(c, {"refund"}, p) => status[p] = "rejected" /\ refunds[p] = 0
  /\ \A c, d \in Callers :
       In(c, {"pay", "settle", "refund"}, p) /\ In(d, {"pay", "settle", "refund"}, p) => c = d

IInv ==
  /\ TypeOK
  /\ PaidIsSent
  /\ Recorded
  /\ Settled
  /\ Reads
  /\ ~raced => \A p \in Payouts : Orderly(p)

-----------------------------------------------------------------------------
(* How a handler's control moves: only its own job changes.                *)
LEMMA JobShape == ASSUME TypeOK, NEW c \in Callers
                  PROVE  job[c] = Idle \/ job[c] \in Busy
  BY DEF TypeOK, Jobs, Busy

LEMMA TakingShape ==
  ASSUME NEW op \in Ops, NEW S \in SUBSET Payouts, NEW j \in Taking(op, S)
  PROVE  j \in Jobs /\ Fresh(j)
<1>1. CASE S = {}
  BY <1>1 DEF Taking, Jobs, Fresh
<1>2. CASE S # {}
  <2>1. PICK p \in S : j = [op |-> op, pc |-> FirstAwait(op), cur |-> p, todo |-> S \ {p}, read |-> "none"]
    BY <1>2 DEF Taking
  <2>2. FirstAwait(op) \in {"check", "reject", "overwrite"}
    BY DEF FirstAwait, Ops
  <2>3. S \ {p} \in SUBSET Payouts /\ p \in Payouts
    OBVIOUS
  <2>4. "none" \in Statuses /\ FirstAwait(op) \in Awaits
    BY <2>2 DEF Statuses, Awaits
  <2>5. j \in Busy
    BY <2>1, <2>3, <2>4 DEF Busy
  <2>6. QED
    BY <2>1, <2>2, <2>5 DEF Jobs, Busy, Fresh
<1>3. QED
  BY <1>1, <1>2

(* c's job becomes j, and nobody else's changes.                           *)
Becomes(c, j) == job' \in [Callers -> Jobs] /\ job'[c] = j /\ \A d \in Callers \ {c} : job'[d] = job[d]

LEMMA Set == ASSUME TypeOK, NEW c \in Callers, NEW j \in Jobs, job' = [job EXCEPT ![c] = j]
             PROVE  Becomes(c, j)
  BY DEF TypeOK, Becomes

LEMMA Freshens ==
  ASSUME TypeOK, NEW c \in Callers, job[c] # Idle, Continue(c) \/ Abort(c)
  PROVE  \E j \in Jobs : Fresh(j) /\ Becomes(c, j)
<1>1. job[c] \in Busy
  BY JobShape
<1>2. job[c].op \in Ops /\ job[c].todo \in SUBSET Payouts
  BY <1>1 DEF Busy
<1>3. CASE Continue(c)
  <2>1. PICK j \in Taking(job[c].op, job[c].todo) : job' = [job EXCEPT ![c] = j]
    BY <1>3 DEF Continue
  <2>2. j \in Jobs /\ Fresh(j)
    BY <1>2, TakingShape
  <2>3. QED
    BY <2>1, <2>2, Set
<1>4. CASE Abort(c)
  <2>1. Idle \in Jobs /\ Fresh(Idle)
    BY DEF Jobs, Fresh
  <2>2. QED
    BY <1>4, <2>1, Set DEF Abort
<1>5. QED
  BY <1>3, <1>4

LEMMA Begins ==
  ASSUME TypeOK, NEW c \in Callers, NEW op \in Ops, NEW S \in SUBSET Payouts, Begin(c, op, S)
  PROVE  \E j \in Jobs : Fresh(j) /\ Becomes(c, j)
<1>1. PICK j \in Taking(op, S) : job' = [job EXCEPT ![c] = j]
  BY DEF Begin
<1>2. j \in Jobs /\ Fresh(j)
  BY TakingShape
<1>3. QED
  BY <1>1, <1>2, Set

LEMMA Goes ==
  ASSUME TypeOK, NEW c \in Callers, job[c] # Idle, NEW a \in Awaits, NEW s \in Statuses,
         (Goto(c, a) /\ s = job[c].read) \/ GotoWith(c, a, s)
  PROVE  /\ Becomes(c, job'[c])
         /\ job'[c].op = job[c].op /\ job'[c].cur = job[c].cur
         /\ job'[c].pc = a /\ job'[c].read = s
<1>1. job[c] \in Busy
  BY JobShape
<1>2. job' = [job EXCEPT ![c] = [job[c] EXCEPT !.pc = a, !.read = s]]
  <2>1. CASE Goto(c, a) /\ s = job[c].read
    <3>1. [job[c] EXCEPT !.pc = a] = [job[c] EXCEPT !.pc = a, !.read = s]
      BY <1>1, <2>1 DEF Busy
    <3>2. QED
      BY <2>1, <3>1 DEF Goto
  <2>2. CASE GotoWith(c, a, s)
    BY <2>2 DEF GotoWith, TypeOK
  <2>3. QED
    BY <2>1, <2>2
<1>3. [job[c] EXCEPT !.pc = a, !.read = s] \in Busy
  BY <1>1 DEF Busy
<1>4. [job[c] EXCEPT !.pc = a, !.read = s] \in Jobs
  BY <1>3 DEF Jobs, Busy
<1>5. Becomes(c, [job[c] EXCEPT !.pc = a, !.read = s])
  BY <1>2, <1>4, Set
<1>6. QED
  BY <1>1, <1>5 DEF Becomes, Busy

-----------------------------------------------------------------------------
(* Initially nothing runs and nothing has been requested.                  *)
LEMMA InitType == Init => TypeOK
<1> SUFFICES ASSUME Init PROVE TypeOK
  OBVIOUS
<1> USE DEF Init
<1>1. status \in [Payouts -> Statuses]
  BY DEF Statuses
<1>2. manual \in [Payouts -> BOOLEAN] /\ held \in [Payouts -> BOOLEAN] /\ cleared \in [Payouts -> BOOLEAN]
  OBVIOUS
<1>3. record \in [Payouts -> {"none", "completed", "failed"}] /\ sent \in [Payouts -> Nat]
  OBVIOUS
<1>4. refunds \in [Payouts -> Nat]
  OBVIOUS
<1>5. job \in [Callers -> Jobs]
  <2>1. Idle \in Jobs
    BY DEF Jobs
  <2>2. QED
    BY <2>1
<1>6. raced \in BOOLEAN /\ faults \in 0 .. MaxFaults
  <2>1. 0 \in 0 .. MaxFaults
    BY FaultsAssumption
  <2>2. QED
    BY <2>1
<1>7. QED
  BY <1>1, <1>2, <1>3, <1>4, <1>5, <1>6 DEF TypeOK

LEMMA InitIInv == Init => IInv
<1> SUFFICES ASSUME Init PROVE IInv
  OBVIOUS
<1>1. TypeOK
  BY InitType
<1>2. PaidIsSent /\ Recorded
  BY DEF Init, PaidIsSent, Recorded
<1>3. \A c \in Callers, p \in Payouts : job[c].op = "none"
  BY DEF Init, Idle
<1>4. Settled /\ Reads
  BY <1>3 DEF Settled, Reads, In
<1>5. ASSUME NEW p \in Payouts PROVE Orderly(p)
  BY <1>3 DEF Init, Orderly, In
<1>6. QED
  BY <1>1, <1>2, <1>4, <1>5 DEF IInv

-----------------------------------------------------------------------------
(* A step in which c's job becomes fresh, and no payout changes in what    *)
(* the invariant speaks of: every start, every check, every return.        *)
LEMMA FreshStep ==
  ASSUME IInv, NEW c \in Callers, NEW j \in Jobs, Fresh(j), Becomes(c, j),
         UNCHANGED <<docs, money, raced>>, faults' \in 0 .. MaxFaults
  PROVE  IInv'
<1> USE DEF IInv, docs, money
<1>1. TypeOK'
  BY DEF TypeOK, Becomes
<1>2. PaidIsSent' /\ Recorded'
  BY DEF PaidIsSent, Recorded
<1>3. ASSUME NEW d \in Callers, NEW p \in Payouts,
             In(d, {"mark", "pay", "settle", "refuse", "refund"}, p)'
      PROVE  job'[d] = job[d]
  BY <1>3 DEF In, Fresh, Becomes, Idle
<1>4. Settled'
  BY <1>3 DEF Settled, In
<1>5. Reads'
  BY <1>3 DEF Reads, In
<1>6. ASSUME ~raced', NEW p \in Payouts PROVE Orderly(p)'
  <2>1. Orderly(p)
    BY <1>6
  <2>2. QED
    BY <1>3, <2>1 DEF Orderly, In
<1>7. QED
  BY <1>1, <1>2, <1>4, <1>5, <1>6

-----------------------------------------------------------------------------
(* What c finds when it stands at an await: a payout to work on, and,      *)
(* after the step, either a fresh job or the same payout at another await. *)
LEMMA Current == ASSUME IInv, NEW c \in Callers, NEW a \in Awaits, At(c, a)
                 PROVE  /\ job[c] # Idle /\ job[c] \in Busy /\ Cur(c) \in Payouts
                        /\ job[c].read \in Statuses
                        /\ \A A : a \in A => In(c, A, Cur(c))
<1>1. job[c] # Idle
  BY DEF At, Idle
<1>2. job[c] \in Busy
  BY <1>1, JobShape DEF IInv
<1>3. QED
  BY <1>1, <1>2 DEF At, In, Cur, Busy

(* Reading a payout, to approve it.                                        *)
LEMMA ReadToApproveStep == ASSUME IInv, NEW c \in Callers, ReadToApprove(c) PROVE IInv'
<1>1. /\ job[c] # Idle /\ job[c] \in Busy /\ Cur(c) \in Payouts
  BY Current DEF ReadToApprove, Awaits
<1>2. CASE Continue(c)
  BY <1>1, <1>2, Freshens, FreshStep DEF ReadToApprove, IInv, TypeOK
<1>3. CASE status[Cur(c)] \in Open /\ GotoWith(c, "mark", status[Cur(c)])
  <2>1. /\ Becomes(c, job'[c]) /\ job'[c].op = job[c].op /\ job'[c].cur = Cur(c)
        /\ job'[c].pc = "mark" /\ job'[c].read = status[Cur(c)]
    BY <1>1, <1>3, Goes DEF IInv, TypeOK, Awaits, Cur
  <2>2. UNCHANGED <<docs, money, raced, faults>>
    BY DEF ReadToApprove
  <2> USE DEF IInv, docs, money
  <2>3. TypeOK'
    BY <2>1, <2>2 DEF TypeOK, Becomes
  <2>4. PaidIsSent' /\ Recorded'
    BY <2>2 DEF PaidIsSent, Recorded
  <2>5. Settled'
    BY <2>1, <2>2 DEF Settled, In, Becomes
  <2>6. Reads'
    BY <1>3, <2>1, <2>2 DEF Reads, In, Becomes
  <2>7. ASSUME ~raced', NEW p \in Payouts PROVE Orderly(p)'
    BY <2>1, <2>2, <2>7 DEF Orderly, In, Becomes
  <2>8. QED
    BY <2>3, <2>4, <2>5, <2>6, <2>7
<1>4. QED
  BY <1>2, <1>3 DEF ReadToApprove

(* Reading a payout, to reject it.                                         *)
LEMMA ReadToRejectStep == ASSUME IInv, NEW c \in Callers, ReadToReject(c) PROVE IInv'
<1>1. /\ job[c] # Idle /\ job[c] \in Busy /\ Cur(c) \in Payouts
  BY Current DEF ReadToReject, Awaits
<1>2. CASE Abort(c)
  BY <1>1, <1>2, Freshens, FreshStep DEF ReadToReject, IInv, TypeOK
<1>3. CASE GotoWith(c, "refuse", "pending")
  <2>1. /\ Becomes(c, job'[c]) /\ job'[c].op = job[c].op /\ job'[c].cur = Cur(c)
        /\ job'[c].pc = "refuse" /\ job'[c].read = "pending"
    BY <1>1, <1>3, Goes DEF IInv, Awaits, Statuses, Cur
  <2>2. UNCHANGED <<docs, money, raced, faults>>
    BY DEF ReadToReject
  <2> USE DEF IInv, docs, money
  <2>3. TypeOK'
    BY <2>1, <2>2 DEF TypeOK, Becomes
  <2>4. PaidIsSent' /\ Recorded'
    BY <2>2 DEF PaidIsSent, Recorded
  <2>5. Settled'
    BY <2>1, <2>2 DEF Settled, In, Becomes
  <2>6. Reads'
    BY <2>1, <2>2 DEF Reads, In, Becomes
  <2>7. ASSUME ~raced', NEW p \in Payouts PROVE Orderly(p)'
    BY <2>1, <2>2, <2>7 DEF Orderly, In, Becomes
  <2>8. QED
    BY <2>3, <2>4, <2>5, <2>6, <2>7
<1>4. QED
  BY <1>2, <1>3 DEF ReadToReject

(* The check: its two outcomes, and the approval's second look.            *)
LEMMA CheckStep == ASSUME IInv, NEW c \in Callers, Check(c) PROVE IInv'
<1>1. /\ job[c] # Idle /\ job[c] \in Busy /\ Cur(c) \in Payouts /\ job[c].read \in Statuses
  BY Current DEF Check, Awaits
<1>2. CASE Continue(c)
  BY <1>1, <1>2, Freshens, FreshStep DEF Check, IInv, TypeOK
<1>3. CASE Goto(c, IF cleared[Cur(c)] THEN "approve" ELSE "reject")
  <2>1. PICK a \in {"approve", "reject"} : Goto(c, a)
    BY <1>3
  <2>2. Becomes(c, job'[c]) /\ job'[c].pc = a
    BY <1>1, <2>1, Goes DEF IInv, Awaits
  <2>3. job'[c] \in Jobs /\ Fresh(job'[c])
    BY <2>2 DEF Becomes, Fresh
  <2>4. QED
    BY <2>2, <2>3, FreshStep DEF Check, IInv, TypeOK
<1>4. CASE Goto(c, "reject")
  <2>1. Becomes(c, job'[c]) /\ job'[c].pc = "reject"
    BY <1>1, <1>4, Goes DEF IInv, Awaits
  <2>2. job'[c] \in Jobs /\ Fresh(job'[c])
    BY <2>1 DEF Becomes, Fresh
  <2>3. QED
    BY <2>1, <2>2, FreshStep DEF Check, IInv, TypeOK
<1>5. QED
  BY <1>2, <1>3, <1>4 DEF Check

-----------------------------------------------------------------------------
(* An unraced save finds the status its handler read: no one else pays or  *)
(* refunds the payout, and its money has not moved.                        *)
LEMMA Untouched ==
  ASSUME IInv, ~raced, NEW p \in Payouts, status[p] \in Open
  PROVE  /\ sent[p] = 0 /\ refunds[p] = 0
         /\ \A c \in Callers : ~In(c, {"pay", "settle"}, p) /\ ~In(c, {"refund"}, p)
<1>1. Orderly(p)
  BY DEF IInv
<1>2. refunds[p] \in Nat /\ sent[p] \in Nat
  BY DEF IInv, TypeOK
<1>3. QED
  BY <1>1, <1>2 DEF Orderly, Open

(* Saving approved: c goes on to pay.                                      *)
LEMMA MarkApprovedStep == ASSUME IInv, NEW c \in Callers, MarkApproved(c) PROVE IInv'
<1> DEFINE q == Cur(c)
<1>1. /\ job[c] # Idle /\ job[c] \in Busy /\ q \in Payouts /\ In(c, {"mark"}, q)
  BY Current DEF MarkApproved, Awaits
<1>2. /\ Becomes(c, job'[c]) /\ job'[c].op = job[c].op /\ job'[c].cur = q /\ job'[c].pc = "pay"
  BY <1>1, Goes DEF MarkApproved, IInv, Awaits, Cur, Busy
<1>3. /\ status' = [status EXCEPT ![q] = "approved"]
      /\ raced' = (raced \/ status[q] # job[c].read)
      /\ UNCHANGED <<manual, held, cleared, record, sent, refunds, faults>>
  BY DEF MarkApproved, Save, money
<1>4. job[c].read \in Open
  BY <1>1 DEF IInv, Reads
<1> HIDE DEF q
<1>5. TypeOK'
  BY <1>1, <1>2, <1>3 DEF IInv, TypeOK, Becomes, Statuses
<1>6. PaidIsSent' /\ Recorded'
  BY <1>1, <1>3 DEF IInv, TypeOK, PaidIsSent, Recorded
<1>7. Settled'
  BY <1>2, <1>3 DEF IInv, Settled, In, Becomes
<1>8. Reads'
  BY <1>2 DEF IInv, Reads, In, Becomes
<1>9. ASSUME ~raced', NEW p \in Payouts PROVE Orderly(p)'
  <2>1. ~raced /\ status[q] \in Open
    BY <1>3, <1>4, <1>9
  <2>2. Orderly(p)
    BY <2>1 DEF IInv
  <2>3. CASE p = q
    <3>1. sent[p] = 0 /\ refunds[p] = 0 /\ \A d \in Callers : ~In(d, {"pay", "settle"}, p) /\ ~In(d, {"refund"}, p)
      BY <2>1, <2>3, <1>1, Untouched
    <3>2. status'[p] = "approved" /\ sent'[p] = 0 /\ refunds'[p] = 0
      BY <1>3, <2>3, <3>1 DEF IInv, TypeOK
    <3>3. \A d \in Callers \ {c} : ~In(d, {"pay", "settle", "refund"}, p)' /\ ~In(d, {"refund"}, p)'
      BY <1>2, <3>1 DEF In, Becomes
    <3>4. ~In(c, {"refund"}, p)'
      BY <1>2 DEF In
    <3>5. QED
      BY <3>2, <3>3, <3>4 DEF Orderly
  <2>4. CASE p # q
    BY <1>2, <1>3, <2>2, <2>4 DEF Orderly, In, Becomes, IInv, TypeOK
  <2>5. QED
    BY <2>3, <2>4
<1>10. QED
  BY <1>5, <1>6, <1>7, <1>8, <1>9 DEF IInv

(* Saving rejected: c goes on to refund.                                   *)
LEMMA MarkRejectedStep == ASSUME IInv, NEW c \in Callers, MarkRejected(c) PROVE IInv'
<1> DEFINE q == Cur(c)
<1>1. /\ job[c] # Idle /\ job[c] \in Busy /\ q \in Payouts /\ In(c, {"refuse"}, q)
  BY Current DEF MarkRejected, Awaits
<1>2. /\ Becomes(c, job'[c]) /\ job'[c].op = job[c].op /\ job'[c].cur = q /\ job'[c].pc = "refund"
  BY <1>1, Goes DEF MarkRejected, IInv, Awaits, Cur, Busy
<1>3. /\ status' = [status EXCEPT ![q] = "rejected"]
      /\ raced' = (raced \/ status[q] # job[c].read)
      /\ UNCHANGED <<manual, held, cleared, record, sent, refunds, faults>>
  BY DEF MarkRejected, Save, money
<1>4. job[c].read \in Open
  BY <1>1 DEF IInv, Reads, Open
<1> HIDE DEF q
<1>5. TypeOK'
  BY <1>1, <1>2, <1>3 DEF IInv, TypeOK, Becomes, Statuses
<1>6. PaidIsSent' /\ Recorded'
  BY <1>1, <1>3 DEF IInv, TypeOK, PaidIsSent, Recorded
<1>7. Settled'
  BY <1>2, <1>3 DEF IInv, Settled, In, Becomes
<1>8. Reads'
  BY <1>2 DEF IInv, Reads, In, Becomes
<1>9. ASSUME ~raced', NEW p \in Payouts PROVE Orderly(p)'
  <2>1. ~raced /\ status[q] \in Open
    BY <1>3, <1>4, <1>9
  <2>2. Orderly(p)
    BY <2>1 DEF IInv
  <2>3. CASE p = q
    <3>1. sent[p] = 0 /\ refunds[p] = 0 /\ \A d \in Callers : ~In(d, {"pay", "settle"}, p) /\ ~In(d, {"refund"}, p)
      BY <2>1, <2>3, <1>1, Untouched
    <3>2. status'[p] = "rejected" /\ sent'[p] = 0 /\ refunds'[p] = 0
      BY <1>3, <2>3, <3>1 DEF IInv, TypeOK
    <3>3. \A d \in Callers \ {c} : ~In(d, {"pay", "settle", "refund"}, p)' /\ ~In(d, {"pay", "settle"}, p)'
      BY <1>2, <3>1 DEF In, Becomes
    <3>4. ~In(c, {"pay", "settle"}, p)'
      BY <1>2 DEF In
    <3>5. QED
      BY <3>2, <3>3, <3>4 DEF Orderly
  <2>4. CASE p # q
    BY <1>2, <1>3, <2>2, <2>4 DEF Orderly, In, Becomes, IInv, TypeOK
  <2>5. QED
    BY <2>3, <2>4
<1>10. QED
  BY <1>5, <1>6, <1>7, <1>8, <1>9 DEF IInv

-----------------------------------------------------------------------------
(* Once c's job is fresh, whoever stands at a later await stood there      *)
(* before.                                                                 *)
LEMMA StillIn ==
  ASSUME NEW c \in Callers, NEW j, Fresh(j), Becomes(c, j), NEW d \in Callers, NEW p \in Payouts,
         NEW A \in SUBSET {"mark", "pay", "settle", "refuse", "refund"}, In(d, A, p)'
  PROVE  d # c /\ job'[d] = job[d] /\ In(d, A, p)
  BY DEF In, Fresh, Becomes, Idle

(* Saving paid, and on to the next payout.                                 *)
LEMMA MarkPaidStep == ASSUME IInv, NEW c \in Callers, MarkPaid(c) PROVE IInv'
<1> DEFINE q == Cur(c)
<1>1. /\ job[c] # Idle /\ q \in Payouts /\ In(c, {"settle"}, q) /\ In(c, {"pay", "settle"}, q)
      /\ In(c, {"pay", "settle", "refund"}, q)
  BY Current DEF MarkPaid, Awaits
<1>2. PICK j \in Jobs : Fresh(j) /\ Becomes(c, j)
  BY <1>1, Freshens DEF MarkPaid, IInv
<1>3. /\ status' = [status EXCEPT ![q] = "paid"]
      /\ raced' = (raced \/ status[q] # "approved")
      /\ UNCHANGED <<manual, held, cleared, record, sent, refunds, faults>>
  BY DEF MarkPaid, Save, money
<1> HIDE DEF q
<1>4. sent[q] > 0 /\ record[q] = "completed"
  BY <1>1 DEF IInv, Settled
<1>5. TypeOK'
  BY <1>1, <1>2, <1>3 DEF IInv, TypeOK, Becomes, Statuses
<1>6. PaidIsSent' /\ Recorded'
  BY <1>1, <1>3, <1>4 DEF IInv, TypeOK, PaidIsSent, Recorded
<1>7. Settled'
  BY <1>2, <1>3, StillIn DEF IInv, Settled
<1>8. Reads'
  BY <1>2, StillIn DEF IInv, Reads
<1>9. ASSUME ~raced', NEW p \in Payouts PROVE Orderly(p)'
  <2>1. ~raced /\ Orderly(p) /\ Orderly(q)
    BY <1>1, <1>3, <1>9 DEF IInv
  <2>2. CASE p = q
    <3>1. status'[p] = "paid" /\ sent'[p] = sent[p] /\ refunds'[p] = refunds[p] /\ status[q] = "approved"
      BY <1>1, <1>3, <1>4, <1>9, <2>2 DEF IInv, TypeOK
    <3>2. refunds[p] = 0 /\ sent[p] = 1
      BY <1>4, <2>1, <2>2, <3>1 DEF Orderly, IInv, TypeOK
    <3>3. \A d \in Callers : /\ ~In(d, {"pay", "settle"}, p)' /\ ~In(d, {"pay"}, p)' /\ ~In(d, {"refund"}, p)'
                            /\ ~In(d, {"pay", "settle", "refund"}, p)'
      <4>1. SUFFICES ASSUME NEW d \in Callers, In(d, {"pay", "settle", "refund"}, p)' PROVE FALSE
        BY DEF In
      <4>2. d # c /\ In(d, {"pay", "settle", "refund"}, p)
        BY <1>2, <4>1, StillIn
      <4>3. QED
        BY <1>1, <2>1, <2>2, <4>2 DEF Orderly
    <3>4. QED
      BY <3>1, <3>2, <3>3 DEF Orderly
  <2>3. CASE p # q
    <3>1. status'[p] = status[p] /\ sent'[p] = sent[p] /\ refunds'[p] = refunds[p]
      BY <1>3, <2>3 DEF IInv, TypeOK
    <3>2. ASSUME NEW d \in Callers, NEW A \in SUBSET {"mark", "pay", "settle", "refuse", "refund"}, In(d, A, p)'
          PROVE  In(d, A, p)
      BY <1>2, <3>2, StillIn
    <3>3. QED
      BY <2>1, <3>1, <3>2 DEF Orderly
  <2>4. QED
    BY <2>2, <2>3
<1>10. QED
  BY <1>5, <1>6, <1>7, <1>8, <1>9 DEF IInv

(* The batch route's update: an unraced one finds the payout pending.      *)
LEMMA OverwriteStep == ASSUME IInv, NEW c \in Clerks, Overwrite(c) PROVE IInv'
<1> DEFINE q == Cur(c)
<1>1. c \in Callers /\ job[c] # Idle /\ q \in Payouts
  BY Current DEF Overwrite, Awaits, Callers
<1>2. PICK j \in Jobs : Fresh(j) /\ Becomes(c, j)
  BY <1>1, Freshens DEF Overwrite, IInv
<1>3. /\ status' = [status EXCEPT ![q] = "processing"]
      /\ raced' = (raced \/ status[q] # "pending")
      /\ UNCHANGED <<manual, held, cleared, record, sent, refunds, faults>>
  BY DEF Overwrite, Save, money
<1> HIDE DEF q
<1>5. TypeOK'
  BY <1>1, <1>2, <1>3 DEF IInv, TypeOK, Becomes, Statuses
<1>6. PaidIsSent' /\ Recorded'
  BY <1>1, <1>3 DEF IInv, TypeOK, PaidIsSent, Recorded
<1>7. Settled'
  BY <1>1, <1>2, <1>3, StillIn DEF IInv, Settled
<1>8. Reads'
  BY <1>1, <1>2, StillIn DEF IInv, Reads
<1>9. ASSUME ~raced', NEW p \in Payouts PROVE Orderly(p)'
  <2>1. ~raced /\ status[q] \in Open /\ Orderly(p)
    BY <1>3, <1>9 DEF IInv, Open
  <2>2. ASSUME NEW d \in Callers, NEW A \in SUBSET {"mark", "pay", "settle", "refuse", "refund"}, In(d, A, p)'
        PROVE  In(d, A, p)
    BY <1>1, <1>2, <2>2, StillIn
  <2>3. CASE p = q
    <3>1. sent[p] = 0 /\ refunds[p] = 0 /\ \A d \in Callers : ~In(d, {"pay", "settle"}, p) /\ ~In(d, {"refund"}, p)
      BY <2>1, <2>3, <1>1, Untouched
    <3>2. sent'[p] = 0 /\ refunds'[p] = 0
      BY <1>3, <3>1
    <3>3. QED
      BY <2>1, <2>2, <3>1, <3>2 DEF Orderly
  <2>4. CASE p # q
    <3>1. status'[p] = status[p] /\ sent'[p] = sent[p] /\ refunds'[p] = refunds[p]
      BY <1>3, <2>4 DEF IInv, TypeOK
    <3>2. QED
      BY <2>1, <2>2, <3>1 DEF Orderly
  <2>5. QED
    BY <2>3, <2>4
<1>10. QED
  BY <1>5, <1>6, <1>7, <1>8, <1>9 DEF IInv

-----------------------------------------------------------------------------
(* The provider answered, now or in an earlier call: c will save paid.     *)
LEMMA PaySucceeds ==
  ASSUME IInv, NEW c \in Callers, At(c, "pay"), Goto(c, "settle"), UNCHANGED <<docs, refunds, raced, faults>>,
         \/ record[Cur(c)] = "completed" /\ UNCHANGED <<record, sent>>
         \/ /\ record' = [record EXCEPT ![Cur(c)] = "completed"]
            /\ sent' = [sent EXCEPT ![Cur(c)] = @ + 1]
  PROVE  IInv'
<1> DEFINE q == Cur(c)
<1>1. /\ job[c] # Idle /\ job[c] \in Busy /\ q \in Payouts
      /\ In(c, {"pay"}, q) /\ In(c, {"pay", "settle"}, q) /\ In(c, {"pay", "settle", "refund"}, q)
  BY Current DEF Awaits
<1>2. Becomes(c, job'[c]) /\ job'[c].op = job[c].op /\ job'[c].cur = q /\ job'[c].pc = "settle"
  BY <1>1, Goes DEF IInv, Awaits, Cur, Busy
<1>3. record'[q] = "completed" /\ sent'[q] > 0
  BY <1>1 DEF IInv, TypeOK, Recorded
<1>4. /\ record' \in [Payouts -> {"none", "completed", "failed"}]
      /\ sent' \in [Payouts -> Nat]
      /\ \A p \in Payouts : p # q => record'[p] = record[p] /\ sent'[p] = sent[p]
  BY <1>1 DEF IInv, TypeOK
<1> HIDE DEF q
<1> USE DEF docs
<1>5. TypeOK'
  BY <1>2, <1>4 DEF IInv, TypeOK, Becomes
<1>6. PaidIsSent' /\ Recorded'
  BY <1>3, <1>4 DEF IInv, PaidIsSent, Recorded
<1>7. Settled'
  BY <1>2, <1>3, <1>4 DEF IInv, Settled, In, Becomes
<1>8. Reads'
  BY <1>2 DEF IInv, Reads, In, Becomes
<1>9. ASSUME ~raced', NEW p \in Payouts PROVE Orderly(p)'
  <2>1. Orderly(p)
    BY <1>9 DEF IInv
  <2>2. ASSUME NEW d \in Callers
        PROVE  /\ In(d, {"pay", "settle"}, p)' => In(d, {"pay", "settle"}, p)
               /\ In(d, {"pay"}, p)' => d # c /\ In(d, {"pay"}, p) /\ In(d, {"pay", "settle", "refund"}, p)
               /\ In(d, {"refund"}, p)' => In(d, {"refund"}, p)
               /\ In(d, {"pay", "settle", "refund"}, p)' => In(d, {"pay", "settle", "refund"}, p)
    BY <1>1, <1>2 DEF In, Becomes
  <2>3. CASE p = q
    <3>1. status[p] = "approved" /\ sent[p] = 0
      BY <1>1, <2>1, <2>3 DEF Orderly
    <3>2. sent'[p] = 1
      BY <1>1, <2>3, <3>1 DEF IInv, TypeOK, Recorded, q
    <3>3. \A d \in Callers : ~In(d, {"pay"}, p)'
      BY <1>1, <2>1, <2>2, <2>3 DEF Orderly
    <3>4. QED
      BY <2>1, <2>2, <3>1, <3>2, <3>3 DEF Orderly
  <2>4. CASE p # q
    BY <1>4, <2>1, <2>2, <2>4 DEF Orderly
  <2>5. QED
    BY <2>3, <2>4
<1>10. QED
  BY <1>5, <1>6, <1>7, <1>8, <1>9 DEF IInv

(* The provider's call threw, or c died in it: the money may be gone, with *)
(* a record of the failure or without any.                                 *)
LEMMA PayFails ==
  ASSUME IInv, NEW c \in Callers, At(c, "pay"), Continue(c) \/ Abort(c),
         UNCHANGED <<docs, refunds, raced>>, faults' \in 0 .. MaxFaults, record[Cur(c)] = "none",
         NEW r \in {"none", "failed"}, record' = [record EXCEPT ![Cur(c)] = r],
         NEW n \in {0, 1}, sent' = [sent EXCEPT ![Cur(c)] = @ + n]
  PROVE  IInv'
<1> DEFINE q == Cur(c)
<1>1. /\ job[c] # Idle /\ q \in Payouts /\ In(c, {"pay"}, q)
      /\ In(c, {"pay", "settle"}, q) /\ In(c, {"pay", "settle", "refund"}, q)
  BY Current DEF Awaits
<1>2. PICK j \in Jobs : Fresh(j) /\ Becomes(c, j)
  BY <1>1, Freshens DEF IInv
<1>3. /\ record' \in [Payouts -> {"none", "completed", "failed"}] /\ record'[q] \in {"none", "failed"} /\ record[q] = "none"
      /\ sent' \in [Payouts -> Nat]
      /\ \A p \in Payouts : p # q => record'[p] = record[p] /\ sent'[p] = sent[p]
  BY <1>1 DEF IInv, TypeOK
<1> HIDE DEF q
<1> USE DEF docs
<1>4. ASSUME NEW d \in Callers, NEW p \in Payouts, NEW A \in SUBSET {"mark", "pay", "settle", "refuse", "refund"},
             In(d, A, p)'
      PROVE  d # c /\ In(d, A, p) /\ job'[d] = job[d]
  BY <1>2, <1>4, StillIn
<1>5. TypeOK'
  BY <1>2, <1>3 DEF IInv, TypeOK, Becomes
<1>6. PaidIsSent' /\ Recorded'
  BY <1>1, <1>3 DEF IInv, PaidIsSent, Recorded
<1>7. Settled'
  BY <1>1, <1>3, <1>4 DEF IInv, Settled
<1>8. Reads'
  BY <1>4 DEF IInv, Reads
<1>9. ASSUME ~raced', NEW p \in Payouts PROVE Orderly(p)'
  <2>1. Orderly(p)
    BY <1>9 DEF IInv
  <2>2. CASE p = q
    <3>1. status[p] = "approved" /\ sent[p] = 0
      BY <1>1, <2>1, <2>2 DEF Orderly
    <3>2. sent'[p] \in {0, 1}
      BY <1>1, <2>2, <3>1 DEF IInv, TypeOK, q
    <3>3. ASSUME NEW d \in Callers PROVE ~In(d, {"pay"}, p)'
      <4>1. SUFFICES ASSUME In(d, {"pay", "settle", "refund"}, p)' PROVE FALSE
        BY DEF In
      <4>2. d # c /\ In(d, {"pay", "settle", "refund"}, p)
        BY <1>4, <4>1
      <4>3. QED
        BY <1>1, <2>1, <2>2, <4>2 DEF Orderly
    <3>4. QED
      BY <1>4, <2>1, <3>1, <3>2, <3>3 DEF Orderly
  <2>3. CASE p # q
    <3>1. sent'[p] = sent[p] /\ status'[p] = status[p] /\ refunds'[p] = refunds[p]
      BY <1>3, <2>3
    <3>2. QED
      BY <1>4, <2>1, <3>1 DEF Orderly
  <2>4. QED
    BY <2>2, <2>3
<1>10. QED
  BY <1>5, <1>6, <1>7, <1>8, <1>9 DEF IInv

LEMMA PayStep == ASSUME IInv, NEW c \in Callers, Pay(c) PROVE IInv'
<1>1. job[c] # Idle /\ At(c, "pay") /\ UNCHANGED <<docs, raced, faults>>
  BY Current DEF Pay, Awaits
<1>2. CASE record[Cur(c)] = "completed" /\ Goto(c, "settle") /\ UNCHANGED money
  BY <1>1, <1>2, PaySucceeds DEF money
<1>3. CASE record[Cur(c)] = "failed" /\ Continue(c) /\ UNCHANGED money
  BY <1>1, <1>3, Freshens, FreshStep DEF IInv, TypeOK
<1>4. CASE /\ record' = [record EXCEPT ![Cur(c)] = "completed"]
           /\ sent' = [sent EXCEPT ![Cur(c)] = @ + 1]
           /\ Goto(c, "settle")
           /\ UNCHANGED refunds
  BY <1>1, <1>4, PaySucceeds
<1>5. CASE /\ record[Cur(c)] = "none"
           /\ record' = [record EXCEPT ![Cur(c)] = "failed"]
           /\ \E n \in {0, 1} : sent' = [sent EXCEPT ![Cur(c)] = @ + n]
           /\ Continue(c)
           /\ UNCHANGED refunds
  BY <1>1, <1>5, PayFails DEF IInv, TypeOK
<1>6. QED
  BY <1>2, <1>3, <1>4, <1>5 DEF Pay

(* The refund: unraced, it is the payout's first and only.                 *)
LEMMA RefundStep == ASSUME IInv, NEW c \in Callers, Refund(c) PROVE IInv'
<1> DEFINE q == Cur(c)
<1>1. job[c] # Idle /\ q \in Payouts /\ In(c, {"refund"}, q) /\ In(c, {"pay", "settle", "refund"}, q)
  BY Current DEF Refund, Awaits
<1>2. PICK j \in Jobs : Fresh(j) /\ Becomes(c, j)
  BY <1>1, Freshens DEF Refund, IInv
<1>3. CASE UNCHANGED refunds
  BY <1>2, <1>3, FreshStep DEF Refund, IInv, TypeOK, money
<1>4. CASE refunds' = [refunds EXCEPT ![q] = @ + 1]
  <2>1. UNCHANGED <<status, manual, held, cleared, record, sent, raced, faults>>
    BY DEF Refund, docs
  <2>2. ASSUME NEW d \in Callers, NEW p \in Payouts, NEW A \in SUBSET {"mark", "pay", "settle", "refuse", "refund"},
               In(d, A, p)'
        PROVE  In(d, A, p) /\ job'[d] = job[d] /\ d # c
    BY <1>2, <2>2, StillIn
  <2> HIDE DEF q
  <2>3. TypeOK'
    BY <1>1, <1>2, <1>4, <2>1 DEF IInv, TypeOK, Becomes
  <2>4. PaidIsSent' /\ Recorded'
    BY <2>1 DEF IInv, PaidIsSent, Recorded
  <2>5. Settled'
    BY <2>1, <2>2 DEF IInv, Settled
  <2>6. Reads'
    BY <2>2 DEF IInv, Reads
  <2>7. ASSUME ~raced', NEW p \in Payouts PROVE Orderly(p)'
    <3>1. Orderly(p)
      BY <2>1, <2>7 DEF IInv
    <3>2. CASE p = q
      <4>1. status[p] = "rejected" /\ refunds'[p] = 1
        BY <1>1, <1>4, <3>1, <3>2 DEF Orderly, IInv, TypeOK
      <4>2. ASSUME NEW d \in Callers PROVE ~In(d, {"pay", "settle", "refund"}, p)'
        BY <1>1, <2>2, <3>1, <3>2 DEF Orderly
      <4>3. ASSUME NEW d \in Callers PROVE ~In(d, {"refund"}, p)' /\ ~In(d, {"pay", "settle"}, p)'
        BY <4>2 DEF In
      <4>4. QED
        BY <2>1, <3>1, <4>1, <4>2, <4>3 DEF Orderly
    <3>3. CASE p # q
      <4>1. refunds'[p] = refunds[p]
        BY <1>4, <3>3 DEF IInv, TypeOK
      <4>2. QED
        BY <2>1, <2>2, <3>1, <4>1 DEF Orderly
    <3>4. QED
      BY <3>2, <3>3
  <2>8. QED
    BY <2>3, <2>4, <2>5, <2>6, <2>7 DEF IInv
<1>5. QED
  BY <1>3, <1>4 DEF Refund

-----------------------------------------------------------------------------
(* A new payout: nobody works on it and no money has moved.                *)
LEMMA RequestStep == ASSUME IInv, NEW p \in Payouts, Request(p) PROVE IInv'
<1>1. /\ status[p] = "none" /\ status' = [status EXCEPT ![p] = "pending"]
      /\ \E review, hold \in BOOLEAN : manual' = [manual EXCEPT ![p] = review] /\ held' = [held EXCEPT ![p] = hold]
      /\ UNCHANGED <<cleared, record, sent, refunds, job, raced, faults>>
  BY DEF Request, money
<1>2. TypeOK'
  <2>1. status' \in [Payouts -> Statuses]
    BY <1>1 DEF IInv, TypeOK, Statuses
  <2>2. manual' \in [Payouts -> BOOLEAN] /\ held' \in [Payouts -> BOOLEAN]
    BY <1>1 DEF IInv, TypeOK
  <2>3. QED
    BY <1>1, <2>1, <2>2 DEF IInv, TypeOK
<1>3. PaidIsSent' /\ Recorded'
  BY <1>1 DEF IInv, TypeOK, PaidIsSent, Recorded
<1>4. Settled' /\ Reads'
  BY <1>1 DEF IInv, Settled, Reads, In
<1>5. ASSUME ~raced', NEW q \in Payouts PROVE Orderly(q)'
  <2>1. Orderly(q)
    BY <1>1, <1>5 DEF IInv
  <2>2. CASE q = p
    <3>1. sent[q] = 0 /\ \A c \in Callers : ~In(c, {"pay", "settle"}, q) /\ ~In(c, {"refund"}, q)
      BY <1>1, <2>1, <2>2 DEF Orderly
    <3>2. refunds[q] = 0
      BY <1>1, <2>1, <2>2 DEF Orderly
    <3>3. QED
      BY <1>1, <2>1, <3>1, <3>2 DEF Orderly, In
  <2>3. CASE q # p
    BY <1>1, <2>1, <2>3 DEF Orderly, In, IInv, TypeOK
  <2>4. QED
    BY <2>2, <2>3
<1>6. QED
  BY <1>2, <1>3, <1>4, <1>5 DEF IInv

(* Holds and clearances are not what the invariant speaks of.              *)
LEMMA EnvironmentStep ==
  ASSUME IInv, UNCHANGED <<status, money, job, raced, faults>>, UNCHANGED manual,
         held' \in [Payouts -> BOOLEAN], cleared' \in [Payouts -> BOOLEAN]
  PROVE  IInv'
<1> USE DEF money
<1>1. TypeOK'
  BY DEF IInv, TypeOK
<1>2. PaidIsSent' /\ Recorded' /\ Settled' /\ Reads'
  BY DEF IInv, PaidIsSent, Recorded, Settled, Reads, In
<1>3. ASSUME ~raced', NEW p \in Payouts PROVE Orderly(p)'
  BY <1>3 DEF IInv, Orderly, In
<1>4. QED
  BY <1>1, <1>2, <1>3 DEF IInv

(* Starting a handler.                                                     *)
LEMMA StartStep ==
  ASSUME IInv, NEW c \in Callers, NEW op \in Ops, NEW S \in SUBSET Payouts, Begin(c, op, S),
         UNCHANGED <<docs, money, raced, faults>>
  PROVE  IInv'
  BY Begins, FreshStep DEF IInv, TypeOK

(* A throw or a crash.                                                     *)
LEMMA FailStep == ASSUME IInv, NEW c \in Callers, Fail(c) PROVE IInv'
<1>1. job[c] # Idle /\ (Continue(c) \/ Abort(c)) /\ UNCHANGED <<docs, record, refunds, raced>>
  BY DEF Fail
<1>2. faults' \in 0 .. MaxFaults
  BY FaultsAssumption DEF Fail, IInv, TypeOK
<1>3. CASE UNCHANGED sent
  BY <1>1, <1>2, <1>3, Freshens, FreshStep DEF IInv, money
<1>4. CASE job[c].pc = "pay" /\ record[Cur(c)] = "none" /\ sent' = [sent EXCEPT ![Cur(c)] = @ + 1]
  <2>1. job[c] \in Busy
    BY <1>1, JobShape DEF IInv
  <2>2. At(c, "pay")
    BY <1>4, <2>1 DEF At, Busy, Ops
  <2>3. record' = [record EXCEPT ![Cur(c)] = "none"]
    BY <1>1, <1>4 DEF IInv, TypeOK
  <2>4. QED
    BY <1>1, <1>2, <1>4, <2>2, <2>3, PayFails
<1>5. QED
  BY <1>3, <1>4 DEF Fail

LEMMA HandleStep == ASSUME IInv, NEW c \in Callers, Handle(c) PROVE IInv'
  BY CheckStep, ReadToApproveStep, MarkApprovedStep, PayStep, MarkPaidStep, ReadToRejectStep,
     MarkRejectedStep, RefundStep DEF Handle

LEMMA NextIInv == IInv /\ [Next]_vars => IInv'
<1> SUFFICES ASSUME IInv, [Next]_vars PROVE IInv'
  OBVIOUS
<1> USE DEF Ops, Callers
<1>1. ASSUME NEW p \in Payouts, Request(p) PROVE IInv'
  BY <1>1, RequestStep
<1>2. ASSUME NEW p \in Payouts, HoldEnds(p) PROVE IInv'
  BY <1>2, EnvironmentStep DEF HoldEnds, IInv, TypeOK
<1>3. ASSUME NEW p \in Payouts, ClearanceChanges(p) PROVE IInv'
  BY <1>3, EnvironmentStep DEF ClearanceChanges, IInv, TypeOK
<1>4. ASSUME NEW a \in Admins, StartApproval(a) PROVE IInv'
  BY <1>4, StartStep DEF StartApproval
<1>5. ASSUME NEW a \in Admins, StartRejection(a) PROVE IInv'
  BY <1>5, StartStep DEF StartRejection
<1>6. CASE StartCycle
  BY <1>6, StartStep DEF StartCycle
<1>7. ASSUME NEW k \in Clerks, StartBatch(k) \/ ClaimPending(k) PROVE IInv'
  BY <1>7, StartStep DEF StartBatch, ClaimPending
<1>8. ASSUME NEW k \in Clerks, Overwrite(k) PROVE IInv'
  BY <1>8, OverwriteStep
<1>9. ASSUME NEW c \in Callers, Handle(c) PROVE IInv'
  BY <1>9, HandleStep
<1>10. ASSUME NEW c \in Callers, Fail(c) PROVE IInv'
  BY <1>10, FailStep
<1>11. CASE UNCHANGED vars
  <2>1. IInv /\ UNCHANGED <<status, manual, held, cleared, money, job, raced, faults>>
    BY <1>11 DEF vars, docs
  <2>2. held' \in [Payouts -> BOOLEAN] /\ cleared' \in [Payouts -> BOOLEAN]
    BY <2>1 DEF IInv, TypeOK
  <2>3. QED
    BY <2>1, <2>2, EnvironmentStep
<1>12. QED
  BY <1>1, <1>2, <1>3, <1>4, <1>5, <1>6, <1>7, <1>8, <1>9, <1>10, <1>11 DEF Next

LEMMA Inductive == Spec => []IInv
  BY InitIInv, NextIInv, PTL DEF Spec

-----------------------------------------------------------------------------
(* Every variable keeps its type, whatever overlaps, throws or dies.       *)
THEOREM TypeCorrect == Spec => []TypeOK
<1>1. IInv => TypeOK
  BY DEF IInv
<1>2. QED
  BY <1>1, Inductive, PTL

(* The status paid is only ever written after a call of the provider took  *)
(* effect and returned, however the handlers of a payout overlap.  It says *)
(* nothing of what the call does: for PayPal, Wise and the bank that is an *)
(* audit row (paypal.js:7-20, payoutService.js:56-116).                    *)
THEOREM PaidFollowsTheCall == Spec => []PaidIsSent
<1>1. IInv => PaidIsSent
  BY DEF IInv
<1>2. QED
  BY <1>1, Inductive, PTL

(* As long as no save replaces a status its handler had not read, the      *)
(* money of each payout goes out once at most or comes back once at most,  *)
(* and not both.                                                           *)
THEOREM MoneyGoesOneWay == Spec => []UnracedOneWayOut
<1>1. IInv => UnracedOneWayOut
  <2>1. SUFFICES ASSUME IInv, ~raced, NEW p \in Payouts
                 PROVE  sent[p] + refunds[p] <= 1
    BY DEF UnracedOneWayOut, OneWayOut
  <2>2. Orderly(p) /\ refunds[p] \in Nat /\ sent[p] \in Nat
    BY <2>1 DEF IInv, TypeOK
  <2>3. QED
    BY <2>2 DEF Orderly
<1>2. QED
  BY <1>1, Inductive, PTL

-----------------------------------------------------------------------------
(* What the cycle has listed stays requested, out of manual review and off *)
(* hold until the cycle gets to it.                                        *)
Chosen(p) == status[p] # "none" /\ Automatic(p)
Listed(j) == j = Idle \/ (j \in Busy /\ j.op = "cycle" /\ \A p \in {j.cur} \cup j.todo : Chosen(p))

(* No step takes a payout that was chosen out of the choice.               *)
LEMMA StaysChosen ==
  ASSUME TypeOK, [Next]_vars, NEW p \in Payouts, Chosen(p)
  PROVE  Chosen(p)'
<1>1. ASSUME NEW q \in Payouts, Request(q) PROVE Chosen(p)'
  BY <1>1 DEF Request, Chosen, Automatic, TypeOK
<1>2. ASSUME NEW q \in Payouts, HoldEnds(q) \/ ClearanceChanges(q) PROVE Chosen(p)'
  BY <1>2 DEF HoldEnds, ClearanceChanges, Chosen, Automatic, TypeOK
<1>3. ASSUME UNCHANGED docs PROVE Chosen(p)'
  BY <1>3 DEF docs, Chosen, Automatic
<1>4. ASSUME NEW q, NEW s \in Statuses \ {"none"}, NEW e, Save(q, s, e), UNCHANGED <<manual, held>>
      PROVE  Chosen(p)'
  BY <1>4 DEF Save, Chosen, Automatic, TypeOK
<1>5. ASSUME NEW c \in Callers, Handle(c) PROVE Chosen(p)'
  <2>1. CASE Check(c) \/ ReadToApprove(c) \/ Pay(c) \/ ReadToReject(c) \/ Refund(c)
    BY <2>1, <1>3 DEF Check, ReadToApprove, Pay, ReadToReject, Refund
  <2>2. CASE MarkApproved(c) \/ MarkPaid(c) \/ MarkRejected(c)
    BY <2>2, <1>4 DEF MarkApproved, MarkPaid, MarkRejected, Statuses
  <2>3. QED
    BY <1>5, <2>1, <2>2 DEF Handle
<1>6. ASSUME NEW k \in Clerks, Overwrite(k) PROVE Chosen(p)'
  BY <1>6, <1>4 DEF Overwrite, Statuses
<1>7. CASE UNCHANGED vars
  BY <1>7, <1>3 DEF vars
<1>8. QED
  BY <1>1, <1>2, <1>3, <1>5, <1>6, <1>7
  DEF Next, StartApproval, StartRejection, StartCycle, StartBatch, ClaimPending, Fail

(* A job of the cycle over payouts that are chosen is Listed.              *)
LEMMA TakingListed ==
  ASSUME NEW S \in SUBSET Payouts, \A p \in S : Chosen(p)', NEW j \in Taking("cycle", S)
  PROVE  Listed(j)'
<1>1. CASE S = {}
  BY <1>1 DEF Taking, Listed
<1>2. CASE S # {}
  <2>1. PICK p \in S : j = [op |-> "cycle", pc |-> "check", cur |-> p, todo |-> S \ {p}, read |-> "none"]
    BY <1>2 DEF Taking, FirstAwait
  <2>2. j \in Busy
    BY <2>1 DEF Busy, Ops, Awaits, Statuses
  <2>3. \A q \in {j.cur} \cup j.todo : Chosen(q)'
    BY <2>1
  <2>4. QED
    BY <2>1, <2>2, <2>3 DEF Listed
<1>3. QED
  BY <1>1, <1>2

LEMMA KeepsListed ==
  ASSUME TypeOK, Listed(job[Cycle]), [Next]_vars
  PROVE  Listed(job[Cycle])'
<1> USE DEF Callers
<1>1. Cycle \in Callers /\ Cycle \notin Admins \cup Clerks
  BY RolesAssumption
<1>2. ASSUME job'[Cycle] = job[Cycle] PROVE Listed(job[Cycle])'
  BY <1>2, StaysChosen DEF Listed, Busy
<1>3. ASSUME job[Cycle] # Idle, Continue(Cycle) PROVE Listed(job[Cycle])'
  <2>1. /\ job[Cycle].op = "cycle" /\ job[Cycle].todo \in SUBSET Payouts
        /\ \A p \in job[Cycle].todo : Chosen(p)'
    BY <1>3, StaysChosen DEF Listed, Busy
  <2>2. PICK j \in Taking("cycle", job[Cycle].todo) : job' = [job EXCEPT ![Cycle] = j]
    BY <1>3, <2>1 DEF Continue
  <2>3. Listed(j)'
    BY <2>1, <2>2, TakingListed
  <2>4. job'[Cycle] = j
    BY <2>2, <1>1 DEF TypeOK
  <2>5. QED
    BY <2>3, <2>4
<1>4. ASSUME Abort(Cycle) PROVE Listed(job[Cycle])'
  BY <1>1, <1>4 DEF Abort, Listed, TypeOK
<1>5. ASSUME job[Cycle] # Idle, NEW a \in Awaits, NEW s \in Statuses,
             (Goto(Cycle, a) /\ s = job[Cycle].read) \/ GotoWith(Cycle, a, s)
      PROVE  Listed(job[Cycle])'
  <2>1. job[Cycle] \in Busy
    BY <1>1, <1>5, JobShape
  <2>2. job'[Cycle] \in Busy /\ job'[Cycle].op = job[Cycle].op
        /\ job'[Cycle].cur = job[Cycle].cur /\ job'[Cycle].todo = job[Cycle].todo
    BY <1>1, <1>5, <2>1 DEF Goto, GotoWith, TypeOK, Busy
  <2>3. QED
    BY <1>5, <2>1, <2>2, StaysChosen DEF Listed, Busy
<1>6. ASSUME NEW c \in Callers, c # Cycle, Handle(c) \/ Fail(c) PROVE Listed(job[Cycle])'
  BY <1>6, <1>2, <1>1
  DEF Handle, Fail, Check, ReadToApprove, MarkApproved, Pay, MarkPaid, ReadToReject, MarkRejected,
      Refund, Continue, Abort, Goto, GotoWith, TypeOK
<1>7. CASE Fail(Cycle)
  BY <1>7, <1>3, <1>4 DEF Fail
<1>8. CASE Handle(Cycle)
  <2>1. job[Cycle] # Idle
    BY <1>8 DEF Handle, Check, ReadToApprove, MarkApproved, Pay, MarkPaid, ReadToReject,
                MarkRejected, Refund, At, Idle
  <2>2. job[Cycle].read \in Statuses
    BY <1>1, <2>1, JobShape DEF Busy
  <2>3. CASE Check(Cycle)
    BY <2>1, <2>2, <2>3, <1>3, <1>5 DEF Check, Awaits
  <2>4. CASE ReadToApprove(Cycle)
    BY <2>1, <2>4, <1>3, <1>5 DEF ReadToApprove, Awaits, Open, Statuses
  <2>5. CASE MarkApproved(Cycle)
    BY <2>1, <2>2, <2>5, <1>5 DEF MarkApproved, Awaits
  <2>6. CASE Pay(Cycle)
    BY <2>1, <2>2, <2>6, <1>3, <1>5 DEF Pay, Awaits
  <2>7. CASE MarkPaid(Cycle)
    BY <2>1, <2>7, <1>3 DEF MarkPaid
  <2>8. CASE ReadToReject(Cycle)
    BY <2>1, <2>8, <1>4, <1>5 DEF ReadToReject, Awaits, Statuses
  <2>9. CASE MarkRejected(Cycle)
    BY <2>1, <2>2, <2>9, <1>5 DEF MarkRejected, Awaits
  <2>10. CASE Refund(Cycle)
    BY <2>1, <2>10, <1>3, <1>4 DEF Refund
  <2>11. QED
    BY <1>8, <2>3, <2>4, <2>5, <2>6, <2>7, <2>8, <2>9, <2>10 DEF Handle
<1>9. CASE StartCycle
  <2>1. PICK j \in Taking("cycle", {p \in Payouts : status[p] \in Open /\ Automatic(p)}) :
          job' = [job EXCEPT ![Cycle] = j]
    BY <1>9 DEF StartCycle, Begin
  <2>2. \A p \in {p \in Payouts : status[p] \in Open /\ Automatic(p)} : Chosen(p)'
    BY <1>9, StaysChosen DEF Chosen, Open
  <2>3. Listed(j)'
    BY <2>1, <2>2, TakingListed
  <2>4. job'[Cycle] = j
    BY <2>1, <1>1 DEF TypeOK
  <2>5. QED
    BY <2>3, <2>4
<1>10. ASSUME NEW c \in Admins \cup Clerks,
              \/ StartApproval(c) \/ StartRejection(c) \/ StartBatch(c)
              \/ ClaimPending(c) \/ Overwrite(c)
       PROVE  Listed(job[Cycle])'
  BY <1>10, <1>2, <1>1
  DEF StartApproval, StartRejection, StartBatch, ClaimPending, Overwrite, Begin, Continue, TypeOK
<1>11. CASE UNCHANGED job
  BY <1>11, <1>2
<1>12. QED
  BY <1>6, <1>7, <1>8, <1>9, <1>10, <1>11
  DEF Next, vars, Request, HoldEnds, ClearanceChanges

(* Whatever batch routes and admins do to the status of payouts, the cycle *)
(* pays none that was in manual review or on hold.                         *)
THEOREM CycleNeverPaysHeld == Spec => CycleKeepsOff
<1>1. Init => Listed(job[Cycle])
  BY DEF Init, Listed, Callers
<1>2. TypeOK /\ Listed(job[Cycle]) /\ [Next]_vars => Listed(job[Cycle])'
  BY KeepsListed
<1>3. Listed(job[Cycle]) => [Pay(Cycle) => Automatic(Cur(Cycle))]_vars
  BY DEF Listed, Pay, At, Idle, Cur, Chosen
<1>4. QED
  BY <1>1, <1>2, <1>3, TypeCorrect, PTL DEF Spec, CycleKeepsOff
=============================================================================

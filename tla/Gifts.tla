------------------------------- MODULE Gifts --------------------------------
(***************************************************************************)
(* A gift moves coins from its sender to its receiver, less a fee for the  *)
(* platform, and an admin may reverse it (packages/economy/src/gifts.js).  *)
(* Both are sequences of wallet movements without a transaction around     *)
(* them: each movement, whose inside is Wallet, may be refused because the *)
(* wallet is busy, and what follows a movement that fails makes up for it, *)
(* or does not.  Every credit of an approved creator also starts an update *)
(* of its CreatorWallet that nobody waits for (creatorWallet.js).          *)
(* One sender, one receiver, who is an approved creator, and the platform. *)
(***************************************************************************)
EXTENDS Integers, FiniteSets

CONSTANTS
  Calls,     \* calls of sendGift
  Reversals, \* calls of reverseGift
  Share,     \* what a gift brings the receiver
  Fee,       \* and the platform
  Start,     \* what each user has at first
  FaultLimit,\* bound: busy wallets, movements that go wrong and deaths
  None       \* no gift, no CreatorWallet

Gross == Share + Fee
Procs == Calls \cup Reversals
Users == {"sender", "receiver", "platform"}
Tasks == Procs \X {1, 2}  \* updates of the CreatorWallet, by who started them

ASSUME CallsAssumption   ==
  IsFiniteSet(Calls) /\ Calls \cap Reversals = {} /\ None \notin Calls \cup Nat
ASSUME NumbersAssumption ==
  {Share, Fee} \subseteq Nat \ {0} /\ Start \in [Users -> Nat] /\ FaultLimit \in Nat

VARIABLES
  balance,  \* Wallet.balanceCents of each user
  given,    \* calls whose debit is on the ledger
  reversed, \* calls with a row gift_reversal
  pc,       \* the movement each call is at
  gift,     \* the call that a reversal is for
  earned,   \* CreatorWallet.balance of the receiver, None without a document
  task,     \* the await each update of it is at
  seen,     \* what it has read
  spent,    \* history: what the receiver has spent otherwise
  incidents,\* history: what has gone wrong
  faults

vars == <<balance, given, reversed, pc, gift, earned, task, seen, spent, incidents, faults>>

Moving    == {"debit", "share", "refund", "fee", "restore", "reclaim", "refee"}
Ends      == {"sent", "unsent", "undone", "refused", "halfway", "dead"}
Incidents == {"doubtful", "unrefunded", "unshared", "halfway", "overlapped", "unkept",
              "dead", "late", "raced", "overtaken", "lost"}

TypeOK ==
  /\ balance \in [Users -> Nat]
  /\ given \subseteq Calls /\ reversed \subseteq given
  /\ pc \in [Procs -> {"idle"} \cup Moving \cup Ends]
  /\ gift \in [Reversals -> Calls \cup {None}]
  /\ earned \in Nat \cup {None}
  /\ task \in [Tasks -> {"none", "find", "look", "create", "save", "over"}]
  /\ seen \in [Tasks -> Nat]
  /\ spent \in Nat
  /\ incidents \subseteq Incidents
  /\ faults \in 0 .. FaultLimit

Init ==
  /\ balance = Start
  /\ given = {} /\ reversed = {}
  /\ pc = [p \in Procs |-> "idle"]
  /\ gift = [r \in Reversals |-> None]
  /\ earned \in {Start["receiver"], None}
  /\ task = [t \in Tasks |-> "none"]
  /\ seen = [t \in Tasks |-> 0]
  /\ spent = 0
  /\ incidents = {}
  /\ faults = 0

Goto(p, to)    == pc' = [pc EXCEPT ![p] = to]
Goes(p, to, what) == Goto(p, to) /\ incidents' = incidents \cup what
When(what, now) == IF now THEN {what} ELSE {}
Add(u, n)      == balance' = [balance EXCEPT ![u] = @ + n]
CanTake(u, n)  == balance[u] >= n
Take(u, n)     == CanTake(u, n) /\ balance' = [balance EXCEPT ![u] = @ - n]
Fault          == faults < FaultLimit /\ faults' = faults + 1
NoFault        == UNCHANGED faults
Refused(u, n)  == IF CanTake(u, n) THEN Fault ELSE NoFault \* a debit: busy, or not enough

(* The updates of the CreatorWallet that p starts, none of which is there. *)
Start1(p, n) == task' = [t \in Tasks |-> IF t[1] = p /\ t[2] <= n THEN "find" ELSE task[t]]

(* economy.credit and economy.debit in trouble: the movement is made once  *)
(* or twice, and the caller is told that it was or that it was not.        *)
Doubtful(p, u, n, good, bad) ==
  /\ Fault
  /\ \E k \in 1 .. 2 :
       /\ balance[u] + k * n >= 0
       /\ Add(u, k * n)
       /\ IF p \in Calls /\ u = "receiver" THEN Start1(p, k) ELSE UNCHANGED task
  /\ Goes(p, good, {"doubtful"}) \/ Goes(p, bad, {"doubtful"})
  /\ UNCHANGED <<gift, earned, seen, spent>>

-----------------------------------------------------------------------------
(* sendGift: the sender pays, unless it cannot or its wallet is busy.      *)
Send(p) ==
  /\ p \in Calls /\ pc[p] = "idle"
  /\ \/ /\ Take("sender", Gross) /\ given' = given \cup {p}
        /\ Goto(p, "share")
        /\ NoFault /\ UNCHANGED <<gift, earned, task, seen, spent, incidents>>
     \/ /\ Goto(p, "unsent")
        /\ Refused("sender", Gross)
        /\ UNCHANGED <<balance, given, gift, earned, task, seen, spent, incidents>>
     \/ /\ Doubtful(p, "sender", -Gross, "share", "unsent")
        /\ given' = given \cup {p}
  /\ UNCHANGED reversed

(* The receiver gets its share; if it does not, the sender is refunded.    *)
CreditReceiver(p) ==
  /\ pc[p] = "share"
  /\ \/ /\ Add("receiver", Share) /\ Start1(p, 1)
        /\ Goto(p, "fee")
        /\ NoFault /\ UNCHANGED <<gift, earned, seen, spent, incidents>>
     \/ /\ Goto(p, "refund")
        /\ Fault /\ UNCHANGED <<balance, gift, earned, task, seen, spent, incidents>>
     \/ Doubtful(p, "receiver", Share, "fee", "refund")
  /\ UNCHANGED <<given, reversed>>

(* An error of the refund is swallowed.                                    *)
Refund(p) ==
  /\ pc[p] = "refund"
  /\ \/ /\ Add("sender", Gross)
        /\ Goto(p, "unsent")
        /\ NoFault /\ UNCHANGED <<gift, earned, task, seen, spent, incidents>>
     \/ /\ Goes(p, "unsent", {"unrefunded"})
        /\ Fault /\ UNCHANGED <<balance, gift, earned, task, seen, spent>>
     \/ Doubtful(p, "sender", Gross, "unsent", "unsent")
  /\ UNCHANGED <<given, reversed>>

(* So is one of the platform's fee.                                        *)
CreditPlatform(p) ==
  /\ pc[p] = "fee"
  /\ \/ /\ Add("platform", Fee)
        /\ Goto(p, "sent")
        /\ NoFault /\ UNCHANGED <<gift, earned, task, seen, spent, incidents>>
     \/ /\ Goes(p, "sent", {"unshared"})
        /\ Fault /\ UNCHANGED <<balance, gift, earned, task, seen, spent>>
     \/ Doubtful(p, "platform", Fee, "sent", "sent")
  /\ UNCHANGED <<given, reversed>>

-----------------------------------------------------------------------------
(* Mutant: reverseGift does not look for an earlier reversal.              *)
ReverseAgain(p, g) ==
  /\ p \in Reversals /\ pc[p] = "idle" /\ g \in given
  /\ gift' = [gift EXCEPT ![p] = g]
  /\ Goes(p, "restore", When("unkept", pc[g] # "sent"))
  /\ UNCHANGED <<balance, given, reversed, earned, task, seen, spent, faults>>

(* reverseGift of a debit that is on the ledger: it may be one of a gift   *)
(* that is not yet given, or was refunded; and somebody else may have      *)
(* found no reversal either.                                               *)
FindReversal(p, g) ==
  /\ p \in Reversals /\ pc[p] = "idle" /\ g \in given
  /\ gift' = [gift EXCEPT ![p] = g]
  /\ IF g \in reversed THEN Goto(p, "refused") /\ UNCHANGED incidents
     ELSE Goes(p, "restore",
            When("unkept", pc[g] # "sent") \cup
            When("overlapped", \E r \in Reversals \ {p} : gift[r] = g /\ pc[r] = "restore"))
  /\ UNCHANGED <<balance, given, reversed, earned, task, seen, spent, faults>>

(* The sender first: from now on the gift counts as reversed.              *)
RestoreSender(p) ==
  /\ pc[p] = "restore"
  /\ \/ /\ Add("sender", Gross) /\ reversed' = reversed \cup {gift[p]}
        /\ Goto(p, "reclaim")
        /\ NoFault /\ UNCHANGED <<gift, earned, task, seen, spent, incidents>>
     \/ /\ Goto(p, "refused")
        /\ Fault /\ UNCHANGED <<balance, reversed, gift, earned, task, seen, spent, incidents>>
     \/ /\ Doubtful(p, "sender", Gross, "reclaim", "halfway")
        /\ reversed' = reversed \cup {gift[p]}
  /\ UNCHANGED given

(* Mutant: what the receiver has is not looked at.                         *)
ReclaimAnyway(p) ==
  /\ pc[p] = "reclaim"
  /\ Add("receiver", -Share)
  /\ Goto(p, "refee")
  /\ UNCHANGED <<given, reversed, gift, earned, task, seen, spent, incidents, faults>>

(* Then the receiver, who may have spent its share, or be busy: the gift   *)
(* stays reversed half way, as no second reversal is possible.             *)
ReclaimShare(p) ==
  /\ pc[p] = "reclaim"
  /\ \/ /\ Take("receiver", Share)
        /\ Goto(p, "refee")
        /\ NoFault /\ UNCHANGED <<gift, earned, task, seen, spent, incidents>>
     \/ /\ Goes(p, "halfway", {"halfway"})
        /\ Refused("receiver", Share) /\ UNCHANGED <<balance, gift, earned, task, seen, spent>>
     \/ Doubtful(p, "receiver", -Share, "refee", "halfway")
  /\ UNCHANGED <<given, reversed>>

(* At last the platform, whose errors are swallowed, and the update of the *)
(* CreatorWallet is started.                                               *)
ReclaimFee(p) ==
  /\ pc[p] = "refee"
  /\ \/ /\ Take("platform", Fee)
        /\ NoFault /\ UNCHANGED incidents
     \/ /\ incidents' = incidents \cup {"unshared"}
        /\ Refused("platform", Fee) /\ UNCHANGED balance
     \/ /\ Fault
        /\ \E k \in 1 .. 2 : Take("platform", k * Fee)
        /\ incidents' = incidents \cup {"doubtful"}
  /\ Goto(p, "undone")
  /\ Start1(p, 1)
  /\ UNCHANGED <<given, reversed, gift, earned, seen, spent>>

-----------------------------------------------------------------------------
Credits(t)  == t[1] \in Calls
Settle(t)   == task' = [task EXCEPT ![t] = "over"] /\ seen' = [seen EXCEPT ![t] = 0]
Updating(t) == task[t] \in {"look", "create", "save"}
Among(t)    == \E x \in Tasks \ {t} : Updating(x)
Overtakes(t) == ~Credits(t) /\ \E k \in {1, 2} : task[<<gift[t[1]], k>>] \notin {"none", "over"}

(* creditCreator and debitCreator read the document.  Without one, or with *)
(* nothing left, there is nothing to debit.                                *)
FindCreator(t) ==
  /\ task[t] = "find"
  /\ IF earned # None /\ (Credits(t) \/ earned > 0)
     THEN seen' = [seen EXCEPT ![t] = earned] /\ task' = [task EXCEPT ![t] = "save"]
     ELSE task' = [task EXCEPT ![t] = IF Credits(t) THEN "look" ELSE "over"] /\ UNCHANGED seen
  /\ incidents' = incidents \cup When("raced", Among(t)) \cup When("overtaken", Overtakes(t))
                            \cup When("late", earned = None)
  /\ UNCHANGED <<balance, given, reversed, pc, gift, earned, spent, faults>>

(* getOrCreateCreatorWallet starts from the wallet, which by now has the   *)
(* coins that are about to be added.                                       *)
LookAtWallet(t) ==
  /\ task[t] = "look"
  /\ seen' = [seen EXCEPT ![t] = balance["receiver"]]
  /\ task' = [task EXCEPT ![t] = "create"]
  /\ UNCHANGED <<balance, given, reversed, pc, gift, earned, spent, incidents, faults>>

(* creatorId is unique: of two documents the second is an error, which is  *)
(* swallowed.                                                              *)
CreateCreator(t) ==
  /\ task[t] = "create"
  /\ IF earned = None
     THEN earned' = seen[t] /\ task' = [task EXCEPT ![t] = "save"] /\ UNCHANGED seen
     ELSE Settle(t) /\ UNCHANGED earned
  /\ UNCHANGED <<balance, given, reversed, pc, gift, spent, incidents, faults>>

(* Mutant: a reversal takes the gross amount.                              *)
SaveGross(t) ==
  /\ task[t] = "save"
  /\ earned' = IF Credits(t) THEN seen[t] + Share ELSE IF seen[t] > Gross THEN seen[t] - Gross ELSE 0
  /\ Settle(t)
  /\ UNCHANGED <<balance, given, reversed, pc, gift, spent, incidents, faults>>

(* What was read, plus or minus the share, is saved; never less than zero. *)
SaveCreator(t) ==
  /\ task[t] = "save"
  /\ earned' = IF Credits(t) THEN seen[t] + Share ELSE IF seen[t] > Share THEN seen[t] - Share ELSE 0
  /\ Settle(t)
  /\ UNCHANGED <<balance, given, reversed, pc, gift, spent, incidents, faults>>

(* The receiver spends its coins, here once and all of them: that does not *)
(* change its CreatorWallet.                                               *)
Spend ==
  /\ spent = 0 /\ balance["receiver"] > 0
  /\ spent' = balance["receiver"]
  /\ Take("receiver", balance["receiver"])
  /\ UNCHANGED <<given, reversed, pc, gift, earned, task, seen, incidents, faults>>

(* The process dies, with the updates that it has started, or without.     *)
Die(p) ==
  /\ pc[p] \in Moving
  /\ Fault
  /\ Goes(p, "dead", {"dead"})
  /\ \/ UNCHANGED task
     \/ task' = [t \in Tasks |-> IF t[1] = p /\ task[t] # "none" THEN "over" ELSE task[t]]
  /\ UNCHANGED <<balance, given, reversed, gift, earned, seen, spent>>

(* Updates are lost: whether the receiver is an approved creator could not *)
(* be read, a call of theirs throws, which nobody is told, or the process  *)
(* dies, perhaps long after p has answered.                                *)
LoseUpdates(p) ==
  /\ Fault
  /\ \E lost \in SUBSET {t \in Tasks : t[1] = p /\ task[t] \notin {"none", "over"}} :
       /\ lost # {}
       /\ task' = [t \in Tasks |-> IF t \in lost THEN "over" ELSE task[t]]
       /\ seen' = [t \in Tasks |-> IF t \in lost THEN 0 ELSE seen[t]]
  /\ incidents' = incidents \cup {"lost"}
  /\ UNCHANGED <<balance, given, reversed, pc, gift, earned, spent>>

Next ==
  \/ \E p \in Procs :
       \/ Send(p) \/ CreditReceiver(p) \/ Refund(p) \/ CreditPlatform(p)
       \/ RestoreSender(p) \/ ReclaimShare(p) \/ ReclaimFee(p) \/ Die(p) \/ LoseUpdates(p)
       \/ \E g \in Calls : FindReversal(p, g)
  \/ \E t \in Tasks : FindCreator(t) \/ LookAtWallet(t) \/ CreateCreator(t) \/ SaveCreator(t)
  \/ Spend

Spec == Init /\ [][Next]_vars

-----------------------------------------------------------------------------
Resting == \A p \in Procs : pc[p] \in {"idle"} \cup Ends
Kept    == Cardinality({g \in Calls : pc[g] = "sent" /\ g \notin reversed})

(* When no call is under way, every gift has moved all of its three        *)
(* amounts or none, and every reversal has moved all of them back once,    *)
(* unless a refund, the fee or a reversal's debit was refused or lost, a   *)
(* gift was reversed that was not given, two reversals overlapped, a       *)
(* movement was made more than once or reported wrongly (what Wallet says  *)
(* of a failed call), or a process died between two movements              *)
(* (gifts.js:49-70, 128-160).                                              *)
AllOrNothing ==
  Resting /\ incidents \subseteq {"late", "raced", "overtaken", "lost"} =>
    balance = [u \in Users |->
      CASE u = "sender"   -> Start[u] - Kept * Gross
        [] u = "receiver" -> Start[u] + Kept * Share - spent
        [] u = "platform" -> Start[u] + Kept * Fee]

(* And when no update of it is under way either, the CreatorWallet has     *)
(* what the gifts brought, also when a reversal came between, provided     *)
(* that every movement went as above, that no two updates overlapped, that *)
(* a reversal's did not overtake the gift's, that none was lost, on the    *)
(* way or with its process after the call had answered (coins.js:86, 108,  *)
(* gifts.js:165), and that it was there before the first one, which is     *)
(* otherwise counted twice (creatorWallet.js:10-56, 79-89).                *)
CreatorWalletFollows ==
  Resting /\ incidents = {} /\ (\A t \in Tasks : task[t] \in {"none", "over"}) =>
    earned \in {None, Start["receiver"] + Kept * Share}
=============================================================================

------------------------------- MODULE Auction -------------------------------
(***************************************************************************)
(* One live auction of packages/api/src/routes/shop.js: bids over HTTP and *)
(* over the WebSocket of routes/live.js, the three ways it closes (a bid   *)
(* or a view that finds it expired, the creator's end) and what follows    *)
(* when the winner does not pay (workers/src/auction.worker.js and         *)
(* economy/src/reassignment.js).  Bids and ends hold the auction key and,  *)
(* inside it, the keys of the wallets they touch; a view, the first look   *)
(* of an HTTP bid and the enforcement of payments hold nothing.            *)
(***************************************************************************)
EXTENDS Integers, Sequences, FiniteSets

CONSTANTS
  Bidders, Creator,
  Procs,       \* requests, each handled once
  Handles,     \* bound: the kinds of request each process may get
  Enforcers,   \* the interval of each API process and the queue's worker
  Amounts,     \* what is bid, in cents
  StartBid,    \* startBidCents
  Opening,     \* every bidder's opening balance
  MoveLimit,   \* bound: movements of these wallets that are not of the auction
  FaultLimit,  \* bound: failed calls, crashes and keys that lapse too early
  LapseLimit,  \* bound: deadlines each winner lets pass
  Nobody       \* no bidder, or no process has set the key

Kinds == {"http", "ws", "view", "end"}

ASSUME NobodyAssumption  == Nobody \notin Procs \cup Bidders /\ Creator \notin Bidders
ASSUME HandlesAssumption == Handles \in [Procs -> SUBSET Kinds]
ASSUME EnforcersAssumption == IsFiniteSet(Enforcers)
ASSUME NumbersAssumption == /\ Amounts \subseteq Nat \ {0} /\ StartBid \in Nat \ {0}
                            /\ {Opening, MoveLimit, FaultLimit, LapseLimit} \subseteq Nat

VARIABLES
  auction,     \* the document: status, current bid, winner, payment deadline
  bids,        \* its array of bids
  expired,     \* endsAt has passed
  balance,     \* Wallet.balanceCents; the creator's counts what was credited
  auctionKey,  \* whose SET created millo:lock:auction:{id}
  walletKey,   \* and millo:lock:wallet:{user}
  job,         \* the request of each process
  pc,          \* the await it is at
  doc,         \* the document it has read
  seen,        \* the balance it has read
  enforcer,    \* of each run of the enforcement: its step and the row it found
  penalties,   \* Penalty documents
  lapses,      \* history: deadlines a winner let pass
  settled,     \* history: how often the creator has been paid
  raised,      \* history: own bids a bidder has replaced
  moves,       \* history: movements by requests that are not of the auction
  elsewhere,   \* history: what they have brought each bidder, or taken
  bypassed,    \* history: bidders whose wallet one has moved without the key
  faults,      \* history: faults so far
  late,        \* history: the kinds of key that lapsed under their owner
  torn         \* history: a bid or an end stopped between its writes

shop     == <<auction, bids, expired>>
keys     == <<auctionKey, walletKey>>
local    == <<job, doc, seen>>
payment  == <<enforcer, penalties, lapses>>
others   == <<moves, elsewhere, bypassed>>
history  == <<settled, raised, others, faults, late, torn>>
vars     == <<shop, balance, keys, local, pc, payment, history>>

Wallets  == Bidders \cup {Creator}
Statuses == {"live", "awaiting_payment", "ended", "defaulted"}
Inside   == {"wallets", "recheck", "closeLocked", "read", "balance", "refund",
             "hold", "push", "save", "pay", "unlock"}
Points   == Inside \cup {"idle", "glance", "close", "lock", "done", "crashed"}
Money    == Amounts \cup {0}
Someone  == Bidders \cup {Nobody}
Document == [status : Statuses, by : Someone, amount : Money, winner : Someone,
             winning : Money, deadline : {"none", "open", "lapsed"}]
Request  == [kind : Kinds, user : Someone, amount : Money]
Row      == [step : {"idle", "decide", "penalise"}, debtor : Someone,
             second : Someone, amount : Money]

Unsold == [status |-> "live", by |-> Nobody, amount |-> 0, winner |-> Nobody,
           winning |-> 0, deadline |-> "none"]
NoRequest == [kind |-> "view", user |-> Nobody, amount |-> 0]
NoRow  == [step |-> "idle", debtor |-> Nobody, second |-> Nobody, amount |-> 0]

TypeOK ==
  /\ auction \in Document
  /\ bids \in Seq([by : Bidders, amount : Amounts])
  /\ expired \in BOOLEAN
  /\ balance \in [Wallets -> Int]
  /\ auctionKey \in Procs \cup {Nobody}
  /\ walletKey \in [Wallets -> Procs \cup {Nobody}]
  /\ job \in [Procs -> Request]
  /\ pc \in [Procs -> Points]
  /\ doc \in [Procs -> Document]
  /\ seen \in [Procs -> Int]
  /\ enforcer \in [Enforcers -> Row]
  /\ penalties \in [Bidders -> Nat]
  /\ lapses \in [Bidders -> Nat]
  /\ settled \in Nat
  /\ raised \in [Bidders -> Nat]
  /\ moves \in 0 .. MoveLimit
  /\ elsewhere \in [Bidders -> Int]
  /\ bypassed \subseteq Bidders
  /\ faults \in 0 .. FaultLimit
  /\ late \subseteq {"auction", "wallet"}
  /\ torn \in BOOLEAN

Kind(p)   == job[p].kind
User(p)   == job[p].user
Amount(p) == job[p].amount
Bids(p)   == Kind(p) \in {"http", "ws"}

Init ==
  /\ auction = Unsold
  /\ bids = <<>>
  /\ expired = FALSE
  /\ balance = [w \in Wallets |-> IF w = Creator THEN 0 ELSE Opening]
  /\ auctionKey = Nobody
  /\ walletKey = [w \in Wallets |-> Nobody]
  /\ job = [p \in Procs |-> NoRequest]
  /\ pc = [p \in Procs |-> "idle"]
  /\ doc = [p \in Procs |-> Unsold]
  /\ seen = [p \in Procs |-> 0]
  /\ enforcer = [e \in Enforcers |-> NoRow]
  /\ penalties = [u \in Bidders |-> 0]
  /\ lapses = [u \in Bidders |-> 0]
  /\ settled = 0
  /\ raised = [u \in Bidders |-> 0]
  /\ moves = 0
  /\ elsewhere = [u \in Bidders |-> 0]
  /\ bypassed = {}
  /\ faults = 0
  /\ late = {}
  /\ torn = FALSE

Goto(p, point) == pc' = [pc EXCEPT ![p] = point]
(* What a request knew is of no use once it is over.                       *)
Over(p)        == /\ Goto(p, "done")
                  /\ job' = [job EXCEPT ![p] = NoRequest]
                  /\ doc' = [doc EXCEPT ![p] = Unsold]
                  /\ seen' = [seen EXCEPT ![p] = 0]
Read(p)        == doc' = [doc EXCEPT ![p] = auction]
MinBid(a)      == IF a.amount = 0 THEN StartBid ELSE a.amount + 1
Open           == auction.status = "live" /\ ~expired
Overdue        == auction.status = "live" /\ expired

(* mongoose's save writes a field only if the handler has changed it.      *)
Saved(read, new, stored) == IF new = read THEN stored ELSE new

-----------------------------------------------------------------------------
(* A request comes in.  The creator's end does not look at the auction     *)
(* before it has the key.                                                  *)
Arrive(p) ==
  /\ pc[p] = "idle"
  /\ \E kind \in Handles[p] :
       /\ IF kind \in {"http", "ws"}
          THEN \E u \in Bidders, a \in Amounts :
                 job' = [job EXCEPT ![p] = [kind |-> kind, user |-> u, amount |-> a]]
          ELSE job' = [job EXCEPT ![p].kind = kind]
       /\ Goto(p, IF kind = "end" THEN "lock" ELSE "glance")
  /\ UNCHANGED <<shop, balance, keys, doc, seen, payment, history>>

(* The first, unlocked look of a bid or of a view.                         *)
Glance(p) ==
  /\ pc[p] = "glance"
  /\ IF Overdue /\ Kind(p) \in {"http", "view"}
     THEN Read(p) /\ Goto(p, "close") /\ UNCHANGED <<job, seen>>
     ELSE IF Open /\ Bids(p) /\ Amount(p) >= MinBid(auction)
     THEN Goto(p, "lock") /\ UNCHANGED local
     ELSE Over(p)
  /\ UNCHANGED <<shop, balance, keys, payment, history>>

(* An expired auction waits for its winner's payment.  A bid saves what it *)
(* has changed, so without a bidder no winner; a view sets every field.    *)
Awaiting(p) ==
  LET due == [auction EXCEPT !.status = "awaiting_payment", !.deadline = "open"]
  IN  IF Kind(p) = "http" /\ doc[p].by = Nobody THEN due
      ELSE [due EXCEPT !.winner = doc[p].by, !.winning = doc[p].amount]

Close(p) ==
  /\ pc[p] \in {"close", "closeLocked"}
  /\ auction' = Awaiting(p)
  /\ IF pc[p] = "close" THEN Over(p) ELSE Goto(p, "unlock") /\ UNCHANGED local
  /\ UNCHANGED <<bids, expired, balance, keys, payment, history>>

(* Mutant: SET without NX.                                                 *)
TakeAuctionKeyAlways(p) ==
  /\ pc[p] = "lock"
  /\ auctionKey' = p
  /\ Goto(p, IF Kind(p) = "end" THEN "wallets" ELSE "recheck")
  /\ UNCHANGED <<shop, balance, walletKey, local, payment, history>>

TakeAuctionKey(p) ==
  /\ pc[p] = "lock"
  /\ \/ /\ auctionKey = Nobody
        /\ auctionKey' = p
        /\ Goto(p, IF Kind(p) = "end" THEN "wallets" ELSE "recheck")
        /\ UNCHANGED local
     \/ /\ auctionKey # Nobody
        /\ Over(p)
        /\ UNCHANGED auctionKey
  /\ UNCHANGED <<shop, balance, walletKey, payment, history>>

(* a0: the document under the auction key.                                 *)
Recheck(p) ==
  /\ pc[p] = "recheck"
  /\ Read(p)
  /\ Goto(p, IF Overdue /\ Kind(p) = "http" THEN "closeLocked"
             ELSE IF Open THEN "wallets" ELSE "unlock")
  /\ UNCHANGED <<shop, balance, keys, job, seen, payment, history>>

Needed(p) == IF Kind(p) = "end" THEN {Creator} ELSE {User(p), doc[p].by} \ {Nobody}

(* withOrderedWalletLocks.  A key that is held, here or by a request that  *)
(* has nothing to do with this auction, ends the request.                  *)
TakeWalletKeys(p) ==
  /\ pc[p] = "wallets"
  /\ \/ /\ \A w \in Needed(p) : walletKey[w] = Nobody
        /\ walletKey' = [w \in Wallets |-> IF w \in Needed(p) THEN p ELSE walletKey[w]]
        /\ Goto(p, "read")
     \/ /\ Goto(p, "unlock")
        /\ UNCHANGED walletKey
  /\ UNCHANGED <<shop, balance, auctionKey, local, payment, history>>

(* Mutant: the bid trusts what it has seen before it had the keys.         *)
ReadAuctionOnce(p) ==
  /\ pc[p] = "read"
  /\ Read(p)
  /\ Goto(p, IF Kind(p) = "end" THEN "save" ELSE "balance")
  /\ UNCHANGED <<shop, balance, keys, job, seen, payment, history>>

(* auctionLocked, or what the creator's end reads without looking at the   *)
(* status.                                                                 *)
ReadAuction(p) ==
  /\ pc[p] = "read"
  /\ Read(p)
  /\ Goto(p, CASE Kind(p) = "end" -> "save"
               [] Bids(p) /\ Open /\ Amount(p) >= MinBid(auction) -> "balance"
               [] OTHER -> "unlock")
  /\ UNCHANGED <<shop, balance, keys, job, seen, payment, history>>

(* Whom the bid replaces and has to pay back: not the bidder's own bid.    *)
Outbids(p) == doc[p].by \notin {Nobody, User(p)}

(* Mutant: the balance is not compared with the bid.                       *)
ReadBalanceOnly(p) ==
  /\ pc[p] = "balance"
  /\ seen' = [seen EXCEPT ![p] = balance[User(p)]]
  /\ Goto(p, IF Outbids(p) THEN "refund" ELSE "hold")
  /\ UNCHANGED <<shop, balance, keys, job, doc, payment, history>>

ReadBalance(p) ==
  /\ pc[p] = "balance"
  /\ seen' = [seen EXCEPT ![p] = balance[User(p)]]
  /\ Goto(p, IF balance[User(p)] < Amount(p) THEN "unlock"
             ELSE IF Outbids(p) THEN "refund" ELSE "hold")
  /\ UNCHANGED <<shop, balance, keys, job, doc, payment, history>>

Refund(p) ==
  /\ pc[p] = "refund"
  /\ balance' = [balance EXCEPT ![doc[p].by] = @ + doc[p].amount]
  /\ Goto(p, "hold")
  /\ UNCHANGED <<shop, keys, local, payment, history>>

(* Mutant: the hold takes the difference to the current bid only.          *)
HoldDifference(p) ==
  /\ pc[p] = "hold"
  /\ balance' = [balance EXCEPT ![User(p)] = @ - (Amount(p) - doc[p].amount)]
  /\ Goto(p, "push")
  /\ UNCHANGED <<shop, keys, local, payment, history>>

(* HTTP saves the balance computed from the read, the WebSocket decrements.*)
Hold(p) ==
  /\ pc[p] = "hold"
  /\ balance' = [balance EXCEPT ![User(p)] =
                   (IF Kind(p) = "http" THEN seen[p] ELSE @) - Amount(p)]
  /\ Goto(p, "push")
  /\ UNCHANGED <<shop, keys, local, payment, history>>

PushBid(p) ==
  /\ pc[p] = "push"
  /\ bids' = Append(bids, [by |-> User(p), amount |-> Amount(p)])
  /\ auction' = [auction EXCEPT !.by = Saved(doc[p].by, User(p), @),
                                !.amount = Saved(doc[p].amount, Amount(p), @)]
  /\ raised' = [raised EXCEPT ![User(p)] =
                  @ + IF doc[p].by = User(p) THEN doc[p].amount ELSE 0]
  /\ Goto(p, "unlock")
  /\ UNCHANGED <<expired, balance, keys, local, payment, settled, others, faults, late, torn>>

(* Mutant: a status that the schema does not have.                         *)
EndSold(p) ==
  /\ pc[p] = "save"
  /\ auction' = [auction EXCEPT !.status = "sold", !.winner = doc[p].by, !.winning = doc[p].amount]
  /\ expired' = TRUE
  /\ Goto(p, IF doc[p].by = Nobody THEN "unlock" ELSE "pay")
  /\ UNCHANGED <<bids, balance, keys, local, payment, history>>

(* The creator's end, whatever the status is.                              *)
EndSave(p) ==
  /\ pc[p] = "save"
  /\ auction' = [auction EXCEPT !.status  = Saved(doc[p].status, "ended", @),
                                !.winner  = Saved(doc[p].winner, doc[p].by, @),
                                !.winning = Saved(doc[p].winning, doc[p].amount, @)]
  /\ expired' = TRUE
  /\ Goto(p, IF doc[p].by = Nobody THEN "unlock" ELSE "pay")
  /\ UNCHANGED <<bids, balance, keys, local, payment, history>>

(* Mutant: a credit that was made and has thrown is made again.            *)
PayCreatorAgain(p) ==
  /\ pc[p] = "pay"
  /\ balance' = [balance EXCEPT ![Creator] = @ + doc[p].amount]
  /\ \/ settled' = settled + 1 /\ Goto(p, "unlock") /\ UNCHANGED faults
     \/ faults < FaultLimit /\ faults' = faults + 1 /\ UNCHANGED <<settled, pc>>
  /\ UNCHANGED <<shop, keys, local, payment, raised, others, late, torn>>

PayCreator(p) ==
  /\ pc[p] = "pay"
  /\ balance' = [balance EXCEPT ![Creator] = @ + doc[p].amount]
  /\ settled' = settled + 1
  /\ Goto(p, "unlock")
  /\ UNCHANGED <<shop, keys, local, payment, raised, others, faults, late, torn>>

(* The finally blocks delete the keys whose token is still the request's.  *)
Unlock(p) ==
  /\ pc[p] = "unlock"
  /\ auctionKey' = IF auctionKey = p THEN Nobody ELSE auctionKey
  /\ walletKey' = [w \in Wallets |-> IF walletKey[w] = p THEN Nobody ELSE walletKey[w]]
  /\ Over(p)
  /\ UNCHANGED <<shop, balance, payment, history>>

(* A call throws, and the finally blocks run, or the process dies.         *)
Fail(p) ==
  /\ pc[p] \in Inside \ {"unlock"}
  /\ faults < FaultLimit
  /\ faults' = faults + 1
  /\ torn' = (torn \/ pc[p] \in {"push", "pay"} \/ (pc[p] = "hold" /\ Outbids(p)))
  /\ Goto(p, "unlock") \/ Goto(p, "crashed")
  /\ UNCHANGED <<shop, balance, keys, local, payment, settled, raised, others, late>>

-----------------------------------------------------------------------------
(* endsAt comes.                                                           *)
Expire ==
  /\ ~expired
  /\ expired' = TRUE
  /\ UNCHANGED <<auction, bids, balance, keys, local, pc, payment, history>>

(* Gifts, purchases, payout requests and the like move the same wallets.   *)
(* One that has the wallet's key to itself credits, or debits what is      *)
(* there.                                                                  *)
MoveElsewhere(u) ==
  /\ moves < MoveLimit
  /\ walletKey[u] = Nobody
  /\ \E a \in Amounts, d \in {-1, 1} :
       /\ d = -1 => balance[u] >= a
       /\ balance' = [balance EXCEPT ![u] = @ + d * a]
       /\ elsewhere' = [elsewhere EXCEPT ![u] = @ + d * a]
  /\ moves' = moves + 1
  /\ UNCHANGED <<shop, keys, local, pc, payment, settled, raised, bypassed, faults, late, torn>>

(* One whose locked attempt threw runs again without the key, whoever has  *)
(* it: doDebit takes what is there, doCredit saves the sum of the amount   *)
(* and a balance read at some earlier time.  All that is known of what     *)
(* they leave is that it is not negative (bound: not above Opening).       *)
MoveUnlocked(u) ==
  /\ moves < MoveLimit
  /\ \E left \in 0 .. Opening : balance' = [balance EXCEPT ![u] = left]
  /\ moves' = moves + 1
  /\ bypassed' = bypassed \cup {u}
  /\ UNCHANGED <<shop, keys, local, pc, payment, settled, raised, elsewhere, faults, late, torn>>

(* PX: a key lapses under a request that is too slow, or dead, or economy, *)
(* which deletes whatever key is there, deletes it.                        *)
Lapses(owner, kind) ==
  \/ /\ pc[owner] = "crashed"
     /\ UNCHANGED <<faults, late>>
  \/ /\ pc[owner] # "crashed"
     /\ faults < FaultLimit
     /\ faults' = faults + 1
     /\ late' = late \cup {kind}

AuctionKeyLapses ==
  /\ auctionKey # Nobody
  /\ Lapses(auctionKey, "auction")
  /\ auctionKey' = Nobody
  /\ UNCHANGED <<shop, balance, walletKey, local, pc, payment, settled, raised, others, torn>>

WalletKeyLapses(w) ==
  /\ walletKey[w] # Nobody
  /\ Lapses(walletKey[w], "wallet")
  /\ walletKey' = [walletKey EXCEPT ![w] = Nobody]
  /\ UNCHANGED <<shop, balance, auctionKey, local, pc, payment, settled, raised, others, torn>>

-----------------------------------------------------------------------------
(* Who owes the payment: winnerId ?? currentBidderId.                      *)
Debtor == IF auction.winner # Nobody THEN auction.winner ELSE auction.by

(* A payment window, a day by default, is longer than any request.         *)
Quiet == \A p \in Procs : pc[p] \in {"idle", "done", "crashed"}

DeadlinePasses ==
  /\ Quiet
  /\ auction.status = "awaiting_payment" /\ auction.deadline = "open"
  /\ \/ /\ Debtor # Nobody
        /\ lapses[Debtor] < LapseLimit
        /\ lapses' = [lapses EXCEPT ![Debtor] = @ + 1]
     \/ /\ Debtor = Nobody
        /\ UNCHANGED lapses
  /\ auction' = [auction EXCEPT !.deadline = "lapsed"]
  /\ UNCHANGED <<bids, expired, balance, keys, local, pc, enforcer, penalties, history>>

(* bids[1] of reassignWinner, after its stable sort by falling amount.     *)
Above(i, j) == \/ bids[i].amount > bids[j].amount
               \/ bids[i].amount = bids[j].amount /\ i < j
Second    == {i \in DOMAIN bids : Cardinality({j \in DOMAIN bids : Above(j, i)}) = 1}
SecondBid == IF Second = {} THEN [by |-> Nobody, amount |-> 0] ELSE bids[CHOOSE i \in Second : TRUE]

(* runAuctionPaymentEnforcement finds the auction.  Nothing ever sets      *)
(* paidAt, so every winner is unpaid.                                      *)
Find(e) ==
  /\ enforcer[e].step = "idle"
  /\ auction.status = "awaiting_payment" /\ auction.deadline = "lapsed"
  /\ enforcer' = [enforcer EXCEPT ![e] =
       [step |-> "decide", debtor |-> Debtor, second |-> SecondBid.by, amount |-> SecondBid.amount]]
  /\ UNCHANGED <<shop, balance, keys, local, pc, penalties, lapses, history>>

(* Mutant: the new winner is to pay the standing bid.                      *)
DecisionAtStanding(e) ==
  IF enforcer[e].second = Nobody
  THEN [auction EXCEPT !.status = "defaulted"]
  ELSE [auction EXCEPT !.status = "awaiting_payment", !.deadline = "open",
                       !.winner = enforcer[e].second, !.winning = auction.amount]

Decision(e) ==
  IF enforcer[e].second = Nobody
  THEN [auction EXCEPT !.status = "defaulted"]
  ELSE [auction EXCEPT !.status = "awaiting_payment", !.deadline = "open",
                       !.winner = enforcer[e].second, !.winning = enforcer[e].amount]

(* Mutant: the new winner gets no new deadline.                            *)
DecideOldDeadline(e) ==
  /\ enforcer[e].step = "decide"
  /\ auction' = [Decision(e) EXCEPT !.deadline = auction.deadline]
  /\ enforcer' = [enforcer EXCEPT ![e].step = "penalise"]
  /\ UNCHANGED <<bids, expired, balance, keys, local, pc, penalties, lapses, history>>

(* reassignWinner, or the default, both by id whatever has happened since. *)
Decide(e) ==
  /\ enforcer[e].step = "decide"
  /\ auction' = Decision(e)
  /\ enforcer' = [enforcer EXCEPT ![e].step = "penalise"]
  /\ UNCHANGED <<bids, expired, balance, keys, local, pc, penalties, lapses, history>>

(* penalizeUser: an error is dropped.                                      *)
Penalise(e) ==
  /\ enforcer[e].step = "penalise"
  /\ enforcer' = [enforcer EXCEPT ![e] = NoRow]
  /\ \/ /\ penalties' = [u \in Bidders |-> penalties[u] + IF u = enforcer[e].debtor THEN 1 ELSE 0]
        /\ UNCHANGED faults
     \/ /\ faults < FaultLimit
        /\ faults' = faults + 1
        /\ UNCHANGED penalties
  /\ UNCHANGED <<shop, balance, keys, local, pc, lapses, settled, raised, others, late, torn>>

-----------------------------------------------------------------------------
Step(p) ==
  \/ Arrive(p) \/ Glance(p) \/ Close(p) \/ TakeAuctionKey(p) \/ Recheck(p) \/ TakeWalletKeys(p)
  \/ ReadAuction(p) \/ ReadBalance(p) \/ Refund(p) \/ Hold(p) \/ PushBid(p)
  \/ EndSave(p) \/ PayCreator(p) \/ Unlock(p)

Enforce(e) == Find(e) \/ Decide(e) \/ Penalise(e)

Next ==
  \/ \E p \in Procs : Step(p) \/ Fail(p)
  \/ \E e \in Enforcers : Enforce(e)
  \/ \E w \in Wallets : WalletKeyLapses(w)
  \/ AuctionKeyLapses
  \/ \E u \in Bidders : MoveElsewhere(u) \/ MoveUnlocked(u)
  \/ Expire
  \/ DeadlinePasses

Spec == Init /\ [][Next]_vars

-----------------------------------------------------------------------------
(* No wallet is overdrawn, although the WebSocket's hold decrements without *)
(* a condition: what a bid has read stays covered as long as it has the    *)
(* wallet's key, also when its auction key has lapsed (shop.js:1193,       *)
(* live.js:2387).  The key must not have lapsed under a bid, and no second *)
(* attempt of economy (coins.js:156, 220) have moved this wallet without   *)
(* it: one that comes between the bid's read and its hold overdraws it.    *)
NeverOverdrawn ==
  "wallet" \notin late => \A w \in Wallets \ bypassed : balance[w] >= 0

(* A bidder who is not in the middle of a bid is out of pocket by the      *)
(* standing bid, if it is theirs, and by every bid of their own they have  *)
(* raised, which is never given back (shop.js:1208); everyone else has     *)
(* been refunded in full.  What other requests have moved under the key    *)
(* makes no difference to it; without the key they may save over a hold.   *)
Bidding(u) == \E p \in Procs : pc[p] \in {"hold", "push"} /\ u \in {User(p), doc[p].by}
HeldMatchesBids ==
  late = {} /\ ~torn => \A u \in Bidders \ bypassed :
    \/ Bidding(u)
    \/ balance[u] = Opening + elsewhere[u] - raised[u] - IF auction.by = u THEN auction.amount ELSE 0

(* While the auction key has not lapsed early every bid is above the one   *)
(* before, and the current bid is the last (shop.js:1188, 1233).           *)
BidsRise ==
  "auction" \notin late =>
    /\ \A i \in 1 .. Len(bids) - 1 : bids[i].amount < bids[i+1].amount
    /\ bids # <<>> => bids[Len(bids)] = [by |-> auction.by, amount |-> auction.amount]

(* Every end that has paid the creator, and nothing limits their number,   *)
(* has paid the standing bid: no bid is accepted after an end has read the *)
(* auction (shop.js:1319).                                                 *)
CreatorGetsStandingBid ==
  "auction" \notin late => balance[Creator] = settled * auction.amount

(* Who has not paid is penalised at most once by each enforcer for every   *)
(* deadline they let pass, and nobody else is (auction.worker.js:60).      *)
PenaltiesForLapses ==
  \A u \in Bidders : penalties[u] <= Cardinality(Enforcers) * lapses[u]

(* An auction that has ended stays so, unless a close or an enforcement    *)
(* that holds no key saves what it decided before (shop.js:1027, 1135,     *)
(* reassignment.js:58).                                                    *)
EndedIsFinal ==
  [][auction.status = "ended" /\ late = {} =>
       \/ auction'.status = "ended"
       \/ \E p \in Procs : pc[p] = "close"
       \/ \E e \in Enforcers : enforcer[e].step = "decide"]_vars

(* Whoever is to pay has bid what is to be paid: winner and amount are one *)
(* bid, although closes, ends and enforcements each save the fields they   *)
(* have changed, from documents read at different times (shop.js:1027,     *)
(* 1135, 1327, reassignment.js:53).                                        *)
WinnerOwesOwnBid ==
  "auction" \notin late /\ auction.winner # Nobody =>
    [by |-> auction.winner, amount |-> auction.winning] \in {bids[i] : i \in DOMAIN bids}
=============================================================================

---------------------------- MODULE AuctionProofs -----------------------------
(***************************************************************************)
(* For any number of bidders, requests, enforcers and faults.              *)
(***************************************************************************)
EXTENDS Auction, FiniteSetTheorems, TLAPS

(* The type invariant by parts, each of which most steps leave alone.      *)
ShopType  == auction \in Document /\ bids \in Seq([by : Bidders, amount : Amounts])
             /\ expired \in BOOLEAN
MoneyType == balance \in [Wallets -> Int]
KeyType   == auctionKey \in Procs \cup {Nobody} /\ walletKey \in [Wallets -> Procs \cup {Nobody}]
PcType    == pc \in [Procs -> Points]
LocalType == job \in [Procs -> Request] /\ doc \in [Procs -> Document] /\ seen \in [Procs -> Int]
PayType   == /\ enforcer \in [Enforcers -> Row]
             /\ penalties \in [Bidders -> Nat] /\ lapses \in [Bidders -> Nat]
HistType  == /\ settled \in Nat /\ raised \in [Bidders -> Nat] /\ faults \in 0 .. FaultLimit
             /\ moves \in 0 .. MoveLimit /\ elsewhere \in [Bidders -> Int] /\ bypassed \subseteq Bidders
             /\ late \subseteq {"auction", "wallet"} /\ torn \in BOOLEAN

AllTypes == ShopType /\ MoneyType /\ KeyType /\ PcType /\ LocalType /\ PayType /\ HistType

LEMMA Parts == (TypeOK <=> AllTypes) /\ (TypeOK' <=> AllTypes')
  BY DEF AllTypes, TypeOK, ShopType, MoneyType, KeyType, PcType, LocalType, PayType, HistType

(* What a request does fits what it was asked for.                         *)
Raising == {"balance", "refund", "hold", "push"}
Fit(p) ==
  /\ Bids(p) => User(p) \in Bidders /\ Amount(p) \in Amounts
  /\ pc[p] \in Raising => Bids(p) /\ Amount(p) >= MinBid(doc[p])
  /\ pc[p] = "refund" => Outbids(p)
Fits  == \A p \in Procs : Fit(p)
Typed == TypeOK /\ Fits

LEMMA Money0 == 0 \in Money /\ Amounts \subseteq Money /\ Money \subseteq Nat
  BY NumbersAssumption DEF Money

LEMMA DocAmount == ASSUME AllTypes, NEW p \in Procs
                   PROVE  doc[p] \in Document /\ doc[p].amount \in Nat /\ doc[p].amount \in Int
<1>1. doc[p] \in Document
  BY DEF AllTypes, LocalType
<1>2. doc[p].amount \in Money
  BY <1>1 DEF Document
<1>3. doc[p].amount \in Nat
  BY <1>2, Money0, Zenon
<1>4. QED
  BY <1>1, <1>3

LEMMA AmountIsInt == \A a \in Amounts : a \in Int /\ a > 0 /\ a \in Money
<1> SUFFICES ASSUME NEW a \in Amounts PROVE a \in Int /\ a > 0 /\ a \in Money
  OBVIOUS
<1>1. a \in Nat \ {0}
  BY NumbersAssumption, Zenon
<1>2. QED
  BY <1>1 DEF Money

LEMMA Adds == ASSUME NEW S, NEW f \in [S -> Int], NEW x, NEW d \in Int
              PROVE  [f EXCEPT ![x] = @ + d] \in [S -> Int]
<1>1. CASE x \in S
  BY <1>1
<1>2. CASE x \notin S
  <2>1. [f EXCEPT ![x] = @ + d] = f
    BY <1>2
  <2>2. QED
    BY <2>1
<1>3. QED
  BY <1>1, <1>2

LEMMA InitTyped == Init => Typed
<1> SUFFICES ASSUME Init PROVE Typed
  OBVIOUS
<1>1. 0 \in 0 .. FaultLimit /\ 0 \in 0 .. MoveLimit
  BY NumbersAssumption
<1>2. Unsold \in Document /\ NoRequest \in Request /\ NoRow \in Row
  BY DEF Unsold, Document, Statuses, Someone, Money, NoRequest, Request, Kinds, NoRow, Row
<1>3. ShopType
  <2>1. <<>> \in Seq([by : Bidders, amount : Amounts])
    OBVIOUS
  <2>2. QED
    BY <1>2, <2>1 DEF Init, ShopType
<1>4. MoneyType
  <2>1. Opening \in Int
    BY NumbersAssumption
  <2>2. QED
    BY <2>1 DEF Init, MoneyType
<1>5. KeyType /\ PcType
  BY DEF Init, KeyType, PcType, Points
<1>6. LocalType
  BY <1>2 DEF Init, LocalType
<1>7. PayType
  BY <1>2 DEF Init, PayType
<1>8. HistType
  <2>1. settled \in Nat /\ raised \in [Bidders -> Nat] /\ faults \in 0 .. FaultLimit
    BY <1>1 DEF Init
  <2>2. moves \in 0 .. MoveLimit /\ elsewhere \in [Bidders -> Int] /\ bypassed \subseteq Bidders
    BY <1>1 DEF Init
  <2>3. QED
    BY <2>1, <2>2 DEF Init, HistType
<1>9. Fits
  BY DEF Init, Fits, Fit, Raising, Bids, Kind, NoRequest
<1>10. QED
  BY <1>3, <1>4, <1>5, <1>6, <1>7, <1>8, <1>9, Parts DEF Typed, AllTypes

-----------------------------------------------------------------------------
LEMMA GotoPc == ASSUME PcType, NEW p \in Procs, NEW x \in Points, Goto(p, x)
                PROVE  PcType' /\ pc'[p] = x /\ \A q \in Procs \ {p} : pc'[q] = pc[q]
  BY DEF PcType, Goto

(* Nobody else's request is touched.                                       *)
Alone(p) == \A q \in Procs \ {p} : /\ pc'[q] = pc[q] /\ job'[q] = job[q]
                                   /\ doc'[q] = doc[q] /\ seen'[q] = seen[q]

LEMMA AloneFits == ASSUME Fits, NEW p \in Procs, Alone(p), Fit(p)' PROVE Fits'
  BY DEF Fits, Fit, Alone, Bids, Kind, User, Amount, Raising, MinBid, Outbids

LEMMA OverLocal == ASSUME PcType, LocalType, NEW p \in Procs, Over(p)
                   PROVE  PcType' /\ LocalType' /\ Alone(p) /\ Fit(p)' /\ pc'[p] = "done"
<1>1. "done" \in Points
  BY DEF Points
<1>2. PcType' /\ pc'[p] = "done" /\ \A q \in Procs \ {p} : pc'[q] = pc[q]
  BY <1>1, GotoPc DEF Over
<1>3. Unsold \in Document /\ NoRequest \in Request
  BY DEF Unsold, Document, Statuses, Someone, Money, NoRequest, Request, Kinds
<1>4. LocalType' /\ Alone(p)
  BY <1>2, <1>3 DEF Over, LocalType, Alone
<1>5. Fit(p)'
  BY <1>2 DEF Over, LocalType, Fit, Raising, Bids, Kind, NoRequest
<1>6. QED
  BY <1>2, <1>4, <1>5

LEMMA ReadLocal == ASSUME LocalType, ShopType, NEW p \in Procs, Read(p), UNCHANGED <<job, seen>>
                   PROVE  LocalType' /\ doc'[p] = auction /\ \A q \in Procs \ {p} : doc'[q] = doc[q]
  BY DEF LocalType, ShopType, Read

(* A request that goes on to a point where nothing is asked of it.         *)
LEMMA StepsOn ==
  ASSUME Typed, NEW p \in Procs, NEW x \in Points \ Raising, Goto(p, x), UNCHANGED local
  PROVE  PcType' /\ LocalType' /\ Alone(p) /\ Fits' /\ pc'[p] = x
<1>1. PcType /\ LocalType /\ Fits
  BY Parts DEF Typed, AllTypes
<1>2. PcType' /\ pc'[p] = x /\ \A q \in Procs \ {p} : pc'[q] = pc[q]
  BY <1>1, GotoPc
<1>3. LocalType' /\ Alone(p)
  BY <1>1, <1>2 DEF local, LocalType, Alone
<1>4. Fit(p)'
  BY <1>1, <1>2 DEF Fits, Fit, Raising, local, Bids, Kind, User, Amount
<1>5. QED
  BY <1>1, <1>2, <1>3, <1>4, AloneFits

(* So when it reads the document and goes there.                           *)
LEMMA ReadsOn ==
  ASSUME Typed, NEW p \in Procs, NEW x \in Points \ Raising, Goto(p, x), Read(p), UNCHANGED <<job, seen>>
  PROVE  PcType' /\ LocalType' /\ Alone(p) /\ Fits' /\ pc'[p] = x
<1>1. PcType /\ LocalType /\ ShopType /\ Fits
  BY Parts DEF Typed, AllTypes
<1>2. PcType' /\ pc'[p] = x /\ \A q \in Procs \ {p} : pc'[q] = pc[q]
  BY <1>1, GotoPc
<1>3. LocalType' /\ \A q \in Procs \ {p} : doc'[q] = doc[q]
  BY <1>1, ReadLocal
<1>4. Alone(p)
  BY <1>2, <1>3 DEF Alone
<1>5. Fit(p)'
  BY <1>1, <1>2 DEF Fits, Fit, Raising, Bids, Kind, User, Amount
<1>6. QED
  BY <1>1, <1>2, <1>3, <1>4, <1>5, AloneFits

LEMMA FrameShop == ASSUME ShopType, UNCHANGED shop PROVE ShopType'
  BY DEF ShopType, shop
LEMMA FrameMoney == ASSUME MoneyType, UNCHANGED balance PROVE MoneyType'
  BY DEF MoneyType
LEMMA FrameKeys == ASSUME KeyType, UNCHANGED keys PROVE KeyType'
  BY DEF KeyType, keys
LEMMA FramePay == ASSUME PayType, UNCHANGED payment PROVE PayType'
  BY DEF PayType, payment
LEMMA FrameHistory == ASSUME HistType, UNCHANGED history PROVE HistType'
  BY DEF HistType, history, others
LEMMA FrameLocal == ASSUME LocalType, PcType, Fits, UNCHANGED <<local, pc>>
                    PROVE  LocalType' /\ PcType' /\ Fits'
  BY DEF LocalType, PcType, local, Fits, Fit, Bids, Kind, User, Amount, Raising, MinBid, Outbids

-----------------------------------------------------------------------------
(* One lemma per action: it keeps types and requests fit, and it leaves    *)
(* the requests of others alone.                                           *)
LEMMA ArriveTyped == ASSUME Typed, NEW p \in Procs, Arrive(p) PROVE Typed' /\ Alone(p)
<1>1. ShopType /\ MoneyType /\ KeyType /\ PcType /\ LocalType /\ PayType /\ HistType /\ Fits
  BY Parts DEF Typed, AllTypes
<1>2. ShopType' /\ MoneyType' /\ KeyType' /\ PayType' /\ HistType'
  BY <1>1, FrameShop, FrameMoney, FrameKeys, FramePay, FrameHistory DEF Arrive
<1>3. PICK kind \in Handles[p] :
        /\ IF kind \in {"http", "ws"}
           THEN \E u \in Bidders, a \in Amounts :
                  job' = [job EXCEPT ![p] = [kind |-> kind, user |-> u, amount |-> a]]
           ELSE job' = [job EXCEPT ![p].kind = kind]
        /\ Goto(p, IF kind = "end" THEN "lock" ELSE "glance")
  BY DEF Arrive
<1>4. kind \in Kinds
  BY HandlesAssumption
<1>5. /\ PcType' /\ pc'[p] \in {"lock", "glance"}
      /\ \A q \in Procs \ {p} : pc'[q] = pc[q]
  <2>1. "lock" \in Points /\ "glance" \in Points
    BY DEF Points
  <2>2. QED
    BY <1>1, <1>3, <2>1, GotoPc
<1>6. job' \in [Procs -> Request] /\ \A q \in Procs \ {p} : job'[q] = job[q]
  <2>1. CASE kind \in {"http", "ws"}
    BY <1>1, <1>3, <1>4, <2>1 DEF LocalType, Request, Someone, Money
  <2>2. CASE kind \notin {"http", "ws"}
    BY <1>1, <1>3, <1>4, <2>2 DEF LocalType, Request
  <2>3. QED
    BY <2>1, <2>2
<1>7. (job'[p].kind \in {"http", "ws"} => job'[p].user \in Bidders /\ job'[p].amount \in Amounts)
  BY <1>1, <1>3 DEF LocalType, Request
<1>8. LocalType' /\ Alone(p)
  BY <1>1, <1>5, <1>6 DEF Arrive, LocalType, Alone
<1>9. Fit(p)'
  BY <1>5, <1>7 DEF Fit, Raising, Bids, Kind, User, Amount
<1>10. QED
  BY <1>1, <1>2, <1>5, <1>8, <1>9, AloneFits, Parts DEF Typed, AllTypes

LEMMA GlanceTyped == ASSUME Typed, NEW p \in Procs, Glance(p) PROVE Typed' /\ Alone(p)
<1>1. ShopType /\ MoneyType /\ KeyType /\ PcType /\ LocalType /\ PayType /\ HistType /\ Fits
  BY Parts DEF Typed, AllTypes
<1>2. ShopType' /\ MoneyType' /\ KeyType' /\ PayType' /\ HistType'
  BY <1>1, FrameShop, FrameMoney, FrameKeys, FramePay, FrameHistory DEF Glance
<1>3. "close" \in Points \ Raising /\ "lock" \in Points \ Raising
  BY DEF Points, Raising
<1>4. \/ Read(p) /\ Goto(p, "close") /\ UNCHANGED <<job, seen>>
      \/ Goto(p, "lock") /\ UNCHANGED local
      \/ Over(p)
  BY DEF Glance
<1>5. PcType' /\ LocalType' /\ Alone(p) /\ Fits'
  BY <1>1, <1>3, <1>4, ReadsOn, StepsOn, OverLocal, AloneFits
<1>6. QED
  BY <1>2, <1>5, Parts DEF Typed, AllTypes

LEMMA AwaitingType == ASSUME Typed, NEW p \in Procs PROVE Awaiting(p) \in Document
<1>1. auction \in Document /\ doc[p] \in Document
  BY Parts DEF Typed, AllTypes, ShopType, LocalType
<1>2. "awaiting_payment" \in Statuses
  BY DEF Statuses
<1>3. QED
  BY <1>1, <1>2 DEF Awaiting, Document

LEMMA CloseTyped == ASSUME Typed, NEW p \in Procs, Close(p) PROVE Typed' /\ Alone(p)
<1>1. AllTypes /\ Fits
  BY Parts DEF Typed
<1>2. MoneyType' /\ KeyType' /\ PayType' /\ HistType'
  BY <1>1, FrameMoney, FrameKeys, FramePay, FrameHistory DEF Close, AllTypes
<1>3. ShopType'
  BY <1>1, AwaitingType DEF Close, AllTypes, ShopType
<1>4. Over(p) \/ (Goto(p, "unlock") /\ UNCHANGED local)
  BY DEF Close
<1>5. "unlock" \in Points \ Raising
  BY DEF Points, Inside, Raising
<1>6. PcType' /\ LocalType' /\ Alone(p) /\ Fits'
  BY <1>1, <1>4, <1>5, StepsOn, OverLocal, AloneFits DEF AllTypes
<1>7. QED
  BY <1>2, <1>3, <1>6, Parts DEF Typed, AllTypes

LEMMA TakeAuctionKeyTyped ==
  ASSUME Typed, NEW p \in Procs, TakeAuctionKey(p) PROVE Typed' /\ Alone(p)
<1>1. AllTypes /\ Fits
  BY Parts DEF Typed
<1>2. ShopType' /\ MoneyType' /\ PayType' /\ HistType'
  BY <1>1, FrameShop, FrameMoney, FramePay, FrameHistory DEF TakeAuctionKey, AllTypes
<1>3. KeyType'
  BY <1>1 DEF TakeAuctionKey, AllTypes, KeyType
<1>4. \/ Over(p)
      \/ Goto(p, "wallets") /\ UNCHANGED local
      \/ Goto(p, "recheck") /\ UNCHANGED local
  BY DEF TakeAuctionKey
<1>5. "wallets" \in Points \ Raising /\ "recheck" \in Points \ Raising
  BY DEF Points, Inside, Raising
<1>6. PcType' /\ LocalType' /\ Alone(p) /\ Fits'
  BY <1>1, <1>4, <1>5, StepsOn, OverLocal, AloneFits DEF AllTypes
<1>7. QED
  BY <1>2, <1>3, <1>6, Parts DEF Typed, AllTypes

LEMMA RecheckTyped == ASSUME Typed, NEW p \in Procs, Recheck(p) PROVE Typed' /\ Alone(p)
<1>1. AllTypes /\ Fits
  BY Parts DEF Typed
<1>2. ShopType' /\ MoneyType' /\ KeyType' /\ PayType' /\ HistType'
  BY <1>1, FrameShop, FrameMoney, FrameKeys, FramePay, FrameHistory DEF Recheck, AllTypes
<1>3. /\ Read(p) /\ UNCHANGED <<job, seen>>
      /\ Goto(p, "closeLocked") \/ Goto(p, "wallets") \/ Goto(p, "unlock")
  BY DEF Recheck
<1>4. {"closeLocked", "wallets", "unlock"} \subseteq Points \ Raising
  BY DEF Points, Inside, Raising
<1>5. PcType' /\ LocalType' /\ Alone(p) /\ Fits'
  BY <1>3, <1>4, ReadsOn
<1>6. QED
  BY <1>2, <1>5, Parts DEF Typed, AllTypes

LEMMA TakeWalletKeysTyped ==
  ASSUME Typed, NEW p \in Procs, TakeWalletKeys(p) PROVE Typed' /\ Alone(p)
<1>1. AllTypes /\ Fits
  BY Parts DEF Typed
<1>2. ShopType' /\ MoneyType' /\ PayType' /\ HistType'
  BY <1>1, FrameShop, FrameMoney, FramePay, FrameHistory DEF TakeWalletKeys, AllTypes
<1>3. KeyType'
  BY <1>1 DEF TakeWalletKeys, AllTypes, KeyType
<1>4. (Goto(p, "read") \/ Goto(p, "unlock")) /\ UNCHANGED local
  BY DEF TakeWalletKeys
<1>5. {"read", "unlock"} \subseteq Points \ Raising
  BY DEF Points, Inside, Raising
<1>6. PcType' /\ LocalType' /\ Alone(p) /\ Fits'
  BY <1>4, <1>5, StepsOn
<1>7. QED
  BY <1>2, <1>3, <1>6, Parts DEF Typed, AllTypes

LEMMA ReadAuctionTyped ==
  ASSUME Typed, NEW p \in Procs, ReadAuction(p) PROVE Typed' /\ Alone(p)
<1>1. AllTypes /\ Fits
  BY Parts DEF Typed
<1>2. ShopType' /\ MoneyType' /\ KeyType' /\ PayType' /\ HistType'
  BY <1>1, FrameShop, FrameMoney, FrameKeys, FramePay, FrameHistory DEF ReadAuction, AllTypes
<1>3. CASE Goto(p, "save") \/ Goto(p, "unlock")
  <2>1. {"save", "unlock"} \subseteq Points \ Raising
    BY DEF Points, Inside, Raising
  <2>2. PcType' /\ LocalType' /\ Alone(p) /\ Fits'
    BY <1>3, <2>1, ReadsOn DEF ReadAuction
  <2>3. QED
    BY <1>2, <2>2, Parts DEF Typed, AllTypes
<1>4. CASE Bids(p) /\ Amount(p) >= MinBid(auction) /\ Goto(p, "balance")
  <2>1. "balance" \in Points
    BY DEF Points, Inside
  <2>2. PcType' /\ pc'[p] = "balance" /\ \A q \in Procs \ {p} : pc'[q] = pc[q]
    BY <1>1, <1>4, <2>1, GotoPc DEF AllTypes
  <2>3. /\ LocalType' /\ doc'[p] = auction /\ UNCHANGED job
        /\ \A q \in Procs \ {p} : doc'[q] = doc[q]
    BY <1>1, ReadLocal DEF ReadAuction, AllTypes
  <2>4. Alone(p)
    BY <2>2, <2>3 DEF Alone, ReadAuction
  <2>5. Fit(p)'
    BY <1>1, <1>4, <2>2, <2>3 DEF Fits, Fit, Bids, Kind, User, Amount, MinBid
  <2>6. QED
    BY <1>1, <1>2, <2>2, <2>3, <2>4, <2>5, AloneFits, Parts DEF Typed, AllTypes
<1>5. QED
  BY <1>3, <1>4 DEF ReadAuction

LEMMA ReadBalanceTyped ==
  ASSUME Typed, NEW p \in Procs, ReadBalance(p) PROVE Typed' /\ Alone(p)
<1>1. AllTypes /\ Fits
  BY Parts DEF Typed
<1>2. ShopType' /\ MoneyType' /\ KeyType' /\ PayType' /\ HistType'
  BY <1>1, FrameShop, FrameMoney, FrameKeys, FramePay, FrameHistory DEF ReadBalance, AllTypes
<1>3. Fit(p) /\ pc[p] = "balance"
  BY <1>1 DEF Fits, ReadBalance
<1>4. User(p) \in Bidders /\ balance[User(p)] \in Int
  BY <1>1, <1>3 DEF Fit, Raising, AllTypes, MoneyType, Wallets
<1>5. LocalType'
  BY <1>1, <1>4 DEF AllTypes, LocalType, ReadBalance
<1>6. /\ Goto(p, "unlock") \/ (Outbids(p) /\ Goto(p, "refund")) \/ Goto(p, "hold")
      /\ UNCHANGED <<job, doc>>
  BY DEF ReadBalance
<1>7. {"unlock", "refund", "hold"} \subseteq Points
  BY DEF Points, Inside
<1>8. /\ PcType' /\ pc'[p] \in {"unlock", "refund", "hold"}
      /\ pc'[p] = "refund" => Outbids(p)
      /\ \A q \in Procs \ {p} : pc'[q] = pc[q]
  BY <1>1, <1>6, <1>7, GotoPc DEF AllTypes
<1>9. Alone(p)
  BY <1>8, <1>1 DEF Alone, ReadBalance, AllTypes, LocalType
<1>10. Fit(p)'
  BY <1>3, <1>6, <1>8 DEF Fit, Raising, Bids, Kind, User, Amount, MinBid, Outbids
<1>11. QED
  BY <1>1, <1>2, <1>5, <1>8, <1>9, <1>10, AloneFits, Parts DEF Typed, AllTypes

(* A bid goes on from one await of its raising to the next.                *)
LEMMA Raises ==
  ASSUME Typed, NEW p \in Procs, pc[p] \in Raising, NEW x \in {"hold", "push"}, Goto(p, x),
         UNCHANGED local
  PROVE  PcType' /\ LocalType' /\ Alone(p) /\ Fits' /\ pc'[p] = x
<1>1. AllTypes /\ Fits
  BY Parts DEF Typed
<1>2. x \in Points
  BY DEF Points, Inside
<1>3. PcType' /\ pc'[p] = x /\ \A q \in Procs \ {p} : pc'[q] = pc[q]
  BY <1>1, <1>2, GotoPc DEF AllTypes
<1>4. LocalType' /\ Alone(p)
  BY <1>1, <1>3 DEF AllTypes, local, LocalType, Alone
<1>5. Fit(p)'
  BY <1>1, <1>3 DEF Fits, Fit, Raising, local, Bids, Kind, User, Amount, MinBid
<1>6. QED
  BY <1>1, <1>3, <1>4, <1>5, AloneFits

LEMMA RefundTyped == ASSUME Typed, NEW p \in Procs, Refund(p) PROVE Typed' /\ Alone(p)
<1>1. AllTypes /\ Fits
  BY Parts DEF Typed
<1>2. ShopType' /\ KeyType' /\ PayType' /\ HistType'
  BY <1>1, FrameShop, FrameKeys, FramePay, FrameHistory DEF Refund, AllTypes
<1>3. doc[p].amount \in Int
  BY <1>1, DocAmount
<1>4. MoneyType'
  BY <1>1, <1>3, Adds DEF AllTypes, MoneyType, Refund
<1>5. PcType' /\ LocalType' /\ Alone(p) /\ Fits'
  BY Raises DEF Refund, Raising
<1>6. QED
  BY <1>2, <1>4, <1>5, Parts DEF Typed, AllTypes

LEMMA HoldTyped == ASSUME Typed, NEW p \in Procs, Hold(p) PROVE Typed' /\ Alone(p)
<1>1. AllTypes /\ Fits
  BY Parts DEF Typed
<1>2. ShopType' /\ KeyType' /\ PayType' /\ HistType'
  BY <1>1, FrameShop, FrameKeys, FramePay, FrameHistory DEF Hold, AllTypes
<1>3. User(p) \in Wallets /\ Amount(p) \in Int
  <2>1. User(p) \in Bidders /\ Amount(p) \in Amounts
    BY <1>1 DEF Fits, Fit, Hold, Raising
  <2>2. QED
    BY <2>1, AmountIsInt DEF Wallets
<1>4. MoneyType'
  <2>1. seen[p] - Amount(p) \in Int /\ balance[User(p)] - Amount(p) \in Int
    BY <1>1, <1>3 DEF AllTypes, LocalType, MoneyType
  <2>2. QED
    BY <1>1, <1>3, <2>1 DEF AllTypes, MoneyType, Hold
<1>5. PcType' /\ LocalType' /\ Alone(p) /\ Fits'
  BY Raises DEF Hold, Raising
<1>6. QED
  BY <1>2, <1>4, <1>5, Parts DEF Typed, AllTypes

LEMMA PushBidTyped == ASSUME Typed, NEW p \in Procs, PushBid(p) PROVE Typed' /\ Alone(p)
<1>1. AllTypes /\ Fits
  BY Parts DEF Typed
<1>2. MoneyType' /\ KeyType' /\ PayType'
  BY <1>1, FrameMoney, FrameKeys, FramePay DEF PushBid, AllTypes
<1>3. User(p) \in Bidders /\ Amount(p) \in Amounts
  BY <1>1 DEF Fits, Fit, PushBid, Raising
<1>4. auction \in Document /\ doc[p] \in Document
  BY <1>1 DEF AllTypes, ShopType, LocalType
<1>5. auction' \in Document
  BY <1>3, <1>4 DEF PushBid, Saved, Document, Someone, Money
<1>6. bids' \in Seq([by : Bidders, amount : Amounts])
  <2>1. [by |-> User(p), amount |-> Amount(p)] \in [by : Bidders, amount : Amounts]
    BY <1>3
  <2>2. QED
    BY <1>1, <2>1 DEF PushBid, AllTypes, ShopType
<1>7. ShopType'
  BY <1>1, <1>5, <1>6 DEF PushBid, AllTypes, ShopType
<1>8. doc[p].amount \in Nat
  BY <1>1, DocAmount
<1>9. HistType'
  <2>1. raised' \in [Bidders -> Nat]
    BY <1>1, <1>3, <1>8 DEF PushBid, AllTypes, HistType
  <2>2. QED
    BY <1>1, <2>1 DEF PushBid, AllTypes, HistType, others
<1>10. "unlock" \in Points \ Raising
  BY DEF Points, Inside, Raising
<1>11. PcType' /\ LocalType' /\ Alone(p) /\ Fits'
  BY <1>10, StepsOn DEF PushBid
<1>12. QED
  BY <1>2, <1>7, <1>9, <1>11, Parts DEF Typed, AllTypes

LEMMA EndSaveTyped == ASSUME Typed, NEW p \in Procs, EndSave(p) PROVE Typed' /\ Alone(p)
<1>1. AllTypes /\ Fits
  BY Parts DEF Typed
<1>2. MoneyType' /\ KeyType' /\ PayType' /\ HistType'
  BY <1>1, FrameMoney, FrameKeys, FramePay, FrameHistory DEF EndSave, AllTypes
<1>3. auction \in Document /\ doc[p] \in Document
  BY <1>1 DEF AllTypes, ShopType, LocalType
<1>4. auction' \in Document
  BY <1>3 DEF EndSave, Saved, Document, Statuses
<1>5. ShopType'
  BY <1>1, <1>4 DEF EndSave, AllTypes, ShopType
<1>6. {"unlock", "pay"} \subseteq Points \ Raising
  BY DEF Points, Inside, Raising
<1>7. (Goto(p, "unlock") \/ Goto(p, "pay")) /\ UNCHANGED local
  BY DEF EndSave
<1>8. PcType' /\ LocalType' /\ Alone(p) /\ Fits'
  BY <1>6, <1>7, StepsOn
<1>9. QED
  BY <1>2, <1>5, <1>8, Parts DEF Typed, AllTypes

LEMMA PayCreatorTyped ==
  ASSUME Typed, NEW p \in Procs, PayCreator(p) PROVE Typed' /\ Alone(p)
<1>1. AllTypes /\ Fits
  BY Parts DEF Typed
<1>2. ShopType' /\ KeyType' /\ PayType'
  BY <1>1, FrameShop, FrameKeys, FramePay DEF PayCreator, AllTypes
<1>3. doc[p].amount \in Int
  BY <1>1, DocAmount
<1>4. MoneyType' /\ HistType'
  <2>1. MoneyType'
    BY <1>1, <1>3, Adds DEF AllTypes, MoneyType, PayCreator
  <2>2. HistType'
    BY <1>1 DEF AllTypes, HistType, PayCreator, others
  <2>3. QED
    BY <2>1, <2>2
<1>5. "unlock" \in Points \ Raising
  BY DEF Points, Inside, Raising
<1>6. PcType' /\ LocalType' /\ Alone(p) /\ Fits'
  BY <1>5, StepsOn DEF PayCreator
<1>7. QED
  BY <1>2, <1>4, <1>6, Parts DEF Typed, AllTypes

LEMMA UnlockTyped == ASSUME Typed, NEW p \in Procs, Unlock(p) PROVE Typed' /\ Alone(p)
<1>1. AllTypes /\ Fits
  BY Parts DEF Typed
<1>2. ShopType' /\ MoneyType' /\ PayType' /\ HistType'
  BY <1>1, FrameShop, FrameMoney, FramePay, FrameHistory DEF Unlock, AllTypes
<1>3. KeyType'
  BY <1>1 DEF AllTypes, KeyType, Unlock
<1>4. PcType' /\ LocalType' /\ Alone(p) /\ Fits'
  BY <1>1, OverLocal, AloneFits DEF Unlock, AllTypes
<1>5. QED
  BY <1>2, <1>3, <1>4, Parts DEF Typed, AllTypes

LEMMA FailTyped == ASSUME Typed, NEW p \in Procs, Fail(p) PROVE Typed' /\ Alone(p)
<1>1. AllTypes /\ Fits
  BY Parts DEF Typed
<1>2. ShopType' /\ MoneyType' /\ KeyType' /\ PayType'
  BY <1>1, FrameShop, FrameMoney, FrameKeys, FramePay DEF Fail, AllTypes
<1>3. faults' \in 0 .. FaultLimit
  BY <1>1, NumbersAssumption DEF AllTypes, HistType, Fail
<1>4. HistType'
  BY <1>1, <1>3 DEF AllTypes, HistType, Fail, others
<1>5. {"unlock", "crashed"} \subseteq Points \ Raising
  BY DEF Points, Inside, Raising
<1>6. (Goto(p, "unlock") \/ Goto(p, "crashed")) /\ UNCHANGED local
  BY DEF Fail
<1>7. PcType' /\ LocalType' /\ Alone(p) /\ Fits'
  BY <1>5, <1>6, StepsOn
<1>8. QED
  BY <1>2, <1>4, <1>7, Parts DEF Typed, AllTypes

-----------------------------------------------------------------------------
LEMMA ExpireTyped == ASSUME Typed, Expire PROVE Typed'
<1>1. AllTypes /\ Fits
  BY Parts DEF Typed
<1>2. MoneyType' /\ KeyType' /\ PayType' /\ HistType'
  BY <1>1, FrameMoney, FrameKeys, FramePay, FrameHistory DEF Expire, AllTypes
<1>3. ShopType'
  BY <1>1 DEF AllTypes, ShopType, Expire
<1>4. LocalType' /\ PcType' /\ Fits'
  BY <1>1, FrameLocal DEF Expire, AllTypes
<1>5. QED
  BY <1>2, <1>3, <1>4, Parts DEF Typed, AllTypes

LEMMA LapsesTyped ==
  ASSUME HistType, NEW owner, NEW kind \in {"auction", "wallet"}, Lapses(owner, kind),
         UNCHANGED <<settled, raised, others, torn>>
  PROVE  HistType'
<1>1. faults' \in 0 .. FaultLimit
  BY NumbersAssumption DEF Lapses, HistType
<1>2. late' \subseteq {"auction", "wallet"}
  BY DEF Lapses, HistType
<1>3. QED
  BY <1>1, <1>2 DEF HistType, others

LEMMA AuctionKeyLapsesTyped == ASSUME Typed, AuctionKeyLapses PROVE Typed'
<1>1. AllTypes /\ Fits
  BY Parts DEF Typed
<1>2. ShopType' /\ MoneyType' /\ PayType'
  BY <1>1, FrameShop, FrameMoney, FramePay DEF AuctionKeyLapses, AllTypes
<1>3. KeyType'
  BY <1>1 DEF AllTypes, KeyType, AuctionKeyLapses
<1>4. HistType'
  BY <1>1, LapsesTyped DEF AuctionKeyLapses, AllTypes
<1>5. LocalType' /\ PcType' /\ Fits'
  BY <1>1, FrameLocal DEF AuctionKeyLapses, AllTypes
<1>6. QED
  BY <1>2, <1>3, <1>4, <1>5, Parts DEF Typed, AllTypes

LEMMA WalletKeyLapsesTyped ==
  ASSUME Typed, NEW w \in Wallets, WalletKeyLapses(w) PROVE Typed'
<1>1. AllTypes /\ Fits
  BY Parts DEF Typed
<1>2. ShopType' /\ MoneyType' /\ PayType'
  BY <1>1, FrameShop, FrameMoney, FramePay DEF WalletKeyLapses, AllTypes
<1>3. KeyType'
  BY <1>1 DEF AllTypes, KeyType, WalletKeyLapses
<1>4. HistType'
  BY <1>1, LapsesTyped DEF WalletKeyLapses, AllTypes
<1>5. LocalType' /\ PcType' /\ Fits'
  BY <1>1, FrameLocal DEF WalletKeyLapses, AllTypes
<1>6. QED
  BY <1>2, <1>3, <1>4, <1>5, Parts DEF Typed, AllTypes

LEMMA DeadlinePassesTyped == ASSUME Typed, DeadlinePasses PROVE Typed'
<1>1. AllTypes /\ Fits
  BY Parts DEF Typed
<1>2. MoneyType' /\ KeyType' /\ HistType'
  BY <1>1, FrameMoney, FrameKeys, FrameHistory DEF DeadlinePasses, AllTypes
<1>3. ShopType'
  BY <1>1 DEF AllTypes, ShopType, DeadlinePasses, Document
<1>4. Debtor \in Bidders \/ Debtor = Nobody
  BY <1>1 DEF AllTypes, ShopType, Document, Debtor, Someone
<1>5. PayType'
  BY <1>1, <1>4 DEF AllTypes, PayType, DeadlinePasses
<1>6. LocalType' /\ PcType' /\ Fits'
  BY <1>1, FrameLocal DEF DeadlinePasses, AllTypes
<1>7. QED
  BY <1>2, <1>3, <1>5, <1>6, Parts DEF Typed, AllTypes

LEMMA ElementInSeq == ASSUME NEW S, NEW s \in Seq(S), NEW i \in 1 .. Len(s) PROVE s[i] \in S
  OBVIOUS

LEMMA SecondBidType == ASSUME ShopType PROVE SecondBid.by \in Someone /\ SecondBid.amount \in Money
<1>1. CASE Second = {}
  BY <1>1 DEF SecondBid, Someone, Money
<1>2. CASE Second # {}
  <2>1. (CHOOSE i \in Second : TRUE) \in DOMAIN bids
    BY <1>2 DEF Second
  <2>2. PICK i \in DOMAIN bids : i = CHOOSE j \in Second : TRUE
    BY <2>1
  <2>3. bids[i] \in [by : Bidders, amount : Amounts]
    <3>1. bids \in Seq([by : Bidders, amount : Amounts])
      BY DEF ShopType
    <3>2. i \in 1 .. Len(bids)
      BY <3>1
    <3>3. QED
      BY <3>1, <3>2, ElementInSeq
  <2>4. SecondBid = bids[i]
    BY <1>2, <2>2, Zenon DEF SecondBid
  <2>5. QED
    BY <2>3, <2>4 DEF Someone, Money
<1>3. QED
  BY <1>1, <1>2

LEMMA FindTyped == ASSUME Typed, NEW e \in Enforcers, Find(e) PROVE Typed'
<1>1. AllTypes /\ Fits
  BY Parts DEF Typed
<1>2. ShopType' /\ MoneyType' /\ KeyType' /\ HistType'
  BY <1>1, FrameShop, FrameMoney, FrameKeys, FrameHistory DEF Find, AllTypes
<1>3. Debtor \in Someone
  BY <1>1 DEF AllTypes, ShopType, Document, Debtor
<1>4. [step |-> "decide", debtor |-> Debtor, second |-> SecondBid.by, amount |-> SecondBid.amount] \in Row
  BY <1>1, <1>3, SecondBidType DEF Row, AllTypes
<1>5. PayType'
  BY <1>1, <1>4 DEF AllTypes, PayType, Find
<1>6. LocalType' /\ PcType' /\ Fits'
  BY <1>1, FrameLocal DEF Find, AllTypes
<1>7. QED
  BY <1>2, <1>5, <1>6, Parts DEF Typed, AllTypes

LEMMA DecideTyped == ASSUME Typed, NEW e \in Enforcers, Decide(e) PROVE Typed'
<1>1. AllTypes /\ Fits
  BY Parts DEF Typed
<1>2. MoneyType' /\ KeyType' /\ HistType'
  BY <1>1, FrameMoney, FrameKeys, FrameHistory DEF Decide, AllTypes
<1>3. enforcer[e] \in Row
  BY <1>1 DEF AllTypes, PayType
<1>4. auction \in Document /\ Decision(e) \in Document
  BY <1>1, <1>3 DEF AllTypes, ShopType, Decision, Document, Row, Statuses
<1>5. ShopType'
  BY <1>1, <1>4 DEF AllTypes, ShopType, Decide
<1>6. PayType'
  BY <1>1, <1>3 DEF AllTypes, PayType, Decide, Row
<1>7. LocalType' /\ PcType' /\ Fits'
  BY <1>1, FrameLocal DEF Decide, AllTypes
<1>8. QED
  BY <1>2, <1>5, <1>6, <1>7, Parts DEF Typed, AllTypes

LEMMA PenaliseTyped == ASSUME Typed, NEW e \in Enforcers, Penalise(e) PROVE Typed'
<1>1. AllTypes /\ Fits
  BY Parts DEF Typed
<1>2. ShopType' /\ MoneyType' /\ KeyType'
  BY <1>1, FrameShop, FrameMoney, FrameKeys DEF Penalise, AllTypes
<1>3. faults' \in 0 .. FaultLimit
  BY <1>1, NumbersAssumption DEF AllTypes, HistType, Penalise
<1>4. HistType'
  BY <1>1, <1>3 DEF AllTypes, HistType, Penalise, others
<1>5. NoRow \in Row
  BY DEF NoRow, Row, Someone, Money
<1>6. enforcer' \in [Enforcers -> Row]
  BY <1>1, <1>5 DEF AllTypes, PayType, Penalise
<1>7. penalties' \in [Bidders -> Nat]
  BY <1>1 DEF AllTypes, PayType, Penalise
<1>8. PayType'
  BY <1>1, <1>6, <1>7 DEF AllTypes, PayType, Penalise
<1>9. LocalType' /\ PcType' /\ Fits'
  BY <1>1, FrameLocal DEF Penalise, AllTypes
<1>10. QED
  BY <1>2, <1>4, <1>8, <1>9, Parts DEF Typed, AllTypes

(* A request that is not of the auction moves one bidder's wallet and what *)
(* is known of such movements, and nothing else.                           *)
OthersMove == \E u \in Bidders : MoveElsewhere(u) \/ MoveUnlocked(u)

LEMMA OthersFrame ==
  ASSUME OthersMove
  PROVE  UNCHANGED <<shop, keys, local, pc, payment, settled, raised, faults, late, torn>>
  BY DEF OthersMove, MoveElsewhere, MoveUnlocked

LEMMA MoveElsewhereTyped ==
  ASSUME AllTypes, NEW u \in Bidders, MoveElsewhere(u) PROVE MoneyType' /\ HistType'
<1>1. PICK a \in Amounts, d \in {-1, 1} :
        /\ balance' = [balance EXCEPT ![u] = @ + d * a]
        /\ elsewhere' = [elsewhere EXCEPT ![u] = @ + d * a]
  BY DEF MoveElsewhere
<1>2. d * a \in Int
  <2>1. a \in Int /\ d \in Int
    BY AmountIsInt
  <2>2. QED
    BY <2>1
<1>3. MoneyType' /\ elsewhere' \in [Bidders -> Int]
  BY <1>1, <1>2, Adds DEF AllTypes, MoneyType, HistType
<1>4. moves' \in 0 .. MoveLimit
  BY NumbersAssumption DEF MoveElsewhere, AllTypes, HistType
<1>5. QED
  BY <1>3, <1>4 DEF MoveElsewhere, AllTypes, HistType

LEMMA MoveUnlockedTyped ==
  ASSUME AllTypes, NEW u \in Bidders, MoveUnlocked(u) PROVE MoneyType' /\ HistType'
<1>1. PICK left \in 0 .. Opening : balance' = [balance EXCEPT ![u] = left]
  BY DEF MoveUnlocked
<1>2. left \in Int
  BY NumbersAssumption
<1>3. MoneyType'
  BY <1>1, <1>2 DEF AllTypes, MoneyType
<1>4. moves' \in 0 .. MoveLimit
  BY NumbersAssumption DEF MoveUnlocked, AllTypes, HistType
<1>5. QED
  BY <1>3, <1>4 DEF MoveUnlocked, AllTypes, HistType

LEMMA OthersTyped == ASSUME Typed, OthersMove PROVE Typed'
<1>1. AllTypes /\ Fits
  BY Parts DEF Typed
<1>2. MoneyType' /\ HistType'
  BY <1>1, MoveElsewhereTyped, MoveUnlockedTyped DEF OthersMove
<1>3. ShopType' /\ KeyType' /\ PayType' /\ LocalType' /\ PcType' /\ Fits'
  BY <1>1, OthersFrame, FrameShop, FrameKeys, FramePay, FrameLocal DEF AllTypes
<1>4. QED
  BY <1>2, <1>3, Parts DEF Typed, AllTypes

LEMMA TypedInductive == Typed /\ [Next]_vars => Typed'
<1> SUFFICES ASSUME Typed, [Next]_vars PROVE Typed'
  OBVIOUS
<1>1. CASE \E p \in Procs : Step(p) \/ Fail(p)
  BY <1>1, ArriveTyped, GlanceTyped, CloseTyped, TakeAuctionKeyTyped, RecheckTyped,
     TakeWalletKeysTyped, ReadAuctionTyped, ReadBalanceTyped, RefundTyped, HoldTyped,
     PushBidTyped, EndSaveTyped, PayCreatorTyped, UnlockTyped, FailTyped, Zenon DEF Step
<1>2. CASE \E e \in Enforcers : Enforce(e)
  BY <1>2, FindTyped, DecideTyped, PenaliseTyped, Zenon DEF Enforce
<1>3. CASE (\E w \in Wallets : WalletKeyLapses(w)) \/ AuctionKeyLapses \/ Expire \/ DeadlinePasses
  BY <1>3, WalletKeyLapsesTyped, AuctionKeyLapsesTyped, ExpireTyped, DeadlinePassesTyped, Zenon
<1>4. CASE UNCHANGED vars
  <2>1. AllTypes /\ Fits
    BY Parts DEF Typed
  <2>2. ShopType' /\ MoneyType' /\ KeyType' /\ PayType' /\ HistType'
    BY <1>4, <2>1, FrameShop, FrameMoney, FrameKeys, FramePay, FrameHistory DEF vars, AllTypes
  <2>3. LocalType' /\ PcType' /\ Fits'
    BY <1>4, <2>1, FrameLocal DEF vars, AllTypes
  <2>4. QED
    BY <2>2, <2>3, Parts DEF Typed, AllTypes
<1>5. CASE OthersMove
  BY <1>5, OthersTyped
<1>6. QED
  BY <1>1, <1>2, <1>3, <1>4, <1>5 DEF Next, OthersMove

(* Every variable keeps its type, whoever acts in whatever order.          *)
THEOREM TypeCorrect == Spec => []TypeOK
<1>1. Typed => TypeOK
  BY DEF Typed
<1>2. QED
  BY <1>1, InitTyped, TypedInductive, PTL DEF Spec

-----------------------------------------------------------------------------
(* What the auction key gives the request that holds it, unless it lapses  *)
(* too early: the document it has read keeps its bid, and no end comes in  *)
(* between.                                                                *)
Guards(p) ==
  /\ pc[p] \in Inside => auctionKey = p
  /\ pc[p] \in Raising \cup {"save", "pay"} => /\ doc[p].by = auction.by
                                             /\ doc[p].amount = auction.amount
  /\ pc[p] = "closeLocked" => auction.status # "ended"
  /\ pc[p] \in Raising => settled = 0
Exclusive == "auction" \notin late => \A p \in Procs : Guards(p)

(* An auction that is no longer live never is again, so that one which has *)
(* been paid for takes no bid.                                             *)
Final ==
  /\ settled > 0 => auction.status # "live"
  /\ \A p \in Procs : doc[p].status # "live" \/ pc[p] = "pay" => auction.status # "live"

(* A step of one request.                                                  *)
LEMMA StepExclusive ==
  ASSUME Typed, Typed', Exclusive, NEW p \in Procs, Alone(p),
         UNCHANGED late, "auction" \notin late => Guards(p)',
         \/ pc[p] \in Inside
         \/ /\ UNCHANGED <<settled, auction.by, auction.amount>>
            /\ auctionKey \in {auctionKey', Nobody}
            /\ auction'.status = "ended" => auction.status = "ended"
  PROVE  Exclusive'
<1> SUFFICES ASSUME "auction" \notin late, NEW q \in Procs \ {p} PROVE Guards(q)'
  BY DEF Exclusive
<1>1. Guards(p) /\ Guards(q)
  BY DEF Exclusive
<1>2. pc'[q] = pc[q] /\ doc'[q] = doc[q]
  BY DEF Alone
<1>3. q # Nobody
  BY NobodyAssumption
<1>4. Raising \cup {"save", "pay", "closeLocked"} \subseteq Inside
  BY DEF Raising, Inside
<1>5. CASE pc[p] \in Inside
  BY <1>1, <1>2, <1>4, <1>5 DEF Guards
<1>6. CASE pc[p] \notin Inside
  BY <1>1, <1>2, <1>3, <1>4, <1>6 DEF Guards
<1>7. QED
  BY <1>5, <1>6

(* A step that changes no request.                                         *)
LEMMA OtherExclusive ==
  ASSUME Exclusive, UNCHANGED <<pc, doc, settled, auctionKey>>, late \subseteq late',
         auction'.by = auction.by, auction'.amount = auction.amount,
         auction'.status = "ended" => auction.status = "ended"
  PROVE  Exclusive'
  BY DEF Exclusive, Guards

Unguarded == {"idle", "glance", "close", "lock", "done", "crashed"}

(* Steps at which a request takes, loses or does not need the key.         *)
LEMMA OutsideGuards ==
  ASSUME NEW p \in Procs, pc'[p] \in Unguarded PROVE Guards(p)'
  BY DEF Guards, Unguarded, Inside, Raising

LEMMA UnlockingGuards ==
  ASSUME NEW p \in Procs, pc'[p] \in {"wallets", "recheck", "read", "unlock"}, auctionKey' = p
  PROVE  Guards(p)'
  BY DEF Guards, Inside, Raising

LEMMA OverExclusive ==
  ASSUME Typed, NEW p \in Procs, Over(p) PROVE pc'[p] = "done" /\ Guards(p)'
<1>1. pc'[p] = "done"
  BY OverLocal, Parts DEF Typed, AllTypes
<1>2. QED
  BY <1>1, OutsideGuards DEF Unguarded

LEMMA GoesTo == ASSUME Typed, NEW p \in Procs, NEW x, Goto(p, x) PROVE pc'[p] = x
  BY Parts DEF Typed, AllTypes, PcType, Goto

LEMMA InsideHas == {"wallets", "recheck", "closeLocked", "read", "balance", "refund", "hold", "push",
                    "save", "pay", "unlock"} = Inside
  BY DEF Inside

(* An action each.                                                         *)
LEMMA UnlockedExclusive ==
  ASSUME Typed, Typed', Exclusive, NEW p \in Procs, Alone(p),
         Arrive(p) \/ Glance(p) \/ TakeAuctionKey(p) PROVE Exclusive'
<1>1. CASE Arrive(p)
  <2>1. pc'[p] \in Unguarded
    <3>1. Goto(p, "lock") \/ Goto(p, "glance")
      BY <1>1 DEF Arrive
    <3>2. QED
      BY <3>1, GoesTo DEF Unguarded
  <2>2. Guards(p)'
    BY <2>1, OutsideGuards
  <2>3. QED
    BY <1>1, <2>2, StepExclusive DEF Arrive, shop, keys, history
<1>2. CASE Glance(p)
  <2>1. Goto(p, "close") \/ Goto(p, "lock") \/ Over(p)
    BY <1>2 DEF Glance
  <2>2. Guards(p)'
    BY <2>1, GoesTo, OverExclusive, OutsideGuards DEF Unguarded
  <2>3. QED
    BY <1>2, <2>2, StepExclusive DEF Glance, shop, keys, history
<1>3. CASE TakeAuctionKey(p)
  <2>1. Guards(p)'
    <3>1. CASE Over(p)
      BY <3>1, OverExclusive
    <3>2. CASE auctionKey' = p /\ (Goto(p, "wallets") \/ Goto(p, "recheck"))
      BY <3>2, GoesTo, UnlockingGuards
    <3>3. QED
      BY <1>3, <3>1, <3>2 DEF TakeAuctionKey
  <2>2. UNCHANGED <<settled, auction, late>> /\ auctionKey \in {auctionKey', Nobody}
    BY <1>3 DEF TakeAuctionKey, shop, history
  <2>3. QED
    BY <2>1, <2>2, StepExclusive
<1>4. QED
  BY <1>1, <1>2, <1>3

LEMMA CloseExclusive ==
  ASSUME Typed, Typed', Exclusive, NEW p \in Procs, Alone(p), Close(p) PROVE Exclusive'
<1>1. /\ auction'.by = auction.by /\ auction'.amount = auction.amount
      /\ auction'.status = "awaiting_payment"
  <2>1. auction \in Document
    BY Parts DEF Typed, AllTypes, ShopType
  <2>2. QED
    BY <2>1 DEF Close, Awaiting, Document
<1>2. UNCHANGED <<settled, late, auctionKey>>
  BY DEF Close, keys, history
<1>3. "auction" \notin late => Guards(p)'
  <2>1. CASE pc[p] = "close" /\ Over(p)
    BY <2>1, OverExclusive
  <2>2. CASE pc[p] = "closeLocked" /\ Goto(p, "unlock")
    BY <1>2, <2>2, GoesTo, UnlockingGuards DEF Exclusive, Guards, Inside
  <2>3. QED
    BY <2>1, <2>2 DEF Close
<1>4. QED
  BY <1>1, <1>2, <1>3, StepExclusive

LEMMA LockedExclusive ==
  ASSUME Typed, Typed', Exclusive, NEW p \in Procs, Alone(p),
         Recheck(p) \/ TakeWalletKeys(p) \/ Refund(p) \/ Hold(p) \/ PushBid(p) \/ PayCreator(p)
         \/ Fail(p)
  PROVE  Exclusive'
<1>1. pc[p] \in Inside /\ UNCHANGED <<late, auctionKey>>
  BY InsideHas DEF Recheck, TakeWalletKeys, Refund, Hold, PushBid, PayCreator, Fail, keys, history
<1>2. ASSUME "auction" \notin late PROVE auctionKey' = p /\ Guards(p)
  BY <1>1, <1>2 DEF Exclusive, Guards
<1>3. ASSUME "auction" \notin late PROVE Guards(p)'
  <2>1. CASE Recheck(p)
    <3>1. CASE Goto(p, "wallets") \/ Goto(p, "unlock")
      BY <1>2, <1>3, <3>1, GoesTo, UnlockingGuards
    <3>2. CASE Goto(p, "closeLocked") /\ Overdue
      <4>1. pc'[p] = "closeLocked" /\ auction'.status = "live"
        BY <2>1, <3>2, GoesTo DEF Recheck, Overdue, shop
      <4>2. QED
        BY <1>2, <1>3, <4>1 DEF Guards, Raising
    <3>3. QED
      BY <2>1, <3>1, <3>2 DEF Recheck
  <2>2. CASE TakeWalletKeys(p) \/ PushBid(p) \/ PayCreator(p)
    <3>1. Goto(p, "read") \/ Goto(p, "unlock")
      BY <2>2 DEF TakeWalletKeys, PushBid, PayCreator
    <3>2. QED
      BY <1>2, <1>3, <3>1, GoesTo, UnlockingGuards
  <2>3. CASE Refund(p) \/ Hold(p)
    <3>1. pc'[p] \in {"hold", "push"} /\ pc[p] \in Raising
      BY <2>3, GoesTo DEF Refund, Hold, Raising
    <3>2. UNCHANGED <<auction, settled, doc>>
      BY <2>3 DEF Refund, Hold, shop, local, history
    <3>3. QED
      BY <1>2, <1>3, <3>1, <3>2 DEF Guards, Raising
  <2>4. CASE Fail(p)
    <3>1. Goto(p, "unlock") \/ Goto(p, "crashed")
      BY <2>4 DEF Fail
    <3>2. QED
      BY <1>2, <1>3, <3>1, GoesTo, UnlockingGuards, OutsideGuards DEF Unguarded
  <2>5. QED
    BY <2>1, <2>2, <2>3, <2>4
<1>4. QED
  BY <1>1, <1>3, StepExclusive

LEMMA ReadExclusive ==
  ASSUME Typed, Typed', Exclusive, Final, NEW p \in Procs, Alone(p),
         ReadAuction(p) \/ ReadBalance(p) \/ EndSave(p) PROVE Exclusive'
<1>1. pc[p] \in Inside /\ UNCHANGED <<late, auctionKey>>
  BY InsideHas DEF ReadAuction, ReadBalance, EndSave, keys, history
<1>2. ASSUME "auction" \notin late PROVE auctionKey' = p /\ Guards(p)
  BY <1>1, <1>2 DEF Exclusive, Guards
<1>3. ASSUME "auction" \notin late PROVE Guards(p)'
  <2>1. CASE Goto(p, "unlock")
    BY <1>2, <1>3, <2>1, GoesTo, UnlockingGuards
  <2>2. CASE ReadAuction(p) /\ ~Goto(p, "unlock")
    <3>1. (Goto(p, "balance") /\ Open) \/ Goto(p, "save")
      BY <2>2 DEF ReadAuction
    <3>2. doc'[p] = auction /\ UNCHANGED <<auction, settled>>
      BY <2>2, Parts DEF Typed, AllTypes, LocalType, ReadAuction, Read, shop, history
    <3>3. settled \in Nat
      BY Parts DEF Typed, AllTypes, HistType
    <3>4. pc'[p] = "save" \/ (pc'[p] = "balance" /\ settled = 0)
      BY <3>1, <3>3, GoesTo DEF Open, Final
    <3>5. QED
      BY <1>2, <1>3, <3>2, <3>4 DEF Guards, Raising
  <2>3. CASE ReadBalance(p) /\ ~Goto(p, "unlock")
    <3>1. pc'[p] \in {"refund", "hold"} /\ pc[p] \in Raising
      BY <2>3, GoesTo DEF ReadBalance, Raising
    <3>2. UNCHANGED <<auction, settled, doc>>
      BY <2>3 DEF ReadBalance, shop, history
    <3>3. QED
      BY <1>2, <1>3, <3>1, <3>2 DEF Guards, Raising
  <2>4. CASE EndSave(p) /\ ~Goto(p, "unlock")
    <3>1. pc'[p] = "pay" /\ pc[p] = "save"
      BY <2>4, GoesTo DEF EndSave
    <3>2. UNCHANGED <<doc, settled>>
      BY <2>4 DEF EndSave, local, history
    <3>3. auction'.by = auction.by /\ auction'.amount = auction.amount
      BY <2>4, Parts DEF Typed, AllTypes, ShopType, Document, EndSave
    <3>4. QED
      BY <1>2, <1>3, <3>1, <3>2, <3>3 DEF Guards, Raising
  <2>5. QED
    BY <2>1, <2>2, <2>3, <2>4
<1>4. QED
  BY <1>1, <1>3, StepExclusive

LEMMA UnlockExclusive ==
  ASSUME Typed, Typed', Exclusive, NEW p \in Procs, Alone(p), Unlock(p) PROVE Exclusive'
<1>1. pc[p] \in Inside /\ UNCHANGED late
  BY InsideHas DEF Unlock, history
<1>2. Guards(p)'
  BY OverExclusive DEF Unlock
<1>3. QED
  BY <1>1, <1>2, StepExclusive

LEMMA KeyLapsesExclusive == ASSUME Typed, Exclusive, AuctionKeyLapses PROVE Exclusive'
<1>1. CASE "auction" \in late'
  BY <1>1 DEF Exclusive
<1>2. CASE "auction" \notin late'
  <2>1. pc[auctionKey] = "crashed" /\ UNCHANGED late
    BY <1>2 DEF AuctionKeyLapses, Lapses
  <2>2. \A q \in Procs : pc[q] \notin Inside
    BY <1>2, <2>1 DEF Exclusive, Guards, Inside
  <2>3. UNCHANGED pc
    BY DEF AuctionKeyLapses
  <2>4. Raising \cup {"save", "pay", "closeLocked"} \subseteq Inside
    BY DEF Raising, Inside
  <2>5. QED
    BY <2>2, <2>3, <2>4 DEF Exclusive, Guards
<1>3. QED
  BY <1>1, <1>2

LEMMA DecisionKeeps ==
  ASSUME Typed, NEW e \in Enforcers, Decide(e)
  PROVE  /\ auction'.by = auction.by /\ auction'.amount = auction.amount
         /\ auction'.status \in {"awaiting_payment", "defaulted"}
<1>1. auction \in Document
  BY Parts DEF Typed, AllTypes, ShopType
<1>2. QED
  BY <1>1 DEF Decide, Decision, Document

LEMMA EnforceExclusive ==
  ASSUME Typed, Exclusive, NEW e \in Enforcers, Enforce(e) PROVE Exclusive'
<1>1. UNCHANGED <<pc, doc, settled, auctionKey, late>>
  BY DEF Enforce, Find, Decide, Penalise, keys, local, history
<1>2. /\ auction'.by = auction.by /\ auction'.amount = auction.amount
      /\ auction'.status = "ended" => auction.status = "ended"
  BY DecisionKeeps DEF Enforce, Find, Penalise, shop
<1>3. QED
  BY <1>1, <1>2, OtherExclusive

LEMMA EnvironmentExclusive ==
  ASSUME Typed, Exclusive,
         \/ (\E w \in Wallets : WalletKeyLapses(w)) \/ Expire \/ DeadlinePasses \/ OthersMove
         \/ UNCHANGED vars
  PROVE  Exclusive'
<1>1. UNCHANGED <<pc, doc, settled, auctionKey>> /\ late \subseteq late'
  BY OthersFrame DEF WalletKeyLapses, Lapses, Expire, DeadlinePasses, vars, keys, local, history
<1>2. /\ auction'.by = auction.by /\ auction'.amount = auction.amount
      /\ auction'.status = auction.status
  <2>1. auction \in Document
    BY Parts DEF Typed, AllTypes, ShopType
  <2>2. QED
    BY <2>1, OthersFrame DEF WalletKeyLapses, Expire, DeadlinePasses, vars, shop, Document
<1>3. QED
  BY <1>1, <1>2, OtherExclusive

LEMMA StepAlone == ASSUME Typed, NEW p \in Procs, Step(p) \/ Fail(p) PROVE Typed' /\ Alone(p)
  BY ArriveTyped, GlanceTyped, CloseTyped, TakeAuctionKeyTyped, RecheckTyped, TakeWalletKeysTyped,
     ReadAuctionTyped, ReadBalanceTyped, RefundTyped, HoldTyped, PushBidTyped, EndSaveTyped,
     PayCreatorTyped, UnlockTyped, FailTyped, Zenon DEF Step

LEMMA ExclusiveInductive == Typed /\ Exclusive /\ Final /\ [Next]_vars => Exclusive'
<1> SUFFICES ASSUME Typed, Exclusive, Final, [Next]_vars PROVE Exclusive'
  OBVIOUS
<1>1. ASSUME NEW p \in Procs, Step(p) \/ Fail(p) PROVE Exclusive'
  <2>1. Typed' /\ Alone(p)
    BY <1>1, StepAlone
  <2>2. QED
    BY <1>1, <2>1, UnlockedExclusive, CloseExclusive, LockedExclusive, ReadExclusive,
       UnlockExclusive, Zenon DEF Step
<1>2. QED
  BY <1>1, EnforceExclusive, EnvironmentExclusive, KeyLapsesExclusive, Zenon DEF Next, OthersMove

-----------------------------------------------------------------------------
(* The status only leaves "live", and a document that was read is not more *)
(* advanced than the stored one.                                           *)
LEMMA StatusLeavesLive ==
  ASSUME Typed, Final, [Next]_vars PROVE auction.status # "live" => auction'.status # "live"
<1>1. auction \in Document
  BY Parts DEF Typed, AllTypes, ShopType
<1>2. ASSUME NEW p \in Procs, Step(p) \/ Fail(p)
      PROVE  auction.status # "live" => auction'.status # "live"
  <2>1. CASE Close(p)
    BY <1>1, <2>1 DEF Close, Awaiting, Document
  <2>2. CASE PushBid(p)
    BY <1>1, <2>2 DEF PushBid, Document
  <2>3. CASE EndSave(p)
    BY <1>1, <2>3 DEF EndSave, Saved, Document
  <2>4. CASE UNCHANGED auction
    BY <2>4
  <2>5. QED
    BY <1>2, <2>1, <2>2, <2>3, <2>4
    DEF Step, Arrive, Glance, TakeAuctionKey, Recheck, TakeWalletKeys, ReadAuction, ReadBalance,
        Refund, Hold, PayCreator, Unlock, Fail, shop
<1>3. ASSUME NEW e \in Enforcers, Enforce(e)
      PROVE  auction.status # "live" => auction'.status # "live"
  BY <1>3, DecisionKeeps DEF Enforce, Find, Penalise, shop
<1>4. CASE (\E w \in Wallets : WalletKeyLapses(w)) \/ AuctionKeyLapses \/ Expire \/ DeadlinePasses
           \/ UNCHANGED vars
  BY <1>1, <1>4 DEF WalletKeyLapses, AuctionKeyLapses, Expire, DeadlinePasses, vars, shop, Document
<1>5. CASE OthersMove
  BY <1>5, OthersFrame DEF shop
<1>6. QED
  BY <1>2, <1>3, <1>4, <1>5 DEF Next, OthersMove

LEMMA FinalInductive == Typed /\ Final /\ [Next]_vars => Final'
<1> SUFFICES ASSUME Typed, Final, [Next]_vars PROVE Final'
  OBVIOUS
<1>1. auction.status # "live" => auction'.status # "live"
  BY StatusLeavesLive
<1>2. CASE UNCHANGED <<doc, settled, pc>>
  BY <1>1, <1>2 DEF Final
<1>3. ASSUME NEW p \in Procs, Step(p) \/ Fail(p) PROVE Final'
  <2>1. Alone(p)
    BY <1>3, StepAlone
  <2>2. \A q \in Procs \ {p} : doc'[q].status # "live" \/ pc'[q] = "pay" => auction'.status # "live"
    BY <1>1, <2>1 DEF Alone, Final
  <2>3. doc'[p] \in {doc[p], auction, Unsold}
    <3>1. UNCHANGED doc \/ Read(p) \/ Over(p)
      BY <1>3 DEF Step, Arrive, Glance, Close, TakeAuctionKey, Recheck, TakeWalletKeys, ReadAuction,
                  ReadBalance, Refund, Hold, PushBid, EndSave, PayCreator, Unlock, Fail, local
    <3>2. doc \in [Procs -> Document]
      BY Parts DEF Typed, AllTypes, LocalType
    <3>3. QED
      BY <3>1, <3>2 DEF Read, Over
  <2>4. doc'[p].status # "live" => auction'.status # "live"
    BY <1>1, <2>3 DEF Final, Unsold
  <2>5. CASE EndSave(p)
    <3>1. auction \in Document
      BY Parts DEF Typed, AllTypes, ShopType
    <3>2. auction'.status # "live"
      BY <2>5, <3>1 DEF EndSave, Saved, Document, Final
    <3>3. QED
      BY <2>2, <2>5, <3>2 DEF Final, EndSave, history
  <2>6. CASE PayCreator(p)
    BY <1>1, <2>2, <2>4, <2>6 DEF PayCreator, Final, shop, local
  <2>7. CASE ~EndSave(p) /\ ~PayCreator(p)
    <3>1. pc'[p] # "pay" /\ UNCHANGED settled
      BY <1>3, <2>7, GoesTo, OverExclusive
      DEF Step, Arrive, Glance, Close, TakeAuctionKey, Recheck, TakeWalletKeys, ReadAuction,
          ReadBalance, Refund, Hold, PushBid, Unlock, Fail, history
    <3>2. QED
      BY <1>1, <2>2, <2>4, <3>1 DEF Final
  <2>8. QED
    BY <2>5, <2>6, <2>7
<1>4. CASE OthersMove
  BY <1>2, <1>4, OthersFrame DEF local
<1>5. QED
  BY <1>2, <1>3, <1>4
  DEF Next, OthersMove, Enforce, Find, Decide, Penalise, WalletKeyLapses, AuctionKeyLapses, Expire,
      DeadlinePasses, vars, local, history

-----------------------------------------------------------------------------
(* Only a pushed bid changes the bids, only the creator's payment what the *)
(* creator has.                                                            *)
LEMMA Keeps ==
  ASSUME Typed, [Next]_vars
  PROVE  /\ late \subseteq late'
         /\ \/ /\ UNCHANGED <<bids, settled>>
               /\ auction'.by = auction.by /\ auction'.amount = auction.amount
               /\ balance'[Creator] = balance[Creator]
            \/ \E p \in Procs : PushBid(p) \/ PayCreator(p)
<1>1. auction \in Document
  BY Parts DEF Typed, AllTypes, ShopType
<1>2. late \subseteq late'
  BY OthersFrame DEF Next, OthersMove, Step, Enforce, Arrive, Glance, Close, TakeAuctionKey, Recheck, TakeWalletKeys,
         ReadAuction, ReadBalance, Refund, Hold, PushBid, EndSave, PayCreator, Unlock, Fail, Find,
         Decide, Penalise, WalletKeyLapses, AuctionKeyLapses, Lapses, Expire, DeadlinePasses, vars,
         history
<1>3. ASSUME NEW p \in Procs, Refund(p) \/ Hold(p) PROVE balance'[Creator] = balance[Creator]
  <2>1. Fit(p)
    BY DEF Typed, Fits
  <2>2. CASE Hold(p)
    <3>1. User(p) # Creator
      BY <2>1, <2>2, NobodyAssumption DEF Fit, Raising, Hold
    <3>2. QED
      BY <2>2, <3>1 DEF Hold
  <2>3. CASE Refund(p)
    <3>1. doc[p].by \in Someone \ {Nobody}
      BY <2>1, <2>3, DocAmount, Parts DEF Typed, Fit, Refund, Outbids, Document
    <3>2. doc[p].by # Creator
      BY <3>1, NobodyAssumption DEF Someone
    <3>3. QED
      BY <2>3, <3>2 DEF Refund
  <2>4. QED
    BY <1>3, <2>2, <2>3
<1>4. ASSUME NEW p \in Procs, Close(p) \/ EndSave(p)
      PROVE  auction'.by = auction.by /\ auction'.amount = auction.amount
  BY <1>1, <1>4 DEF Close, EndSave, Awaiting, Document
<1>5. ASSUME NEW p \in Procs, Step(p) \/ Fail(p), ~PushBid(p), ~PayCreator(p)
      PROVE  /\ UNCHANGED <<bids, settled>>
             /\ auction'.by = auction.by /\ auction'.amount = auction.amount
             /\ balance'[Creator] = balance[Creator]
  BY <1>3, <1>4, <1>5
  DEF Step, Arrive, Glance, Close, TakeAuctionKey, Recheck, TakeWalletKeys, ReadAuction, ReadBalance,
      Refund, Hold, EndSave, Unlock, Fail, shop, history
<1>6. ASSUME NEW e \in Enforcers, Enforce(e)
      PROVE  /\ UNCHANGED <<bids, settled>>
             /\ auction'.by = auction.by /\ auction'.amount = auction.amount
             /\ balance'[Creator] = balance[Creator]
  BY <1>6, DecisionKeeps DEF Enforce, Find, Decide, Penalise, shop, history
<1>7. CASE (\E w \in Wallets : WalletKeyLapses(w)) \/ AuctionKeyLapses \/ Expire \/ DeadlinePasses
           \/ UNCHANGED vars
  BY <1>1, <1>2, <1>7
  DEF WalletKeyLapses, AuctionKeyLapses, Expire, DeadlinePasses, vars, shop, history, Document
<1>8. CASE OthersMove
  <2>1. balance'[Creator] = balance[Creator]
    <3>1. PICK u \in Bidders : \E x : balance' = [balance EXCEPT ![u] = x]
      BY <1>8 DEF OthersMove, MoveElsewhere, MoveUnlocked
    <3>2. Creator # u /\ Creator \in Wallets
      BY NobodyAssumption DEF Wallets
    <3>3. QED
      BY <1>1, <3>1, <3>2
  <2>2. QED
    BY <1>8, <2>1, OthersFrame DEF shop
<1>9. QED
  BY <1>2, <1>5, <1>6, <1>7, <1>8 DEF Next, OthersMove

Sold == Typed /\ Exclusive /\ Final /\ BidsRise /\ CreatorGetsStandingBid

(* A bid is above the one it has read, which is the last.                  *)
LEMMA PushRises ==
  ASSUME Typed, Exclusive, BidsRise, NEW p \in Procs, PushBid(p) PROVE BidsRise'
<1> SUFFICES ASSUME "auction" \notin late PROVE BidsRise'
  BY DEF PushBid, BidsRise
<1> DEFINE bid == [by |-> User(p), amount |-> Amount(p)]
<1>1. /\ auction \in Document /\ bids \in Seq([by : Bidders, amount : Amounts])
      /\ Fit(p) /\ doc[p].amount \in Nat
  BY DocAmount, Parts DEF Typed, AllTypes, ShopType, Fits
<1>2. /\ doc[p].by = auction.by /\ doc[p].amount = auction.amount
      /\ Amount(p) \in Amounts /\ Amount(p) >= MinBid(doc[p])
  BY <1>1 DEF Exclusive, Guards, PushBid, Raising, Fit
<1>3. auction'.by = User(p) /\ auction'.amount = Amount(p)
  BY <1>1, <1>2 DEF PushBid, Saved, Document
<1>4. bids' = Append(bids, bid)
  BY DEF PushBid
<1>5. Len(bids') = Len(bids) + 1 /\ bids'[Len(bids) + 1] = bid /\ Len(bids) \in Nat
  BY <1>1, <1>4
<1>6. \A i \in 1 .. Len(bids) : bids'[i] = bids[i] /\ bids[i].amount \in Amounts
  <2> SUFFICES ASSUME NEW i \in 1 .. Len(bids) PROVE bids'[i] = bids[i] /\ bids[i].amount \in Amounts
    OBVIOUS
  <2>1. bids'[i] = bids[i]
    BY <1>1, <1>4
  <2>2. bids[i] \in [by : Bidders, amount : Amounts]
    BY <1>1, ElementInSeq
  <2>3. QED
    BY <2>1, <2>2
<1>7. bids # <<>> => bids[Len(bids)].amount < Amount(p)
  <2> SUFFICES ASSUME bids # <<>> PROVE bids[Len(bids)].amount < Amount(p)
    OBVIOUS
  <2>1. Len(bids) \in 1 .. Len(bids)
    BY <1>1
  <2>2. bids[Len(bids)].amount = doc[p].amount /\ doc[p].amount \in Amounts
    BY <1>2, <1>6, <2>1 DEF BidsRise
  <2>3. doc[p].amount \in Int /\ doc[p].amount > 0 /\ Amount(p) \in Int
    BY <1>2, <2>2, AmountIsInt
  <2>4. QED
    BY <1>2, <2>2, <2>3 DEF MinBid
<1>8. \A i \in 1 .. Len(bids') - 1 : bids'[i].amount < bids'[i+1].amount
  <2> SUFFICES ASSUME NEW i \in 1 .. Len(bids') - 1 PROVE bids'[i].amount < bids'[i+1].amount
    OBVIOUS
  <2>1. i \in 1 .. Len(bids) /\ bids'[i] = bids[i]
    BY <1>5, <1>6
  <2>2. CASE i = Len(bids)
    <3>1. bids # <<>> /\ bids'[i+1] = bid
      BY <1>1, <1>5, <2>1, <2>2
    <3>2. QED
      BY <1>7, <2>1, <2>2, <3>1
  <2>3. CASE i # Len(bids)
    <3>1. i \in 1 .. Len(bids) - 1 /\ i + 1 \in 1 .. Len(bids)
      BY <1>5, <2>1, <2>3
    <3>2. bids'[i+1] = bids[i+1]
      BY <1>6, <3>1
    <3>3. QED
      BY <2>1, <3>1, <3>2 DEF BidsRise
  <2>4. QED
    BY <2>2, <2>3
<1>9. bids'[Len(bids')] = [by |-> auction'.by, amount |-> auction'.amount]
  BY <1>3, <1>5
<1>10. QED
  BY <1>8, <1>9 DEF BidsRise

LEMMA PushPays ==
  ASSUME Typed, Exclusive, CreatorGetsStandingBid, NEW p \in Procs, PushBid(p)
  PROVE  CreatorGetsStandingBid'
<1> SUFFICES ASSUME "auction" \notin late PROVE CreatorGetsStandingBid'
  BY DEF PushBid, CreatorGetsStandingBid
<1>1. settled = 0 /\ UNCHANGED <<settled, balance>>
  BY DEF Exclusive, Guards, PushBid, Raising
<1>2. balance[Creator] = 0
  <2>1. auction.amount \in Nat
    <3>1. auction \in Document
      BY Parts DEF Typed, AllTypes, ShopType
    <3>2. auction.amount \in Money
      BY <3>1 DEF Document
    <3>3. QED
      BY <3>2, Money0, Zenon
  <2>2. QED
    BY <1>1, <2>1 DEF CreatorGetsStandingBid
<1>3. auction'.amount \in Nat
  <2>1. auction' \in Document
    BY PushBidTyped, Parts DEF AllTypes, ShopType, Typed
  <2>2. auction'.amount \in Money
    BY <2>1 DEF Document
  <2>3. QED
    BY <2>2, Money0, Zenon
<1>4. QED
  BY <1>1, <1>2, <1>3 DEF CreatorGetsStandingBid

LEMMA PayPays ==
  ASSUME Typed, Exclusive, CreatorGetsStandingBid, NEW p \in Procs, PayCreator(p)
  PROVE  CreatorGetsStandingBid'
<1> SUFFICES ASSUME "auction" \notin late PROVE CreatorGetsStandingBid'
  BY DEF PayCreator, CreatorGetsStandingBid
<1>1. doc[p].amount = auction.amount /\ doc[p].amount \in Nat /\ UNCHANGED auction
  BY DocAmount, Parts DEF Typed, Exclusive, Guards, PayCreator, shop
<1>2. settled' = settled + 1 /\ settled \in Nat
  BY Parts DEF Typed, AllTypes, HistType, PayCreator
<1>3. balance'[Creator] = balance[Creator] + doc[p].amount
  BY Parts DEF Typed, AllTypes, MoneyType, Wallets, PayCreator
<1>4. balance'[Creator] = settled * auction.amount + auction.amount
  BY <1>1, <1>3 DEF CreatorGetsStandingBid
<1>5. (settled + 1) * auction.amount = settled * auction.amount + auction.amount
  BY <1>1, <1>2
<1>6. QED
  BY <1>1, <1>2, <1>4, <1>5 DEF CreatorGetsStandingBid

LEMMA SoldInductive == Sold /\ [Next]_vars => Sold'
<1> SUFFICES ASSUME Sold, [Next]_vars PROVE Sold'
  OBVIOUS
<1>1. Typed' /\ Exclusive' /\ Final'
  BY TypedInductive, ExclusiveInductive, FinalInductive DEF Sold
<1>2. ASSUME NEW p \in Procs, PushBid(p) PROVE BidsRise' /\ CreatorGetsStandingBid'
  BY <1>2, PushRises, PushPays DEF Sold
<1>3. ASSUME NEW p \in Procs, PayCreator(p) PROVE BidsRise' /\ CreatorGetsStandingBid'
  BY <1>3, PayPays DEF Sold, PayCreator, BidsRise, shop
<1>4. ASSUME UNCHANGED <<bids, settled>>, auction'.by = auction.by, auction'.amount = auction.amount,
             balance'[Creator] = balance[Creator]
      PROVE  BidsRise' /\ CreatorGetsStandingBid'
  BY <1>4, Keeps DEF Sold, BidsRise, CreatorGetsStandingBid
<1>5. QED
  BY <1>1, <1>2, <1>3, <1>4, Keeps DEF Sold

LEMMA InitSold == Init => Sold
<1> SUFFICES ASSUME Init PROVE Sold
  OBVIOUS
<1>1. Exclusive /\ Final
  BY DEF Init, Exclusive, Guards, Inside, Raising, Final, Unsold
<1>2. BidsRise
  BY DEF Init, BidsRise
<1>3. CreatorGetsStandingBid
  BY DEF Init, CreatorGetsStandingBid, Wallets, Unsold
<1>4. QED
  BY <1>1, <1>2, <1>3, InitTyped DEF Sold

(* Bids of one auction rise and the stored one is the last, however HTTP   *)
(* and WebSocket bids, closes and ends overlap, as long as the auction key *)
(* outlives the requests that hold it (shop.js:1188, 1233).                *)
THEOREM BidsAlwaysRise == Spec => []BidsRise
<1>1. Sold => BidsRise
  BY DEF Sold
<1>2. QED
  BY <1>1, InitSold, SoldInductive, PTL DEF Spec

(* Each end pays the creator the standing bid and no bid follows, under    *)
(* the same condition (shop.js:1319).                                      *)
THEOREM CreatorIsPaidStandingBid == Spec => []CreatorGetsStandingBid
<1>1. Sold => CreatorGetsStandingBid
  BY DEF Sold
<1>2. QED
  BY <1>1, InitSold, SoldInductive, PTL DEF Spec

LEMMA EndedStays ==
  ASSUME Sold, [Next]_vars
  PROVE  auction.status = "ended" /\ late = {} =>
           \/ auction'.status = "ended"
           \/ \E p \in Procs : pc[p] = "close"
           \/ \E e \in Enforcers : enforcer[e].step = "decide"
<1> SUFFICES ASSUME auction.status = "ended", late = {},
                    \A p \in Procs : pc[p] # "close",
                    \A e \in Enforcers : enforcer[e].step # "decide"
             PROVE  auction'.status = "ended"
  OBVIOUS
<1>1. auction \in Document
  BY Parts DEF Sold, Typed, AllTypes, ShopType
<1>2. ASSUME NEW p \in Procs, Close(p) PROVE FALSE
  BY <1>2 DEF Sold, Exclusive, Guards, Close
<1>3. ASSUME NEW p \in Procs, EndSave(p) \/ PushBid(p) PROVE auction'.status = "ended"
  BY <1>1, <1>3 DEF EndSave, PushBid, Saved, Document
<1>4. ASSUME NEW p \in Procs, Step(p) \/ Fail(p) PROVE auction'.status = "ended"
  BY <1>2, <1>3, <1>4
  DEF Step, Arrive, Glance, TakeAuctionKey, Recheck, TakeWalletKeys, ReadAuction, ReadBalance,
      Refund, Hold, PayCreator, Unlock, Fail, shop
<1>5. ASSUME NEW e \in Enforcers, Enforce(e) PROVE auction'.status = "ended"
  BY <1>5 DEF Enforce, Find, Decide, Penalise, shop
<1>6. CASE (\E w \in Wallets : WalletKeyLapses(w)) \/ AuctionKeyLapses \/ Expire \/ DeadlinePasses
           \/ UNCHANGED vars
  BY <1>1, <1>6 DEF WalletKeyLapses, AuctionKeyLapses, Expire, DeadlinePasses, vars, shop, Document
<1>7. CASE OthersMove
  BY <1>7, OthersFrame DEF shop
<1>8. QED
  BY <1>4, <1>5, <1>6, <1>7 DEF Next, OthersMove

(* Nothing that holds the auction key reopens an auction that has ended:   *)
(* only a close or an enforcement decided without it does (shop.js:1027,   *)
(* reassignment.js:58).                                                    *)
THEOREM EndIsFinal == Spec => EndedIsFinal
<1>1. Sold /\ [Next]_vars =>
        [auction.status = "ended" /\ late = {} =>
           \/ auction'.status = "ended"
           \/ \E p \in Procs : pc[p] = "close"
           \/ \E e \in Enforcers : enforcer[e].step = "decide"]_vars
  BY EndedStays
<1>2. QED
  BY <1>1, InitSold, SoldInductive, PTL DEF Spec, EndedIsFinal

-----------------------------------------------------------------------------
(* What a bidder's wallet key gives the bid that holds it, unless it       *)
(* lapses too early or somebody else goes round it: the balance it has     *)
(* read stays enough.                                                      *)
Reserving == Raising \cup {"read"}
Reserves(p) ==
  Bids(p) => /\ pc[p] \in Reserving => walletKey[User(p)] = p
             /\ pc[p] \in {"refund", "hold"} =>
                  /\ seen[p] >= Amount(p)
                  /\ User(p) \in bypassed \/ balance[User(p)] >= Amount(p)
Covered == "wallet" \notin late => /\ \A w \in Wallets \ bypassed : balance[w] >= 0
                                   /\ \A p \in Procs : Reserves(p)

(* A step of one request that takes nobody else's key and lowers at most   *)
(* the balance of its own bidder.                                          *)
LEMMA StepReserves ==
  ASSUME Typed, Typed', Covered, NEW p \in Procs, Alone(p), "wallet" \notin late, UNCHANGED bypassed,
         Reserves(p)', \A w \in Wallets \ bypassed : balance'[w] >= 0,
         \A w \in Wallets : walletKey[w] \in Procs \ {p} => walletKey'[w] = walletKey[w],
         \A w \in Wallets : \/ balance'[w] >= balance[w]
                            \/ Bids(p) /\ pc[p] \in Reserving /\ w = User(p)
  PROVE  Covered'
<1> SUFFICES ASSUME NEW q \in Procs \ {p} PROVE Reserves(q)'
  BY DEF Covered
<1>1. /\ pc'[q] = pc[q] /\ job'[q] = job[q] /\ seen'[q] = seen[q]
      /\ Reserves(p) /\ Reserves(q)
  BY DEF Alone, Covered
<1> SUFFICES ASSUME Bids(q), pc[q] \in Reserving PROVE Reserves(q)'
  BY <1>1 DEF Reserves, Bids, Kind, Reserving, Raising
<1>2. User(q) \in Wallets /\ walletKey[User(q)] = q /\ Amount(q) \in Int
  BY <1>1, AmountIsInt DEF Reserves, Typed, Fits, Fit, Wallets
<1>3. walletKey'[User(q)] = q
  BY <1>2
<1>4. balance'[User(q)] >= balance[User(q)]
  BY <1>1, <1>2 DEF Reserves
<1>5. balance[User(q)] \in Int /\ balance'[User(q)] \in Int
  BY <1>2, Parts DEF Typed, AllTypes, MoneyType
<1>6. User(q) \in bypassed \/ ~(balance[User(q)] >= Amount(q)) \/ balance'[User(q)] >= Amount(q)
  BY <1>2, <1>4, <1>5
<1>7. QED
  BY <1>1, <1>2, <1>3, <1>6 DEF Reserves, Bids, Kind, User, Amount, Reserving, Raising

(* Steps at which a request has nothing at stake.                          *)
LEMMA NothingReserved ==
  ASSUME NEW p \in Procs, pc'[p] \notin Reserving PROVE Reserves(p)'
  BY DEF Reserves, Reserving, Raising

LEMMA IdleCovered ==
  ASSUME Typed, Covered, NEW p \in Procs,
         \/ Arrive(p) \/ Glance(p) \/ Close(p) \/ TakeAuctionKey(p) \/ Recheck(p) \/ PushBid(p)
         \/ EndSave(p) \/ Unlock(p) \/ Fail(p)
  PROVE  Covered'
<1> SUFFICES ASSUME "wallet" \notin late PROVE Covered'
  BY DEF Arrive, Glance, Close, TakeAuctionKey, Recheck, PushBid, EndSave, Unlock, Fail, history, Covered
<1>1. Typed' /\ Alone(p)
  BY StepAlone DEF Step
<1>2. UNCHANGED <<balance, bypassed>>
  BY DEF Arrive, Glance, Close, TakeAuctionKey, Recheck, PushBid, EndSave, Unlock, Fail, history, others
<1>3. \A w \in Wallets : walletKey[w] \in Procs \ {p} => walletKey'[w] = walletKey[w]
  BY DEF Arrive, Glance, Close, TakeAuctionKey, Recheck, PushBid, EndSave, Unlock, Fail, keys
<1>4. pc'[p] \notin Reserving
  <2>1. \/ Over(p)
        \/ \E x \in {"lock", "glance", "close", "wallets", "recheck", "closeLocked", "pay", "unlock",
                     "crashed"} : Goto(p, x)
    BY DEF Arrive, Glance, Close, TakeAuctionKey, Recheck, PushBid, EndSave, Unlock, Fail
  <2>2. QED
    BY <2>1, GoesTo, OverExclusive DEF Reserving, Raising
<1>5. /\ \A w \in Wallets \ bypassed : balance'[w] >= 0
      /\ \A w \in Wallets : balance'[w] >= balance[w]
  BY <1>2, Parts DEF Covered, Typed, AllTypes, MoneyType
<1>6. QED
  BY <1>1, <1>2, <1>3, <1>4, <1>5, NothingReserved, StepReserves

LEMMA TakeWalletKeysCovered ==
  ASSUME Typed, Covered, NEW p \in Procs, TakeWalletKeys(p) PROVE Covered'
<1> SUFFICES ASSUME "wallet" \notin late PROVE Covered'
  BY DEF TakeWalletKeys, history, Covered
<1>1. Typed' /\ Alone(p)
  BY TakeWalletKeysTyped
<1>2. \A w \in Wallets : walletKey[w] \in Procs \ {p} => walletKey'[w] = walletKey[w]
  BY NobodyAssumption DEF TakeWalletKeys
<1>3. /\ UNCHANGED bypassed
      /\ \A w \in Wallets \ bypassed : balance'[w] >= 0
      /\ \A w \in Wallets : balance'[w] >= balance[w]
  BY Parts DEF TakeWalletKeys, Covered, Typed, AllTypes, MoneyType, history, others
<1>4. Reserves(p)'
  <2>1. CASE Goto(p, "unlock")
    BY <2>1, GoesTo, NothingReserved DEF Reserving, Raising
  <2>2. CASE Goto(p, "read") /\ walletKey' = [w \in Wallets |-> IF w \in Needed(p) THEN p ELSE walletKey[w]]
    <3>1. pc'[p] = "read" /\ UNCHANGED job
      BY <2>2, GoesTo DEF TakeWalletKeys, local
    <3>2. ASSUME Bids(p) PROVE User(p) \in Needed(p) /\ User(p) \in Wallets
      <4>1. User(p) \in Bidders /\ Kind(p) # "end"
        BY <3>2 DEF Typed, Fits, Fit, Bids
      <4>2. QED
        BY <4>1, NobodyAssumption DEF Needed, Wallets
    <3>3. QED
      BY <2>2, <3>1, <3>2 DEF Reserves, Bids, Kind, User
  <2>3. QED
    BY <2>1, <2>2 DEF TakeWalletKeys
<1>5. QED
  BY <1>1, <1>2, <1>3, <1>4, StepReserves

LEMMA ReadingCovered ==
  ASSUME Typed, Covered, NEW p \in Procs, ReadAuction(p) \/ ReadBalance(p) PROVE Covered'
<1> SUFFICES ASSUME "wallet" \notin late PROVE Covered'
  BY DEF ReadAuction, ReadBalance, history, Covered
<1>1. Typed' /\ Alone(p)
  BY ReadAuctionTyped, ReadBalanceTyped
<1>2. UNCHANGED <<walletKey, balance, job, bypassed>>
  BY DEF ReadAuction, ReadBalance, keys, history, others
<1>3. /\ \A w \in Wallets \ bypassed : balance'[w] >= 0
      /\ \A w \in Wallets : balance'[w] >= balance[w]
  BY <1>2, Parts DEF Covered, Typed, AllTypes, MoneyType
<1>4. Reserves(p)'
  <2>1. CASE Goto(p, "unlock") \/ Goto(p, "save")
    BY <2>1, GoesTo, NothingReserved DEF Reserving, Raising
  <2>2. CASE ReadAuction(p) /\ Goto(p, "balance")
    BY <1>2, <2>2, GoesTo DEF ReadAuction, Covered, Reserves, Reserving, Raising, Bids, Kind, User, Amount
  <2>3. CASE ReadBalance(p) /\ ~(balance[User(p)] < Amount(p))
    <3>1. pc'[p] \in {"refund", "hold"} /\ pc[p] = "balance"
      BY <2>3, GoesTo DEF ReadBalance
    <3>2. seen'[p] = balance[User(p)]
      BY <2>3, Parts DEF ReadBalance, Typed, AllTypes, LocalType
    <3>3. balance[User(p)] \in Int /\ Amount(p) \in Int
      BY <3>1, AmountIsInt, Parts DEF Typed, Fits, Fit, Raising, AllTypes, MoneyType, Wallets
    <3>4. walletKey[User(p)] = p \/ ~Bids(p)
      BY <3>1 DEF Covered, Reserves, Reserving, Raising
    <3>5. QED
      BY <1>2, <2>3, <3>1, <3>2, <3>3, <3>4 DEF Reserves, Bids, Kind, User, Amount
  <2>4. QED
    BY <2>1, <2>2, <2>3 DEF ReadAuction, ReadBalance
<1>5. QED
  BY <1>1, <1>2, <1>3, <1>4, StepReserves

LEMMA PayingCovered ==
  ASSUME Typed, Covered, NEW p \in Procs, Refund(p) \/ PayCreator(p) PROVE Covered'
<1> SUFFICES ASSUME "wallet" \notin late PROVE Covered'
  BY DEF Refund, PayCreator, history, Covered
<1>1. Typed' /\ Alone(p)
  BY RefundTyped, PayCreatorTyped
<1>2. UNCHANGED <<walletKey, job, seen, bypassed>>
  BY DEF Refund, PayCreator, keys, local, history, others
<1>3. /\ \A w \in Wallets \ bypassed : balance'[w] >= 0
      /\ \A w \in Wallets : balance'[w] >= balance[w]
  <2> SUFFICES ASSUME NEW w \in Wallets
               PROVE  (w \notin bypassed => balance'[w] >= 0) /\ balance'[w] >= balance[w]
    OBVIOUS
  <2>1. /\ balance \in [Wallets -> Int] /\ balance[w] \in Int /\ doc[p].amount \in Nat
        /\ w \notin bypassed => balance[w] >= 0
    BY DocAmount, Parts DEF Covered, Typed, AllTypes, MoneyType
  <2>2. balance'[w] \in {balance[w], balance[w] + doc[p].amount}
    BY <2>1 DEF Refund, PayCreator
  <2>3. QED
    BY <2>1, <2>2
<1>4. Reserves(p)'
  <2>1. CASE PayCreator(p)
    BY <2>1, GoesTo, NothingReserved DEF PayCreator, Reserving, Raising
  <2>2. CASE Refund(p)
    <3>1. pc'[p] = "hold" /\ pc[p] = "refund" /\ Bids(p)
      BY <2>2, GoesTo DEF Refund, Typed, Fits, Fit, Raising
    <3>2. User(p) \in Wallets /\ Amount(p) \in Int /\ seen[p] >= Amount(p)
          /\ walletKey[User(p)] = p /\ (User(p) \in bypassed \/ balance[User(p)] >= Amount(p))
      BY <3>1, AmountIsInt DEF Typed, Fits, Fit, Wallets, Covered, Reserves, Reserving, Raising
    <3>3. balance[User(p)] \in Int /\ balance'[User(p)] \in Int
      BY <1>1, <3>2, Parts DEF Typed, AllTypes, MoneyType
    <3>4. User(p) \in bypassed \/ balance'[User(p)] >= Amount(p)
      BY <1>3, <3>2, <3>3
    <3>5. QED
      BY <1>2, <3>1, <3>2, <3>4 DEF Reserves, Bids, Kind, User, Amount
  <2>3. QED
    BY <2>1, <2>2
<1>5. QED
  BY <1>1, <1>2, <1>3, <1>4, StepReserves

LEMMA HoldCovered == ASSUME Typed, Covered, NEW p \in Procs, Hold(p) PROVE Covered'
<1> SUFFICES ASSUME "wallet" \notin late PROVE Covered'
  BY DEF Hold, history, Covered
<1>1. Typed' /\ Alone(p)
  BY HoldTyped
<1>2. UNCHANGED <<walletKey, job, seen, bypassed>> /\ pc'[p] = "push" /\ pc[p] = "hold" /\ Bids(p)
  BY GoesTo DEF Hold, keys, local, history, others, Typed, Fits, Fit, Raising
<1>3. /\ User(p) \in Wallets /\ Amount(p) \in Int /\ seen[p] >= Amount(p) /\ walletKey[User(p)] = p
      /\ User(p) \in bypassed \/ balance[User(p)] >= Amount(p)
  BY <1>2, AmountIsInt DEF Typed, Fits, Fit, Wallets, Covered, Reserves, Reserving, Raising
<1>4. /\ balance \in [Wallets -> Int] /\ balance[User(p)] \in Int /\ seen[p] \in Int
      /\ \A w \in Wallets : balance[w] \in Int /\ (w \notin bypassed => balance[w] >= 0)
  BY <1>3, Parts DEF Typed, AllTypes, MoneyType, LocalType, Covered
<1>5. \A w \in Wallets \ {User(p)} : balance'[w] = balance[w]
  BY <1>4 DEF Hold
<1>6. balance'[User(p)] \in {seen[p] - Amount(p), balance[User(p)] - Amount(p)}
  BY <1>3, <1>4 DEF Hold
<1>7. User(p) \in bypassed \/ balance'[User(p)] >= 0
  BY <1>3, <1>4, <1>6
<1>8. Reserves(p)'
  BY <1>2, <1>3 DEF Reserves, Bids, Kind, User
<1>9. /\ \A w \in Wallets \ bypassed : balance'[w] >= 0
      /\ \A w \in Wallets : balance'[w] >= balance[w] \/ w = User(p)
  BY <1>4, <1>5, <1>7
<1>10. QED
  BY <1>1, <1>2, <1>8, <1>9, StepReserves DEF Reserving, Raising

(* Who has the key to itself leaves no bid's balance short; who has not is *)
(* known to have gone round it.                                            *)
LEMMA OthersCovered == ASSUME Typed, Covered, OthersMove PROVE Covered'
<1> SUFFICES ASSUME "wallet" \notin late PROVE Covered'
  BY OthersFrame DEF Covered
<1>1. UNCHANGED <<job, seen, pc, walletKey>> /\ balance \in [Wallets -> Int]
  BY OthersFrame, Parts DEF local, keys, Typed, AllTypes, MoneyType
<1>2. ASSUME NEW u \in Bidders, MoveElsewhere(u) PROVE Covered'
  <2>1. PICK a \in Amounts, d \in {-1, 1} :
          (d = -1 => balance[u] >= a) /\ balance' = [balance EXCEPT ![u] = @ + d * a]
    BY <1>2 DEF MoveElsewhere
  <2>2. UNCHANGED bypassed /\ walletKey[u] = Nobody /\ u \in Wallets
    BY <1>2 DEF MoveElsewhere, Wallets
  <2>3. a \in Int /\ a > 0 /\ balance[u] \in Int /\ balance'[u] = balance[u] + d * a
    BY <1>1, <2>1, <2>2, AmountIsInt
  <2>4. balance[u] >= 0 => balance'[u] >= 0
    BY <2>1, <2>3
  <2>5. \A w \in Wallets \ bypassed : balance'[w] >= 0
    BY <1>1, <2>1, <2>4 DEF Covered
  <2>6. ASSUME NEW q \in Procs PROVE Reserves(q)'
    <3>1. Reserves(q)
      BY DEF Covered
    <3>2. CASE Bids(q) /\ pc[q] \in Reserving
      <4>1. User(q) # u /\ User(q) \in Wallets
        BY <2>2, <3>1, <3>2, NobodyAssumption DEF Reserves, Typed, Fits, Fit, Wallets
      <4>2. balance'[User(q)] = balance[User(q)]
        BY <1>1, <2>1, <4>1
      <4>3. QED
        BY <1>1, <2>2, <3>1, <4>2 DEF Reserves, Bids, Kind, User, Amount
    <3>3. CASE ~(Bids(q) /\ pc[q] \in Reserving)
      BY <1>1, <3>3 DEF Reserves, Bids, Kind, Reserving, Raising
    <3>4. QED
      BY <3>2, <3>3
  <2>7. QED
    BY <2>2, <2>5, <2>6 DEF Covered
<1>3. ASSUME NEW u \in Bidders, MoveUnlocked(u) PROVE Covered'
  <2>1. bypassed' = bypassed \cup {u} /\ \A w \in Wallets \ {u} : balance'[w] = balance[w]
    BY <1>1, <1>3 DEF MoveUnlocked
  <2>2. ASSUME NEW q \in Procs PROVE Reserves(q)'
    <3>1. Reserves(q)
      BY DEF Covered
    <3>2. Bids(q) => User(q) \in Wallets
      BY DEF Typed, Fits, Fit, Wallets
    <3>3. QED
      BY <1>1, <2>1, <3>1, <3>2 DEF Reserves, Bids, Kind, User, Amount
  <2>3. QED
    BY <2>1, <2>2 DEF Covered
<1>4. QED
  BY <1>2, <1>3 DEF OthersMove

(* Nothing else touches a balance or the key of a request that still runs. *)
LEMMA EnvironmentCovered ==
  ASSUME Typed, Covered,
         \/ \E e \in Enforcers : Enforce(e)
         \/ \E w \in Wallets : WalletKeyLapses(w)
         \/ AuctionKeyLapses \/ Expire \/ DeadlinePasses \/ UNCHANGED vars
  PROVE  Covered'
<1>1. UNCHANGED <<balance, job, seen, pc, bypassed>> /\ late \subseteq late'
  BY DEF Enforce, Find, Decide, Penalise, WalletKeyLapses, AuctionKeyLapses, Lapses, Expire,
         DeadlinePasses, vars, local, history, others
<1>2. CASE UNCHANGED walletKey
  BY <1>1, <1>2 DEF Covered, Reserves, Bids, Kind, User, Amount
<1>3. ASSUME NEW w \in Wallets, WalletKeyLapses(w), "wallet" \notin late' PROVE Covered'
  <2>1. pc[walletKey[w]] = "crashed" /\ "wallet" \notin late
    BY <1>1, <1>3 DEF WalletKeyLapses, Lapses
  <2>2. walletKey' = [walletKey EXCEPT ![w] = Nobody]
    BY <1>3 DEF WalletKeyLapses
  <2>3. ASSUME NEW q \in Procs, Bids(q), pc[q] \in Reserving PROVE walletKey'[User(q)] = q
    <3>1. walletKey[User(q)] = q /\ User(q) \in Wallets
      BY <2>1, <2>3 DEF Covered, Reserves, Typed, Fits, Fit, Wallets
    <3>2. User(q) # w
      BY <2>1, <2>3, <3>1 DEF Reserving, Raising
    <3>3. QED
      BY <2>2, <3>1, <3>2
  <2>4. QED
    BY <1>1, <2>1, <2>3 DEF Covered, Reserves, Bids, Kind, User, Amount
<1>4. CASE "wallet" \in late'
  BY <1>4 DEF Covered
<1>5. QED
  BY <1>2, <1>3, <1>4
  DEF Enforce, Find, Decide, Penalise, AuctionKeyLapses, Expire, DeadlinePasses, vars, keys

LEMMA CoveredInductive == Typed /\ Covered /\ [Next]_vars => Covered'
<1> SUFFICES ASSUME Typed, Covered, [Next]_vars PROVE Covered'
  OBVIOUS
<1>1. ASSUME NEW p \in Procs, Step(p) \/ Fail(p) PROVE Covered'
  BY <1>1, IdleCovered, TakeWalletKeysCovered, ReadingCovered, PayingCovered, HoldCovered, Zenon
  DEF Step
<1>2. QED
  BY <1>1, EnvironmentCovered, OthersCovered, Zenon DEF Next, OthersMove

LEMMA InitCovered == Init => Covered
<1> SUFFICES ASSUME Init PROVE Covered
  OBVIOUS
<1>1. \A w \in Wallets : balance[w] >= 0
  BY NumbersAssumption DEF Init
<1>2. \A p \in Procs : Reserves(p)
  BY DEF Init, Reserves, Bids, Kind, NoRequest
<1>3. QED
  BY <1>1, <1>2 DEF Covered

(* No bid overdraws a wallet, also when the auction key has lapsed and     *)
(* whatever else moves the wallet, since the bidder's wallet key spans the *)
(* read and the hold (shop.js:1193, live.js:2387): unless that key lapses  *)
(* too early, or economy's second attempt moves this wallet without it     *)
(* (coins.js:156, 220).                                                    *)
THEOREM WalletsStayPositive == Spec => []NeverOverdrawn
<1>1. Covered => NeverOverdrawn
  BY DEF Covered, NeverOverdrawn
<1>2. Init => Typed /\ Covered
  BY InitTyped, InitCovered
<1>3. (Typed /\ Covered) /\ [Next]_vars => (Typed /\ Covered)'
  BY TypedInductive, CoveredInductive
<1>4. QED
  BY <1>1, <1>2, <1>3, PTL DEF Spec

-----------------------------------------------------------------------------
(* What every bidder has left, at rest and at each await of the bid that   *)
(* moves money.                                                            *)
Moving      == {"hold", "push"}
Standing(u) == IF auction.by = u THEN auction.amount ELSE 0
Own(u)      == Opening + elsewhere[u] - raised[u]
AtRest      == \A u \in Bidders \ bypassed : balance[u] = Own(u) - Standing(u)
Midway(p)   == \A u \in Bidders \ (bypassed \cup {User(p)}) : balance[u] = Own(u)
Held(p)     == User(p) \notin bypassed =>
                 balance[User(p)] = Own(User(p)) - Standing(User(p))
                                    - IF pc[p] = "push" THEN Amount(p) ELSE 0
ReadsTrue(p) == pc[p] \in {"refund", "hold"} /\ User(p) \notin bypassed => seen[p] = balance[User(p)]
Books ==
  late = {} /\ ~torn =>
    /\ (\A p \in Procs : pc[p] \notin Moving) => AtRest
    /\ \A p \in Procs : pc[p] \in Moving => Midway(p) /\ Held(p)
    /\ \A p \in Procs : ReadsTrue(p)

(* Most steps move no bidder's money.                                      *)
LEMMA StillBooks ==
  ASSUME Typed, Books, late \subseteq late', torn => torn', UNCHANGED <<raised, elsewhere, bypassed>>,
         auction'.by = auction.by, auction'.amount = auction.amount,
         \A u \in Bidders : balance'[u] = balance[u],
         \A q \in Procs : pc[q] \in Moving \/ pc'[q] \in Moving \cup {"refund"} =>
            pc'[q] = pc[q] /\ job'[q] = job[q] /\ seen'[q] = seen[q]
  PROVE  Books'
<1> SUFFICES ASSUME late' = {}, ~torn' PROVE Books'
  BY DEF Books
<1>1. late = {} /\ ~torn /\ \A u \in Bidders : Standing(u)' = Standing(u) /\ Own(u)' = Own(u)
  BY DEF Standing, Own
<1>2. (\A p \in Procs : pc'[p] \notin Moving) => AtRest'
  <2> SUFFICES ASSUME \A p \in Procs : pc'[p] \notin Moving PROVE AtRest'
    OBVIOUS
  <2>1. \A p \in Procs : pc[p] \notin Moving
    OBVIOUS
  <2>2. QED
    BY <1>1, <2>1 DEF Books, AtRest
<1>3. ASSUME NEW p \in Procs, pc'[p] \in Moving PROVE Midway(p)' /\ Held(p)'
  <2>1. pc'[p] = pc[p] /\ job'[p] = job[p] /\ pc[p] \in Moving
    BY <1>3
  <2>2. User(p) \in Bidders /\ User(p)' = User(p) /\ Amount(p)' = Amount(p)
    BY <2>1 DEF Typed, Fits, Fit, Moving, Raising, User, Amount
  <2>3. Midway(p) /\ Held(p)
    BY <1>1, <2>1 DEF Books
  <2>4. QED
    BY <1>1, <2>1, <2>2, <2>3 DEF Midway, Held
<1>4. ASSUME NEW p \in Procs PROVE ReadsTrue(p)'
  <2> SUFFICES ASSUME pc'[p] \in {"refund", "hold"} PROVE ReadsTrue(p)'
    BY DEF ReadsTrue
  <2>1. pc'[p] = pc[p] /\ job'[p] = job[p] /\ seen'[p] = seen[p]
    BY DEF Moving
  <2>2. User(p) \in Bidders /\ User(p)' = User(p)
    BY <2>1 DEF Typed, Fits, Fit, Raising, User
  <2>3. QED
    BY <1>1, <2>1, <2>2 DEF Books, ReadsTrue
<1>5. QED
  BY <1>2, <1>3, <1>4 DEF Books

LEMMA BidderIsNoCreator == Creator \notin Bidders /\ Nobody \notin Bidders /\ Bidders \subseteq Wallets
  BY NobodyAssumption DEF Wallets

LEMMA IdleBooks ==
  ASSUME Typed, Books, NEW p \in Procs,
         \/ Arrive(p) \/ Glance(p) \/ Close(p) \/ TakeAuctionKey(p) \/ Recheck(p)
         \/ TakeWalletKeys(p) \/ ReadAuction(p) \/ EndSave(p) \/ PayCreator(p) \/ Unlock(p)
         \/ (Fail(p) /\ pc[p] \notin Moving)
  PROVE  Books'
<1>1. Alone(p)
  BY StepAlone DEF Step
<1>2. late \subseteq late' /\ (torn => torn') /\ UNCHANGED <<raised, elsewhere, bypassed>>
  <2>1. UNCHANGED <<late, raised, elsewhere, bypassed>>
    BY DEF Arrive, Glance, Close, TakeAuctionKey, Recheck, TakeWalletKeys, ReadAuction, EndSave,
           PayCreator, Unlock, Fail, history, others
  <2>2. CASE Fail(p)
    BY <2>1, <2>2, Zenon DEF Fail
  <2>3. CASE ~Fail(p)
    <3>1. UNCHANGED torn
      BY <2>3 DEF Arrive, Glance, Close, TakeAuctionKey, Recheck, TakeWalletKeys, ReadAuction,
                  EndSave, PayCreator, Unlock, history
    <3>2. QED
      BY <2>1, <3>1, Zenon
  <2>4. QED
    BY <2>2, <2>3
<1>3. auction'.by = auction.by /\ auction'.amount = auction.amount
  <2>1. CASE UNCHANGED auction
    BY <2>1
  <2>2. CASE Close(p) \/ EndSave(p)
    <3>1. auction \in Document
      BY Parts DEF Typed, AllTypes, ShopType
    <3>2. QED
      BY <2>2, <3>1 DEF Close, EndSave, Awaiting, Document
  <2>3. QED
    BY <2>1, <2>2 DEF Arrive, Glance, TakeAuctionKey, Recheck, TakeWalletKeys, ReadAuction,
                      PayCreator, Unlock, Fail, shop
<1>4. \A u \in Bidders : balance'[u] = balance[u]
  <2>1. CASE PayCreator(p)
    BY <2>1, BidderIsNoCreator, Parts DEF PayCreator, Typed, AllTypes, MoneyType
  <2>2. CASE UNCHANGED balance
    BY <2>2
  <2>3. QED
    BY <2>1, <2>2 DEF Arrive, Glance, Close, TakeAuctionKey, Recheck, TakeWalletKeys, ReadAuction,
                      EndSave, Unlock, Fail
<1>5. pc[p] \notin Moving
  BY DEF Arrive, Glance, Close, TakeAuctionKey, Recheck, TakeWalletKeys, ReadAuction, EndSave,
         PayCreator, Unlock, Moving
<1>6. pc'[p] \notin Moving \cup {"refund"}
  <2>1. \/ Over(p)
        \/ \E x \in {"lock", "glance", "close", "wallets", "recheck", "closeLocked", "read", "balance",
                     "save", "pay", "unlock", "crashed"} : Goto(p, x)
    BY DEF Arrive, Glance, Close, TakeAuctionKey, Recheck, TakeWalletKeys, ReadAuction, EndSave,
           PayCreator, Unlock, Fail
  <2>2. QED
    BY <2>1, GoesTo, OverExclusive DEF Moving
<1>7. \A q \in Procs : pc[q] \in Moving \/ pc'[q] \in Moving \cup {"refund"} =>
                        pc'[q] = pc[q] /\ job'[q] = job[q] /\ seen'[q] = seen[q]
  BY <1>1, <1>5, <1>6 DEF Alone
<1>8. QED
  BY <1>2, <1>3, <1>4, <1>7, StillBooks

LEMMA EnvironmentBooks ==
  ASSUME Typed, Books,
         \/ \E e \in Enforcers : Enforce(e)
         \/ \E w \in Wallets : WalletKeyLapses(w)
         \/ AuctionKeyLapses \/ Expire \/ DeadlinePasses \/ UNCHANGED vars
  PROVE  Books'
<1>1. UNCHANGED <<balance, job, seen, pc, raised, elsewhere, bypassed, torn>> /\ late \subseteq late'
  BY DEF Enforce, Find, Decide, Penalise, WalletKeyLapses, AuctionKeyLapses, Lapses, Expire,
         DeadlinePasses, vars, local, history, others
<1>2. auction'.by = auction.by /\ auction'.amount = auction.amount
  <2>1. CASE UNCHANGED auction
    BY <2>1
  <2>2. ASSUME NEW e \in Enforcers, Decide(e) PROVE auction'.by = auction.by /\ auction'.amount = auction.amount
    BY <2>2, DecisionKeeps
  <2>3. CASE DeadlinePasses
    <3>1. auction \in Document
      BY Parts DEF Typed, AllTypes, ShopType
    <3>2. QED
      BY <2>3, <3>1 DEF DeadlinePasses, Document
  <2>4. QED
    BY <2>1, <2>2, <2>3 DEF Enforce, Find, Penalise, WalletKeyLapses, AuctionKeyLapses, Expire, vars, shop
<1>3. QED
  BY <1>1, <1>2, StillBooks

(* What moves a wallet under its key is added to what its owner has; the   *)
(* key of a bid in the middle of its movements is not free.                *)
LEMMA OthersBooks == ASSUME Typed, Covered, Books, OthersMove PROVE Books'
<1> SUFFICES ASSUME late' = {}, ~torn' PROVE Books'
  BY DEF Books
<1>1. /\ late = {} /\ ~torn /\ UNCHANGED <<job, seen, pc, raised, auction>>
      /\ balance \in [Wallets -> Int] /\ elsewhere \in [Bidders -> Int]
      /\ raised \in [Bidders -> Nat] /\ Opening \in Int
  BY OthersFrame, NumbersAssumption, Parts
  DEF local, shop, Typed, AllTypes, MoneyType, HistType
<1>2. \A u \in Bidders : Standing(u)' = Standing(u) /\ Standing(u) \in Int /\ Own(u) \in Int
  <2>1. auction \in Document
    BY Parts DEF Typed, AllTypes, ShopType
  <2>2. auction.amount \in Money
    BY <2>1 DEF Document
  <2>3. auction.amount \in Nat
    BY <2>2, Money0, Zenon
  <2>4. QED
    BY <1>1, <2>3 DEF Standing, Own
<1>3. \A p \in Procs : User(p)' = User(p) /\ Amount(p)' = Amount(p)
  BY <1>1 DEF User, Amount
<1>4. \A p \in Procs : pc[p] \in Moving \cup {"refund"} =>
        User(p) \in Bidders /\ walletKey[User(p)] = p /\ Amount(p) \in Int
  BY <1>1, AmountIsInt DEF Covered, Reserves, Reserving, Moving, Raising, Typed, Fits, Fit
<1>5. ASSUME NEW w \in Bidders, MoveElsewhere(w) PROVE Books'
  <2>1. PICK a \in Amounts, d \in {-1, 1} :
          /\ balance' = [balance EXCEPT ![w] = @ + d * a]
          /\ elsewhere' = [elsewhere EXCEPT ![w] = @ + d * a]
    BY <1>5 DEF MoveElsewhere
  <2>2. UNCHANGED bypassed /\ walletKey[w] = Nobody /\ w \in Wallets /\ d * a \in Int
    <3>1. a \in Int /\ d \in Int
      BY AmountIsInt
    <3>2. d * a \in Int
      BY <3>1
    <3>3. QED
      BY <1>5, <3>2 DEF MoveElsewhere, Wallets
  <2>3. ASSUME NEW u \in Bidders PROVE balance'[u] - Own(u)' = balance[u] - Own(u)
    <3>1. balance[u] \in Int /\ elsewhere[u] \in Int /\ raised[u] \in Int
      BY <1>1 DEF Wallets
    <3>2. CASE u = w
      <4>1. balance'[u] = balance[u] + d * a /\ elsewhere'[u] = elsewhere[u] + d * a
        BY <1>1, <2>1, <2>2, <3>2
      <4>2. QED
        BY <1>1, <2>2, <3>1, <4>1 DEF Own
    <3>3. CASE u # w
      BY <1>1, <2>1, <3>3 DEF Own
    <3>4. QED
      BY <3>2, <3>3
  <2>4. ASSUME NEW u \in Bidders
        PROVE  balance[u] \in Int /\ balance'[u] \in Int /\ Own(u)' \in Int /\ Own(u) \in Int
    BY <1>1, <1>2, <2>1, <2>2, Adds DEF Own, Wallets
  <2>5. ASSUME NEW p \in Procs, pc[p] \in Moving \cup {"refund"}
        PROVE  balance'[User(p)] = balance[User(p)] /\ User(p) \in Bidders
    BY <1>1, <1>4, <2>1, <2>2, <2>5, NobodyAssumption DEF Wallets
  <2>6. (\A p \in Procs : pc'[p] \notin Moving) => AtRest'
    BY <1>1, <1>2, <2>2, <2>3, <2>4 DEF Books, AtRest
  <2>7. ASSUME NEW p \in Procs, pc'[p] \in Moving PROVE Midway(p)' /\ Held(p)'
    <3>1. Midway(p) /\ Held(p) /\ pc[p] \in Moving
      BY <1>1, <2>7 DEF Books
    <3>2. Midway(p)'
      BY <1>3, <2>2, <2>3, <2>4, <3>1 DEF Midway
    <3>3. User(p) \in Bidders /\ Amount(p) \in Int
      BY <1>4, <3>1
    <3>4. Standing(User(p))' = Standing(User(p)) /\ Standing(User(p)) \in Int
          /\ User(p)' = User(p) /\ Amount(p)' = Amount(p) /\ pc'[p] = pc[p]
      BY <1>1, <1>2, <1>3, <3>3
    <3>5. ASSUME User(p) \notin bypassed
          PROVE  balance'[User(p)] = Own(User(p))' - Standing(User(p))
                                     - IF pc[p] = "push" THEN Amount(p) ELSE 0
      <4>1. balance[User(p)] = Own(User(p)) - Standing(User(p))
                               - IF pc[p] = "push" THEN Amount(p) ELSE 0
        BY <3>1, <3>5 DEF Held
      <4>2. balance'[User(p)] - Own(User(p))' = balance[User(p)] - Own(User(p))
            /\ balance[User(p)] \in Int /\ balance'[User(p)] \in Int
            /\ Own(User(p))' \in Int /\ Own(User(p)) \in Int
        BY <2>3, <2>4, <3>3, <3>4
      <4>3. QED
        BY <3>3, <3>4, <4>1, <4>2
    <3>6. Held(p)'
      BY <2>2, <3>4, <3>5 DEF Held
    <3>7. QED
      BY <3>2, <3>6
  <2>8. ASSUME NEW p \in Procs PROVE ReadsTrue(p)'
    BY <1>1, <1>3, <2>2, <2>5 DEF Books, ReadsTrue, Moving
  <2>9. QED
    BY <2>6, <2>7, <2>8 DEF Books
<1>6. ASSUME NEW w \in Bidders, MoveUnlocked(w) PROVE Books'
  <2>1. /\ bypassed' = bypassed \cup {w} /\ UNCHANGED elsewhere
        /\ \A u \in Bidders \ {w} : balance'[u] = balance[u]
    BY <1>1, <1>6 DEF MoveUnlocked, Wallets
  <2>2. \A u \in Bidders : Own(u)' = Own(u)
    BY <1>1, <2>1 DEF Own
  <2>3. (\A p \in Procs : pc'[p] \notin Moving) => AtRest'
    BY <1>1, <1>2, <2>1, <2>2 DEF Books, AtRest
  <2>4. ASSUME NEW p \in Procs, pc'[p] \in Moving PROVE Midway(p)' /\ Held(p)'
    <3>1. Midway(p) /\ Held(p) /\ User(p) \in Bidders
      BY <1>1, <1>4, <2>4 DEF Books
    <3>2. QED
      BY <1>1, <1>2, <1>3, <2>1, <2>2, <3>1 DEF Midway, Held
  <2>5. ASSUME NEW p \in Procs PROVE ReadsTrue(p)'
    BY <1>1, <1>3, <1>4, <2>1 DEF Books, ReadsTrue, Moving
  <2>6. QED
    BY <2>3, <2>4, <2>5 DEF Books
<1>7. QED
  BY <1>5, <1>6 DEF OthersMove

(* The bid that moves money is the only request that holds the key.        *)
LEMMA OnlyOne ==
  ASSUME Exclusive, late = {}, NEW p \in Procs, pc[p] \in Inside
  PROVE  \A q \in Procs \ {p} : pc[q] \notin Inside
  BY DEF Exclusive, Guards

LEMMA MovingBooks ==
  ASSUME Typed, Exclusive, Books, NEW p \in Procs,
         ReadBalance(p) \/ Refund(p) \/ Hold(p) \/ PushBid(p) \/ (Fail(p) /\ pc[p] \in Moving)
  PROVE  Books'
<1> SUFFICES ASSUME late' = {}, ~torn' PROVE Books'
  BY DEF Books
<1>1. late = {} /\ ~torn /\ Typed' /\ Alone(p) /\ UNCHANGED job
  <2>1. Typed' /\ Alone(p)
    BY StepAlone DEF Step
  <2>2. UNCHANGED <<job, late>>
    BY DEF ReadBalance, Refund, Hold, PushBid, Fail, history, local
  <2>3. ~torn
    <3>1. CASE Fail(p)
      BY <3>1, Zenon DEF Fail
    <3>2. CASE ~Fail(p)
      <4>1. UNCHANGED torn
        BY <3>2 DEF ReadBalance, Refund, Hold, PushBid, history
      <4>2. QED
        BY <4>1, Zenon
    <3>3. QED
      BY <3>1, <3>2
  <2>4. QED
    BY <2>1, <2>2, <2>3
<1>2. /\ pc[p] \in Raising /\ pc[p] \in Inside
      /\ doc[p].by = auction.by /\ doc[p].amount = auction.amount
  <2>1. pc[p] \in Raising /\ pc[p] \in Inside
    BY InsideHas DEF ReadBalance, Refund, Hold, PushBid, Moving, Raising
  <2>2. QED
    BY <1>1, <2>1 DEF Exclusive, Guards
<1>3. User(p) \in Bidders /\ Amount(p) \in Int /\ User(p)' = User(p) /\ Amount(p)' = Amount(p)
  BY <1>1, <1>2, AmountIsInt DEF Typed, Fits, Fit, User, Amount
<1>4. \A q \in Procs \ {p} : pc'[q] = pc[q] /\ pc'[q] \notin Moving \cup {"refund"}
  BY <1>1, <1>2, OnlyOne, InsideHas DEF Alone, Moving
<1>5. /\ auction.amount \in Int /\ auction.by \in Someone /\ seen[p] \in Int
      /\ balance \in [Wallets -> Int] /\ raised \in [Bidders -> Nat] /\ Opening \in Int
      /\ seen \in [Procs -> Int] /\ pc \in [Procs -> Points]
      /\ \A u \in Bidders : balance[u] \in Int /\ raised[u] \in Int /\ elsewhere[u] \in Int
      /\ \A u \in Bidders : Own(u) \in Int
  <2>1. auction \in Document /\ doc[p].amount \in Int
    BY DocAmount, Parts DEF Typed, AllTypes, ShopType
  <2>2. auction.by \in Someone
    BY <2>1 DEF Document
  <2>3. Opening \in Int
    BY NumbersAssumption
  <2>4. QED
    BY <1>2, <2>1, <2>2, <2>3, BidderIsNoCreator, Parts
    DEF Typed, AllTypes, MoneyType, LocalType, HistType, PcType, Own
<1>6. UNCHANGED <<elsewhere, bypassed>>
  BY DEF ReadBalance, Refund, Hold, PushBid, Fail, history, others
<1>7. CASE ReadBalance(p)
  <2>1. AtRest
    BY <1>1, <1>4, <1>7 DEF Books, ReadBalance, Moving
  <2>2. UNCHANGED <<balance, raised, auction>> /\ \A u \in Bidders : Own(u)' = Own(u)
    BY <1>6, <1>7 DEF ReadBalance, shop, history, Own
  <2>3. AtRest'
    BY <1>6, <2>1, <2>2 DEF AtRest, Standing
  <2>4. ReadsTrue(p)'
    BY <1>3, <1>5, <1>7, <2>2 DEF ReadBalance, ReadsTrue
  <2>5. pc'[p] \in {"unlock", "refund"} \/ (pc'[p] = "hold" /\ ~Outbids(p))
    BY <1>7, GoesTo DEF ReadBalance
  <2>6. ASSUME pc'[p] = "hold" PROVE Midway(p)' /\ Held(p)'
    <3>1. \A u \in Bidders \ {User(p)} : Standing(u) = 0
      BY <1>2, <2>5, <2>6, BidderIsNoCreator DEF Outbids, Standing
    <3>2. Midway(p)'
      BY <1>3, <1>5, <1>6, <2>1, <2>2, <3>1 DEF Midway, AtRest
    <3>3. Held(p)'
      BY <1>3, <1>5, <1>6, <2>1, <2>2, <2>6 DEF Held, AtRest, Standing
    <3>4. QED
      BY <3>2, <3>3
  <2>7. QED
    BY <1>4, <2>3, <2>4, <2>5, <2>6 DEF Books, Moving, ReadsTrue
<1>8. CASE Refund(p)
  <2>1. AtRest /\ ReadsTrue(p)
    BY <1>1, <1>4, <1>8 DEF Books, Refund, Moving
  <2>2. Outbids(p) /\ auction.by \in Bidders \ {User(p)} /\ auction.by \in Wallets
    <3>1. Outbids(p)
      BY <1>8 DEF Typed, Fits, Fit, Refund
    <3>2. QED
      BY <1>2, <1>5, <3>1, BidderIsNoCreator DEF Outbids, Someone
  <2>3. /\ balance' = [balance EXCEPT ![auction.by] = @ + auction.amount]
        /\ UNCHANGED <<raised, auction, seen>> /\ \A u \in Bidders : Own(u)' = Own(u)
    BY <1>2, <1>6, <1>8 DEF Refund, shop, history, local, Own
  <2>4. pc'[p] = "hold" /\ pc[p] = "refund"
    BY <1>8, GoesTo DEF Refund
  <2>5. Midway(p)'
    <3> SUFFICES ASSUME NEW u \in Bidders \ (bypassed \cup {User(p)}) PROVE balance'[u] = Own(u)
      BY <1>3, <1>6, <2>3 DEF Midway
    <3>1. balance[u] = Own(u) - Standing(u) /\ balance[u] \in Int /\ Own(u) \in Int
      BY <1>5, <2>1 DEF AtRest
    <3>2. CASE u = auction.by
      BY <1>5, <2>2, <2>3, <3>1, <3>2 DEF Standing
    <3>3. CASE u # auction.by
      BY <1>5, <2>3, <3>1, <3>3 DEF Standing
    <3>4. QED
      BY <3>2, <3>3
  <2>6. balance'[User(p)] = balance[User(p)]
    BY <1>5, <2>2, <2>3
  <2>7. Held(p)'
    BY <1>3, <1>5, <1>6, <2>1, <2>3, <2>4, <2>6 DEF Held, AtRest, Standing
  <2>8. ReadsTrue(p)'
    BY <1>3, <1>6, <2>1, <2>3, <2>4, <2>6 DEF ReadsTrue
  <2>9. QED
    BY <1>4, <2>4, <2>5, <2>7, <2>8 DEF Books, Moving, ReadsTrue
<1>9. CASE Hold(p)
  <2>1. Midway(p) /\ Held(p) /\ ReadsTrue(p)
    BY <1>1, <1>9 DEF Books, Hold, Moving
  <2>2. /\ UNCHANGED <<raised, auction, seen>> /\ pc'[p] = "push" /\ pc[p] = "hold"
        /\ \A u \in Bidders : Own(u)' = Own(u)
    BY <1>6, <1>9, GoesTo DEF Hold, shop, history, local, Own
  <2>3. User(p) \in bypassed \/ balance'[User(p)] = balance[User(p)] - Amount(p)
    BY <1>3, <1>5, <1>9, <2>1, <2>2, BidderIsNoCreator DEF Hold, ReadsTrue
  <2>4. Midway(p)'
    BY <1>3, <1>5, <1>6, <1>9, <2>1, <2>2 DEF Midway, Hold
  <2>5. Held(p)'
    BY <1>3, <1>5, <1>6, <2>1, <2>2, <2>3 DEF Held, Standing
  <2>6. QED
    BY <1>4, <2>2, <2>4, <2>5 DEF Books, Moving, ReadsTrue
<1>10. CASE PushBid(p)
  <2>1. Midway(p) /\ Held(p) /\ UNCHANGED balance /\ pc[p] = "push"
    BY <1>1, <1>10 DEF Books, PushBid, Moving
  <2>2. auction'.by = User(p) /\ auction'.amount = Amount(p)
    <3>1. auction \in Document
      BY Parts DEF Typed, AllTypes, ShopType
    <3>2. QED
      BY <1>2, <1>10, <3>1 DEF PushBid, Saved, Document
  <2>3. pc'[p] = "unlock"
    BY <1>10, GoesTo DEF PushBid
  <2>4. raised'[User(p)] = raised[User(p)] + Standing(User(p))
    BY <1>2, <1>3, <1>5, <1>10 DEF PushBid, Standing
  <2>5. \A u \in Bidders \ {User(p)} : raised'[u] = raised[u]
    BY <1>5, <1>10 DEF PushBid
  <2>6. AtRest'
    <3> SUFFICES ASSUME NEW u \in Bidders \ bypassed PROVE balance'[u] = Own(u)' - Standing(u)'
      BY <1>6 DEF AtRest
    <3>1. CASE u = User(p)
      <4>1. balance[u] = Own(u) - Standing(u) - Amount(p)
        BY <2>1, <3>1 DEF Held
      <4>2. Standing(u) \in Int /\ Standing(u)' = Amount(p)
        BY <1>5, <2>2, <3>1 DEF Standing
      <4>3. Own(u)' = Own(u) - Standing(u)
        BY <1>5, <1>6, <2>4, <3>1, <4>2 DEF Own
      <4>4. QED
        BY <1>3, <1>5, <2>1, <4>1, <4>2, <4>3
    <3>2. CASE u # User(p)
      <4>1. balance[u] = Own(u) /\ Standing(u)' = 0
        BY <2>1, <2>2, <3>2 DEF Midway, Standing
      <4>2. Own(u)' = Own(u)
        BY <1>6, <2>5, <3>2 DEF Own
      <4>3. QED
        BY <1>5, <2>1, <4>1, <4>2
    <3>3. QED
      BY <3>1, <3>2
  <2>7. QED
    BY <1>4, <2>3, <2>6 DEF Books, Moving, ReadsTrue
<1>11. CASE Fail(p) /\ pc[p] \in Moving
  <2>1. /\ pc[p] = "hold" /\ ~Outbids(p) /\ UNCHANGED <<balance, raised, auction>>
        /\ \A u \in Bidders : Own(u)' = Own(u)
    BY <1>6, <1>11 DEF Fail, Moving, shop, Own
  <2>2. Midway(p) /\ Held(p)
    BY <1>1, <2>1 DEF Books, Moving
  <2>3. pc'[p] \in {"unlock", "crashed"}
    BY <1>11, GoesTo DEF Fail
  <2>4. \A u \in Bidders \ {User(p)} : Standing(u) = 0
    BY <1>2, <2>1, BidderIsNoCreator DEF Outbids, Standing
  <2>5. AtRest
    <3> SUFFICES ASSUME NEW u \in Bidders \ bypassed PROVE balance[u] = Own(u) - Standing(u)
      BY DEF AtRest
    <3>1. Standing(u) \in Int
      BY <1>5 DEF Standing
    <3>2. QED
      BY <1>5, <2>1, <2>2, <2>4, <3>1 DEF Midway, Held
  <2>6. AtRest'
    BY <1>6, <2>1, <2>5 DEF AtRest, Standing
  <2>7. QED
    BY <1>4, <2>3, <2>6 DEF Books, Moving, ReadsTrue
<1>12. QED
  BY <1>7, <1>8, <1>9, <1>10, <1>11

LEMMA BooksInductive == Typed /\ Exclusive /\ Covered /\ Books /\ [Next]_vars => Books'
<1> SUFFICES ASSUME Typed, Exclusive, Covered, Books, [Next]_vars PROVE Books'
  OBVIOUS
<1>1. ASSUME NEW p \in Procs, Step(p) \/ Fail(p) PROVE Books'
  BY <1>1, IdleBooks, MovingBooks, Zenon DEF Step
<1>2. QED
  BY <1>1, EnvironmentBooks, OthersBooks, Zenon DEF Next, OthersMove

LEMMA InitBooks == Init => Books
<1> SUFFICES ASSUME Init PROVE Books
  OBVIOUS
<1>1. Opening \in Int
  BY NumbersAssumption
<1>2. AtRest
  BY <1>1, BidderIsNoCreator DEF Init, AtRest, Standing, Own, Unsold, Wallets
<1>3. QED
  BY <1>2 DEF Init, Books, Moving, ReadsTrue

LEMMA BooksMatch == Typed /\ Exclusive /\ Books => HeldMatchesBids
<1> SUFFICES ASSUME Typed, Exclusive, Books, late = {}, ~torn, NEW u \in Bidders \ bypassed, ~Bidding(u)
             PROVE  balance[u] = Opening + elsewhere[u] - raised[u] - Standing(u)
  BY DEF HeldMatchesBids, Standing
<1> SUFFICES balance[u] = Own(u) - Standing(u)
  <2>1. Opening \in Int /\ elsewhere[u] \in Int /\ raised[u] \in Int
    BY NumbersAssumption, Parts DEF Typed, AllTypes, HistType
  <2>2. auction \in Document
    BY Parts DEF Typed, AllTypes, ShopType
  <2>3. auction.amount \in Money
    BY <2>2 DEF Document
  <2>4. auction.amount \in Nat
    BY <2>3, Money0, Zenon
  <2>5. Standing(u) \in Int
    BY <2>4 DEF Standing
  <2>6. QED
    BY <2>1, <2>5 DEF Own
<1>1. CASE \A p \in Procs : pc[p] \notin Moving
  BY <1>1 DEF Books, AtRest
<1>2. ASSUME NEW p \in Procs, pc[p] \in Moving PROVE balance[u] = Own(u) - Standing(u)
  <2>1. u \notin {User(p), doc[p].by}
    BY <1>2 DEF Bidding, Moving
  <2>2. Standing(u) = 0
    BY <1>2, <2>1 DEF Exclusive, Guards, Moving, Raising, Standing
  <2>3. balance[u] = Own(u)
    BY <1>2, <2>1 DEF Books, Midway
  <2>4. Own(u) \in Int
    BY NumbersAssumption, Parts DEF Own, Typed, AllTypes, HistType
  <2>5. QED
    BY <2>2, <2>3, <2>4
<1>3. QED
  BY <1>1, <1>2

(* Without faults every bidder who is not in the middle of a bid is out of *)
(* pocket by exactly their standing bid and the own bids they have raised, *)
(* and everyone who was outbid has been refunded in full (shop.js:1208),   *)
(* whatever else has moved their wallet under its key.                     *)
THEOREM HoldsMatchBids == Spec => []HeldMatchesBids
<1>1. Init => Sold /\ Covered /\ Books
  BY InitSold, InitCovered, InitBooks
<1>2. (Sold /\ Covered /\ Books) /\ [Next]_vars => (Sold /\ Covered /\ Books)'
  BY SoldInductive, CoveredInductive, BooksInductive DEF Sold
<1>3. Sold /\ Books => HeldMatchesBids
  BY BooksMatch DEF Sold
<1>4. QED
  BY <1>1, <1>2, <1>3, PTL DEF Spec

-----------------------------------------------------------------------------
(* While a lapsed deadline has not been dealt with, nobody who has read    *)
(* the auction can bring it back: the requests that run have all come      *)
(* after the deadline.                                                     *)
Lapsed   == auction.status = "awaiting_payment" /\ auction.deadline = "lapsed"
Fresh(p) == /\ pc[p] \notin Raising \cup {"close", "closeLocked"}
            /\ pc[p] = "save" => doc[p].status = "awaiting_payment"
FreshReads == Lapsed => \A p \in Procs : Fresh(p)

(* A lapsed deadline comes from the clock, and stands until it is decided. *)
LEMMA StaysLapsed ==
  ASSUME Typed, FreshReads, [Next]_vars, Lapsed'
  PROVE  (Lapsed /\ UNCHANGED auction) \/ DeadlinePasses
<1>1. auction \in Document
  BY Parts DEF Typed, AllTypes, ShopType
<1>2. ASSUME NEW p \in Procs, Step(p) \/ Fail(p) PROVE Lapsed /\ UNCHANGED auction
  <2>1. ~Close(p)
    BY <1>1 DEF Close, Awaiting, Lapsed, Document
  <2>2. ~PushBid(p)
    BY <1>1 DEF PushBid, Lapsed, FreshReads, Fresh, Raising, Document
  <2>3. ~EndSave(p)
    BY <1>1 DEF EndSave, Saved, Lapsed, FreshReads, Fresh, Document
  <2>4. UNCHANGED auction
    BY <1>2, <2>1, <2>2, <2>3
    DEF Step, Arrive, Glance, TakeAuctionKey, Recheck, TakeWalletKeys, ReadAuction, ReadBalance,
        Refund, Hold, PayCreator, Unlock, Fail, shop
  <2>5. QED
    BY <2>4 DEF Lapsed
<1>3. ASSUME NEW e \in Enforcers, Enforce(e) PROVE Lapsed /\ UNCHANGED auction
  <2>1. ~Decide(e)
    BY <1>1 DEF Decide, Decision, Lapsed, Document
  <2>2. QED
    BY <1>3, <2>1 DEF Enforce, Find, Penalise, shop, Lapsed
<1>4. CASE (\E w \in Wallets : WalletKeyLapses(w)) \/ AuctionKeyLapses \/ Expire \/ UNCHANGED vars
  BY <1>4 DEF WalletKeyLapses, AuctionKeyLapses, Expire, vars, shop, Lapsed
<1>5. CASE OthersMove
  BY <1>5, OthersFrame DEF shop, Lapsed
<1>6. QED
  BY <1>2, <1>3, <1>4, <1>5 DEF Next, OthersMove

LEMMA FreshInductive == Typed /\ FreshReads /\ [Next]_vars => FreshReads'
<1> SUFFICES ASSUME Typed, FreshReads, [Next]_vars, Lapsed', NEW q \in Procs PROVE Fresh(q)'
  BY DEF FreshReads
<1>1. CASE DeadlinePasses
  <2>1. pc'[q] \in {"idle", "done", "crashed"}
    BY <1>1 DEF DeadlinePasses, Quiet
  <2>2. QED
    BY <2>1 DEF Fresh, Raising
<1>2. CASE Lapsed /\ UNCHANGED auction
  <2>1. Fresh(q)
    BY <1>2 DEF FreshReads
  <2>2. auction.status # "live"
    BY <1>2 DEF Lapsed
  <2>3. ASSUME NEW p \in Procs, Step(p) \/ Fail(p) PROVE Fresh(q)'
    <3>1. Alone(p) /\ PcType /\ LocalType
      BY <2>3, StepAlone, Parts DEF Typed, AllTypes
    <3>2. CASE q # p
      BY <2>1, <3>1, <3>2 DEF Alone, Fresh
    <3>3. CASE q = p /\ ReadAuction(p)
      <4>1. doc'[p] = auction
        BY <3>1, <3>3 DEF ReadAuction, Read, LocalType
      <4>2. pc'[p] \in {"save", "unlock"}
        BY <2>2, <3>1, <3>3 DEF ReadAuction, Open, Goto, PcType
      <4>3. QED
        BY <1>2, <3>3, <4>1, <4>2 DEF Fresh, Lapsed, Raising
    <3>4. CASE q = p /\ ~ReadAuction(p)
      <4>1. pc'[p] \in Points \ (Raising \cup {"save", "close", "closeLocked"})
        BY <2>1, <2>2, <2>3, <3>1, <3>4
        DEF Step, Arrive, Glance, Close, TakeAuctionKey, Recheck, TakeWalletKeys, ReadBalance,
            Refund, Hold, PushBid, EndSave, PayCreator, Unlock, Fail, Over, Goto, PcType, Points,
            Inside, Raising, Fresh, Overdue, Open
      <4>2. QED
        BY <3>4, <4>1 DEF Fresh
    <3>5. QED
      BY <3>2, <3>3, <3>4
  <2>4. CASE UNCHANGED <<pc, doc>>
    BY <2>1, <2>4 DEF Fresh
  <2>5. ASSUME NEW e \in Enforcers, Enforce(e) PROVE UNCHANGED <<pc, doc>>
    BY <2>5 DEF Enforce, Find, Decide, Penalise, local
  <2>6. CASE OthersMove
    BY <2>4, <2>6, OthersFrame DEF local
  <2>7. QED
    BY <2>3, <2>4, <2>5, <2>6
    DEF Next, OthersMove, WalletKeyLapses, AuctionKeyLapses, Expire, DeadlinePasses, vars, local
<1>3. QED
  BY <1>1, <1>2, StaysLapsed

-----------------------------------------------------------------------------
(* The enforcers that may penalise u for a deadline they have found, and   *)
(* those that may still find the one that has lapsed: not one that is      *)
(* about to decide, as its decision ends the lapse.                        *)
Found(u)    == {e \in Enforcers : enforcer[e].step # "idle" /\ enforcer[e].debtor = u}
MayFind(u)  == {e \in Enforcers : Lapsed /\ Debtor = u /\ enforcer[e].step # "decide"}
Owed(u)     == Cardinality(Enforcers) * lapses[u]
InCredit(u) == penalties[u] + Cardinality(Found(u)) + Cardinality(MayFind(u)) <= Owed(u)

LEMMA Counts ==
  ASSUME NEW u
  PROVE  /\ IsFiniteSet(Found(u)) /\ IsFiniteSet(MayFind(u))
         /\ {Cardinality(Found(u)), Cardinality(MayFind(u)), Cardinality(Enforcers)} \subseteq Nat
         /\ Cardinality(MayFind(u)) <= Cardinality(Enforcers)
<1>1. Found(u) \in SUBSET Enforcers /\ MayFind(u) \in SUBSET Enforcers
  BY DEF Found, MayFind
<1>2. QED
  BY <1>1, EnforcersAssumption, FS_Subset, FS_CardinalityType

(* Only the clock gives the enforcers more to find.                        *)
LEMMA LessToFind ==
  ASSUME Typed, FreshReads, [Next]_vars, ~DeadlinePasses, UNCHANGED enforcer, NEW u
  PROVE  MayFind(u)' \subseteq MayFind(u)
<1>1. CASE Lapsed'
  <2>1. Lapsed /\ UNCHANGED auction
    BY <1>1, StaysLapsed
  <2>2. QED
    BY <2>1 DEF MayFind, Debtor
<1>2. CASE ~Lapsed'
  BY <1>2 DEF MayFind
<1>3. QED
  BY <1>1, <1>2

LEMMA OthersCredit ==
  ASSUME Typed, FreshReads, [Next]_vars, ~DeadlinePasses, UNCHANGED payment,
         NEW u \in Bidders, InCredit(u)
  PROVE  InCredit(u)'
<1>1. MayFind(u)' \in SUBSET MayFind(u)
  BY LessToFind DEF payment
<1>2. Cardinality(MayFind(u)') <= Cardinality(MayFind(u)) /\ Cardinality(MayFind(u)') \in Nat
  BY <1>1, Counts, FS_Subset, FS_CardinalityType
<1>3. Found(u)' = Found(u)
  BY DEF payment, Found
<1>4. penalties[u] \in Nat /\ lapses[u] \in Nat /\ UNCHANGED <<penalties, lapses>>
  BY Parts DEF Typed, AllTypes, PayType, payment
<1>5. Owed(u) \in Nat /\ Owed(u)' = Owed(u)
  BY <1>4, Counts DEF Owed
<1>6. QED
  BY <1>2, <1>3, <1>4, <1>5, Counts DEF InCredit

(* A deadline that passes lets every enforcer penalise its debtor once.    *)
LEMMA DeadlineCredit ==
  ASSUME Typed, DeadlinePasses, NEW u \in Bidders, InCredit(u) PROVE InCredit(u)'
<1>1. auction \in Document /\ penalties[u] \in Nat /\ lapses[u] \in Nat
  BY Parts DEF Typed, AllTypes, ShopType, PayType
<1>2. Found(u)' = Found(u) /\ UNCHANGED penalties
  BY DEF DeadlinePasses, Found
<1>3. MayFind(u) = {}
  BY DEF DeadlinePasses, MayFind, Lapsed
<1>4. Debtor' = Debtor
  BY <1>1 DEF DeadlinePasses, Debtor, Document
<1>5. Cardinality(Found(u)) \in Nat /\ Cardinality(Enforcers) \in Nat
  BY Counts
<1>6. CASE Debtor = u
  <2>1. lapses'[u] = lapses[u] + 1
    BY <1>6, NobodyAssumption, Parts DEF DeadlinePasses, Typed, AllTypes, PayType
  <2>2. Owed(u)' = Owed(u) + Cardinality(Enforcers) /\ Owed(u) \in Nat
    BY <1>1, <1>5, <2>1 DEF Owed
  <2>3. MayFind(u)' \in SUBSET Enforcers
    BY DEF MayFind
  <2>4. Cardinality(MayFind(u)') <= Cardinality(Enforcers) /\ Cardinality(MayFind(u)') \in Nat
    BY <2>3, EnforcersAssumption, FS_Subset, FS_CardinalityType
  <2>5. QED
    BY <1>1, <1>2, <1>3, <1>5, <2>2, <2>4, FS_EmptySet DEF InCredit
<1>7. CASE Debtor # u
  <2>1. lapses'[u] = lapses[u]
    BY <1>7, Parts DEF DeadlinePasses, Typed, AllTypes, PayType
  <2>2. MayFind(u)' = {}
    BY <1>4, <1>7 DEF MayFind
  <2>3. QED
    BY <1>2, <1>3, <2>1, <2>2 DEF InCredit, Owed
<1>8. QED
  BY <1>6, <1>7

(* Who finds the lapse no longer may; its debtor may be penalised instead. *)
LEMMA FindCredit ==
  ASSUME Typed, NEW e \in Enforcers, Find(e), NEW u \in Bidders, InCredit(u) PROVE InCredit(u)'
<1>1. enforcer \in [Enforcers -> Row] /\ penalties[u] \in Nat /\ lapses[u] \in Nat
  BY Parts DEF Typed, AllTypes, PayType
<1>2. Owed(u)' = Owed(u) /\ Owed(u) \in Nat /\ UNCHANGED <<penalties, auction>>
  BY <1>1, Counts DEF Find, Owed, shop
<1>3. /\ enforcer'[e].step = "decide" /\ enforcer'[e].debtor = Debtor
      /\ enforcer[e].step = "idle" /\ Lapsed
      /\ \A f \in Enforcers \ {e} : enforcer'[f] = enforcer[f]
  BY <1>1 DEF Find, Lapsed
<1>4. CASE Debtor = u
  <2>1. Found(u)' = Found(u) \cup {e} /\ e \notin Found(u)
    BY <1>3, <1>4 DEF Found
  <2>2. Lapsed' /\ Debtor' = Debtor
    BY <1>2, <1>3 DEF Lapsed, Debtor
  <2>3. MayFind(u)' = MayFind(u) \ {e} /\ e \in MayFind(u)
    BY <1>3, <1>4, <2>2 DEF MayFind
  <2>4. Cardinality(Found(u)') = Cardinality(Found(u)) + 1
    BY <2>1, Counts, FS_AddElement
  <2>5. Cardinality(MayFind(u)') = Cardinality(MayFind(u)) - 1
    BY <2>3, Counts, FS_RemoveElement
  <2>6. QED
    BY <1>1, <1>2, <2>4, <2>5, Counts DEF InCredit
<1>5. CASE Debtor # u
  <2>1. Found(u)' = Found(u)
    BY <1>3, <1>5 DEF Found
  <2>2. MayFind(u) = {} /\ MayFind(u)' = {}
    BY <1>2, <1>5 DEF MayFind, Debtor
  <2>3. QED
    BY <1>2, <2>1, <2>2 DEF InCredit
<1>6. QED
  BY <1>4, <1>5

LEMMA DecideCredit ==
  ASSUME Typed, NEW e \in Enforcers, Decide(e), NEW u \in Bidders, InCredit(u) PROVE InCredit(u)'
<1>1. /\ auction \in Document /\ enforcer \in [Enforcers -> Row]
      /\ penalties[u] \in Nat /\ lapses[u] \in Nat
  BY Parts DEF Typed, AllTypes, ShopType, PayType
<1>2. Owed(u)' = Owed(u) /\ Owed(u) \in Nat /\ UNCHANGED penalties
  BY <1>1, Counts DEF Decide, Owed
<1>3. Found(u)' = Found(u)
  BY <1>1 DEF Decide, Found, Row
<1>4. MayFind(u)' = {}
  BY <1>1 DEF Decide, Decision, MayFind, Lapsed, Document
<1>5. QED
  BY <1>1, <1>2, <1>3, <1>4, Counts, FS_EmptySet DEF InCredit

LEMMA PenaliseCredit ==
  ASSUME Typed, FreshReads, [Next]_vars, NEW e \in Enforcers, Penalise(e),
         NEW u \in Bidders, InCredit(u)
  PROVE  InCredit(u)'
<1>1. enforcer \in [Enforcers -> Row] /\ penalties \in [Bidders -> Nat] /\ lapses[u] \in Nat
  BY Parts DEF Typed, AllTypes, PayType
<1>2. Owed(u)' = Owed(u) /\ Owed(u) \in Nat /\ UNCHANGED auction
  BY <1>1, Counts DEF Penalise, Owed, shop
<1>3. /\ enforcer[e].step = "penalise" /\ enforcer'[e].step = "idle"
      /\ \A f \in Enforcers \ {e} : enforcer'[f] = enforcer[f]
  BY <1>1 DEF Penalise, NoRow
<1>4. MayFind(u)' = MayFind(u)
  BY <1>2, <1>3 DEF MayFind, Lapsed, Debtor
<1>5. CASE enforcer[e].debtor = u
  <2>1. Found(u)' = Found(u) \ {e} /\ e \in Found(u)
    BY <1>3, <1>5 DEF Found
  <2>2. Cardinality(Found(u)') = Cardinality(Found(u)) - 1
    BY <2>1, Counts, FS_RemoveElement
  <2>3. penalties'[u] \in {penalties[u], penalties[u] + 1}
    BY <1>1, <1>5 DEF Penalise
  <2>4. QED
    BY <1>1, <1>2, <1>4, <2>2, <2>3, Counts DEF InCredit
<1>6. CASE enforcer[e].debtor # u
  <2>1. Found(u)' = Found(u)
    BY <1>3, <1>6 DEF Found
  <2>2. penalties'[u] = penalties[u]
    BY <1>1, <1>6 DEF Penalise
  <2>3. QED
    BY <1>2, <1>4, <2>1, <2>2 DEF InCredit
<1>7. QED
  BY <1>5, <1>6

Credit == \A u \in Bidders : InCredit(u)

LEMMA CreditInductive == Typed /\ FreshReads /\ Credit /\ [Next]_vars => Credit'
<1> SUFFICES ASSUME Typed, FreshReads, Credit, [Next]_vars, NEW u \in Bidders PROVE InCredit(u)'
  BY DEF Credit
<1>1. InCredit(u)
  BY DEF Credit
<1>2. CASE DeadlinePasses
  BY <1>1, <1>2, DeadlineCredit
<1>3. ASSUME NEW e \in Enforcers, Enforce(e) PROVE InCredit(u)'
  BY <1>1, <1>3, FindCredit, DecideCredit, PenaliseCredit DEF Enforce
<1>4. CASE ~DeadlinePasses /\ UNCHANGED payment
  BY <1>1, <1>4, OthersCredit
<1>5. CASE OthersMove
  <2>1. ~DeadlinePasses
    BY <1>5, OthersFrame, Parts DEF DeadlinePasses, shop, Typed, AllTypes, ShopType, Document
  <2>2. QED
    BY <1>4, <1>5, <2>1, OthersFrame
<1>6. QED
  BY <1>2, <1>3, <1>4, <1>5
  DEF Next, OthersMove, Step, Arrive, Glance, Close, TakeAuctionKey, Recheck, TakeWalletKeys, ReadAuction,
      ReadBalance, Refund, Hold, PushBid, EndSave, PayCreator, Unlock, Fail, WalletKeyLapses,
      AuctionKeyLapses, Expire, vars

LEMMA InitCredit == Init => FreshReads /\ Credit
<1> SUFFICES ASSUME Init PROVE FreshReads /\ Credit
  OBVIOUS
<1>1. ~Lapsed
  BY DEF Init, Lapsed, Unsold
<1>2. ASSUME NEW u \in Bidders PROVE InCredit(u)
  <2>1. Found(u) = {} /\ MayFind(u) = {}
    BY <1>1 DEF Init, Found, MayFind, NoRow
  <2>2. penalties[u] = 0 /\ Owed(u) = 0
    BY Counts DEF Init, Owed
  <2>3. QED
    BY <2>1, <2>2, FS_EmptySet DEF InCredit
<1>3. QED
  BY <1>1, <1>2 DEF FreshReads, Credit

(* However the runs of the enforcement overlap with one another, with late *)
(* closes and with ends, nobody is penalised more often than each run may  *)
(* for each deadline they let pass.                                        *)
THEOREM PenaltiesAreForLapses == Spec => []PenaltiesForLapses
<1>1. Typed /\ Credit => PenaltiesForLapses
  <2> SUFFICES ASSUME Typed, NEW u \in Bidders, InCredit(u)
               PROVE  penalties[u] <= Cardinality(Enforcers) * lapses[u]
    BY DEF Credit, PenaltiesForLapses
  <2>1. penalties[u] \in Nat /\ lapses[u] \in Nat
    BY Parts DEF Typed, AllTypes, PayType
  <2>2. Owed(u) \in Nat
    BY <2>1, Counts DEF Owed
  <2>3. penalties[u] <= Owed(u)
    BY <2>1, <2>2, Counts DEF InCredit
  <2>4. QED
    BY <2>3 DEF Owed
<1>2. QED
  BY <1>1, InitTyped, TypedInductive, InitCredit, FreshInductive, CreditInductive, PTL DEF Spec
=============================================================================

# Formal models of the Millo money paths

TLA+ specifications of the parts of Millo that move money, the TLC runs that
check them on small instances, and TLAPS proofs that hold for every instance.
Every definition is translated from the code under `src/packages`;
`PROJECT.json` maps each one to its lines.

## 1. Inventory of the system

Millo is a live-streaming and creator-economy platform: a Fastify API and
WebSocket server (`packages/api`), BullMQ workers (`packages/workers`), and
domain packages they share, over MongoDB, Redis and payment providers. Several
API and worker processes run at once; every `await` lets another request of the
same process, or any other process, act. MongoDB documents are updated one at a
time, without transactions, so everything that spans two documents, or a read
and a later save, depends on Redis locks, unique indexes or conditional updates.

| Part | State | Operations | Talks to | What is hard | What makes it correct |
|---|---|---|---|---|---|
| Ledger (`economy/src/ledger.js`) | `LedgerEntry` rows with a unique `sequence`, the `Counter` document | seed, next sequence, append, verify | every money path | seeding race, retries, loss of the counter | one row per call or none, under a number of its own; calls end |
| Wallet (`economy/src/coins.js`) | `Wallet.balanceCents` | credit, debit, balance | ledger, locks, audit rows | read-modify-write, second attempt without the lock, partial failure | never negative; agrees with the ledger |
| Locks (`economy/src/utils/redisLock.js`, `api/src/lib/withRedisLock.js`, both `walletLock.js`) | one Redis key per wallet or auction | acquire, release, expiry | wallets, payouts, auctions | expiry under the owner, release of another's key, crashes | mutual exclusion while sections are quick |
| Idempotency (`billing/src/idempotency.js`) | `IdempotencyRecord` | execute with key | charges, payouts | two first calls, failure of the record | one outcome per key; success is real |
| Payouts (`billing/src/payouts.js`, `api/src/services/paymentOrchestration.js`, admin routes of `payments.js`) | `PayoutRequest.status`, tier, hold | request, approve, reject, batch, claim, cycle | wallet, providers, KYC | unconditional saves that overlap, throws in mid-sequence | money leaves once or returns once; the cycle serves all |
| Payout retry (`billing/src/retryWorker.js`) | none of its own | retry | payouts | refuses what it is given | (no state change is possible) |
| Creator wallet (`economy/src/creatorWallet.js`) | `CreatorWallet` | credit, debit, record payout | wallet, payouts | read-modify-write without the lock, started and not awaited | follows what gifts brought, unless an update is lost |
| Gifts (`economy/src/gifts.js`) | ledger rows, wallets | send, reverse | wallet, ledger | compensation after a failed credit, concurrent reversal | all of a gift's movements or none |
| Auctions (`api/src/routes/shop.js`, `live.js`) | `Auction`, bidders' wallets | create, bid, end, lazy close | locks, wallets | nested locks, three ways to close | bids rise; every loser refunded; whatever pays the creator pays the standing bid |
| Auction payment (`economy/src/reassignment.js`, `workers/src/auction.worker.js`, `api/src/workers/auctionDeadlineWorker.js`) | winner, deadline, penalties | enforce, reassign, default | auctions | two enforcers at once | penalties for lapsed deadlines only; who is to pay has bid the amount |
| Coin purchase (`payments.js`, `financialIntegrity`, `lib/webhookDedupe.js`) | idempotency record, ledger rows, dedupe marks, wallet | confirm, events, refund, capture | provider, idempotency, wallet | duplicated, lost and overlapping events | one credit per payment; a report is settled or refused |
| Shop orders (`payments.js`, `shop.js`) | `Order`, `Product.inventory`, coupon count | checkout, session event, edit | Stripe, wallet | nothing reserved, repeated events, failure half way | no overselling unless checkouts or lines crowd; paid means fulfilled |
| Paid calls (`dm-monetization`, `api/src/routes/dm.js`) | `DMSession`, `DMOfflineEvent` | end, approve, queue, sync | wallet | loaded documents saved late, approvals and syncs that overlap, errors between three movements | the user pays the price once; the creator gets it |
| The rest | see `PROJECT.json` | | | | |

`PROJECT.json` lists every component, modelled or not, and 40 hazards: the
places where this code is hard to test. What merely follows from them is not
listed: a payout that a throw or a batch claim leaves in a status nobody takes up,
a balance saved without its ledger row, a failure that is replayed for ever. All of
these states are reachable in the models. A hazard's `note` says when a property
names the case as its exception and does not catch it; the list is in section 7.

## 2. Plan

Written, in this order, each with an MC module, runs and proofs: `AppendLog` and
`LedgerSequence`, `Wallet` (with `Account`), `Idempotency`, `Payout`, `Auction` (with the payment deadlines that were planned as a module of
their own: they share the document), `CoinPurchase`, `ShopOrders`, `Gifts` (with
the creator wallet), `CallSession`.

How they compose. `LedgerSequence` implements `AppendLog`; `Wallet` implements
`Account` while nothing disturbs it; `CoinPurchase` instantiates `Idempotency` and implements it. Elsewhere a call of a component
with a model of its own is one step that has every outcome of that model:
`economy.credit` in `CoinPurchase`, `ShopOrders`, `Gifts` and `CallSession` succeeds, is refused
because the wallet is busy, or is made once or twice and reported either way,
which is what `Wallet` shows of it; the provider call of `Payout` is
`Idempotency`.

Left, in the order of what it would add:

1. `Payout`: the Wise event that completes a processing payout, and
   `recordPayout`;
2. what the users of `Idempotency` and `Account` inherit from them, as theorems
   about the users;
3. subscriptions, pay per view and tickets: one debit and one credit each, as in
   `Gifts`, with an entitlement instead of a row; disputes;
4. the queued orchestrator and `stripeService`, the second path of a purchase.

## 3. The modules

### AppendLog and LedgerSequence

`AppendLog` is what `ledger.js` promises: `appendEntry` adds one row under a
number of its own, or none. `LedgerSequence` is the allocator. `counter` is the
`Counter` document (or `Missing`), `rows` the numbers stored under the unique
index, `pc`, `top`, `seq`, `seeks` and `conflicts` the locals of each call.
`FindCounter`, `AggregateMax` and `CreateCounter` are the three awaits of the
seeding; `Increment` is the `$inc` with its 8 attempts (`SeekLimit`),
`InsertRow` the `create` with its 10 (`InsertLimit`). `CallFails` is any other
database error or the death of the process; `LoseCounter` is the environment
dropping the counters collection, the case the retry loops are there for.
The refinement maps an `AppendLog` entry to the number of a call that is done.

### Wallet

One Redis key per user guards `coins.credit`, `coins.debit` and
`requestCreatorPayout`. The model has one process per request, with the awaits
of its body (`read`, `write`, `log`, `audit`) and the `finally` block
(`succeeded`, `failed`) as program counter. `doDebit` is the conditional `$inc`,
the two others save what they computed from a read. `AfterLock` is the `catch`
of `credit` and `debit`: unless the lock was held by someone else the body is
run again *without* the lock. `Release` has both disciplines: the economy
package deletes whatever key is there, the API compares its token. `ledger` is
what `getLedgerBalance` returns (of the rows of credit and debit), `reserved`
the sum of the payout requests. `lock[u]` names the process whose SET made the
key: the value the API's token stands for.
`disturbed` is a history variable: a key lapsed under its owner, a call failed,
or a body ran unlocked. Faults are switched by the constant `Faults`.

`Account` is what the three promise: a request moves its amount at one instant,
if the balance of that instant covers it, or is refused and moves nothing.
`Wallet` maps to it (`Promise`) by the balance and by what an await says of its
request (`Reported`): the movement is made when the balance is written, and
`returned` means made. `MovesAtOnce` says that every step that leaves the wallet
undisturbed is a step of `Account` or none.

### Idempotency

`executeWithIdempotency` for one key. A result is named by the call that
produced it, because external ids carry a time stamp. `effects` are the runs
that took effect at the provider, which a run that throws can have done too.
`unrecorded` remembers that the record of a failed run was lost (the error of
its `create` is swallowed). Records do not expire: `expiresAt` has a plain
index and no code deletes them.

### Payout

The statuses of each `PayoutRequest` and the handlers that work on it: admin
approval (`executePayoutBatchWithChecks`), rejection, the automated cycle, and
the two batch routes. `job` holds, for each process, its operation, the payout
it is at, those it still has to do, and the status it read. `Save` is mongoose's
`save` and `updateOne`: by id, without a condition. It also sets the history
variable `raced` when it replaces a status its handler had not read. `sent`
counts the calls of the provider that took effect, `refunds` the returns to the wallet, and
`record` is the idempotency record of the call. What an effect is differs: for
Stripe a transfer, while the functions for PayPal, Wise and bank in this repository
(`paypal.js:7-20`, `payoutService.js:56-116`) write an audit row and leave the transfer to
somebody else, so that for these `sent` is about the order of the code's steps only. `cleared` abstracts KYC and verification; the
environment changes it. The shadow ban is asked for by an admin's approval only
and is a free choice there. Amounts are left out: a payout's amount never changes.

The provider call is one step here; what happens when two handlers are in it at
once is `Idempotency`. A handler that throws or dies is `Fail`, with the provider
call done or not, and its record lost: `executeWithIdempotency` writes the record
after the call, so that a later call would move the money again. There is one
process for the cycle: that the automated route (`payments.js:1459`) is called while
a cycle runs is left out.

### Auction

One `Auction` document (`auction`, `bids`, `expired`), the wallets of its bidders
and its creator, and the Redis keys. A process handles one request: a bid over
HTTP (`shop.js`), a bid over the WebSocket (`live.js`), a view, or the creator's
end. Its `pc` is the await it is at, `doc` the document it has read, `seen` the
balance. `Glance` is the look before any lock, which closes an expired auction
for a view and an HTTP bid but not for a WebSocket bid; `TakeAuctionKey` to
`Unlock` are the section under the auction key, in which `TakeWalletKeys` takes
the keys of everybody whose wallet will change, in order and so as one step. The
two kinds of bid differ in `Hold`: HTTP saves the balance it has computed, the
WebSocket decrements. mongoose's `save` writes the fields the handler changed:
`Saved`. The end looks at no status. `Find`, `Decide` and `Penalise` are
`runAuctionPaymentEnforcement`, which runs in the queue's worker and in the API's
interval, holds no key, and updates by id; `Find` reads the sorted bids
(`SecondBid`) and `Decide` writes them later. `late` and `torn` are history: kinds
of key that lapsed under their owner, and a request stopped between its writes.
Two things of the code are kept as they are: reassignment always takes the second-highest
bid, whoever has defaulted, and nothing sets `paidAt`, so that every winner is
treated as one who has not paid. Two things are assumed: a creator does not bid on
the own auction (the fraud checks look for a shared device, nothing refuses the
creator as such), and a payment window, a day by default, is longer than any
request (`Quiet`).

The wallets are not the auction's own. Two actions stand for everything else that
moves one (gifts, purchases, payouts): `MoveElsewhere` does it under the wallet's
key, and `elsewhere` keeps its sum; `MoveUnlocked` is the second attempt of
`coins.js:156` and `:220`, which runs beside whoever has the key, so that nothing is
known of the balance it leaves but that it is not negative. `bypassed` are the wallets
it has moved. One that comes between `live.js:2383`, where a bid looks at the balance, and
its `$inc` (`:2403`) makes the balance negative with every key in its place: that is
a hazard of the list, and the two properties of balances say nothing of these wallets.

### CoinPurchase

One payment and everything that may report it: the client's confirmation,
`payment_intent.succeeded`, `checkout.session.completed`, and the events that
move the balance directly (refund, PayPal capture). A process is one
confirmation or one *delivery* of an event; the provider delivers again what it
has no 200 for. `Mark` sets the dedupe key *before* the work: a delivery that is
answered 500, because the money lock is held, is repeated and then ignored, and
one that dies is lost. `TakeMoneyLock` to `Unlock` are `withMoneyUserLock` around
`executeWithIdempotency`, whose operation is `CheckLedger` and `Credit`. The lock is
of the user, not of the payment (`moneyLock.js:24`): reports of one payment contend
for it in the model, and any report may find that another purchase, an invoice or a
payout of the same user has it, or that payments are not live (`refused`).
A mark lasts 48 hours by default and Stripe repeats an event for up to three days, so a mark
can be gone when the event comes again (`MarkLapses`).
`incidents` is the history of what went wrong, which the properties name: the
lock lapsed under its owner (`slow`), Redis did not answer for the mark
or the mark has lapsed (`unmarked`), the ledger could not be read (`unread`), `economy.credit` went wrong
inside (`doubtful`), the record of a failure was lost (`unrecorded`). The instance
at the end maps the state to `Idempotency`. Production settings are assumed: the
development fallback (`payments.js:423`), which credits without Stripe, is off.
Amounts are left out, so that a refund takes `totalCoins` where the purchase
added `totalCoins * 100` (`payments.js:2832`) is listed as a hazard only.

### ShopOrders

Checkouts of one product, their payment, the deliveries of the session event and
edits by the creator. `FindOrder`, `CreateOrder`, `TakeStock`, `CreditCreator` and
`CountCoupon` are the awaits of the handler and of `createOrderFromItems`. Nothing
is reserved: a checkout looks at inventory and coupon, and both change when the
event is handled, so `crowded` and `stacked` record when a checkout or an edit
counts on what others count on. A session counts (`Waiting`, `Hopes`) only while
an event of it may still create its order or a delivery of it is before the
stock or the coupon; an order that was left half way does not (`Untaken`,
`Uncounted`), and what it did not take is a term of the property's bound instead. A
cart may name a product in several lines, and each line is checked on its own
(`Largest`, the largest line, against `Qty`, their sum), which is `crowded` too when
they do not all fit; the lines' stock updates are one step, of which the later
ones take nothing once the inventory is below zero. A negative inventory means unlimited, as the code
has it (`inventory >= 0` is the test for a limited product), so a product that is
oversold becomes unlimited. A cart whose items do not fit Stripe's 500 characters
of metadata is cut, does not parse, and has no order (`Long`).
`stripeSessionId` is not unique: `overlapped` records two deliveries between
`findOne` and `create`. A busy wallet of the creator ends the handler with the
order made and the stock taken, the creator not credited, the coupon not counted,
and 200 as the answer (`busy`).

### Gifts

`sendGift` and `reverseGift` as sequences of wallet movements, and the updates of
the `CreatorWallet` that each credit starts without waiting. A movement succeeds,
is refused, or is doubtful (see section 2). `incidents` names what the
properties have to exclude, all of it found in the code: the compensating refund's
error is swallowed (`unrefunded`), as are those of the platform's fee
(`unshared`); two reversals overlap (`overlapped`); a reversal pays the
sender first and can stop before the receiver is debited, after which it is
refused (`halfway`); a gift that was refunded can be reversed (`unkept`); and for the
creator wallet: two updates overlap (`raced`), the first one finds no document
and starts from a wallet that already has the coins (`late`), a reversal's update
runs before the gift's (`overtaken`), an update never finishes (`lost`): whether the
receiver is a creator cannot be read, a call of it throws, and neither is told to anyone
(`coins.js:108`, `gifts.js:165`), or its process dies, also long after the gift has answered.

### CallSession

One paid call with a creator (`DMSession`) from its start: `clock` is the minutes
since `startedAt`, `session` the document. A process is one request to end it, one
to approve it, or one sync of the offline queue; `pc` is the await it is at, `copy`
the document it has loaded. The routes look first (`AskToEnd`, `AskToApprove`);
`LoadToEnd` and `SaveEnd` are `endSession`, `LoadToApprove` to `SaveCharge`
`approveSession`, whose debit and credit are movements as in `Gifts`. mongoose's
`save` writes the fields that have changed, so that an amount that is still what
was loaded is not written (`Ended`). A sync takes the pending events by
`createdAt` and runs the same two functions for each; `MarkProcessed` comes last, and
an error (`Raise`) leaves the event for a later sync and goes on to the next.
`"stranger"` is an approval by somebody who is not the creator, which the queue
accepts and `approveSession` refuses. `incidents` is what the properties have to
exclude, all of it found in the code: two ends are about to be saved (`twice`), an
approval begins to charge while another does (`overlapped`), a debit is refused
after `approved` has been saved (`refused`), a movement goes wrong (`doubtful`), or
the call stops between debit and `charged` (`halfway`), after which it is charged
again by the next sync and never by the route. The route refuses an approved
session (`dm.js:276`) and an approval before the end finds no amount, so a call that
is approved while it lasts is never charged over HTTP; the model has it so, and
`ChargedWhatItCost` says that it is then not marked charged either. `paid` and `received` are history,
by the call that moved the coins.

## 4. The runs

| Run | Instance | Shows |
|---|---|---|
| `ledger_sequence` | 3 calls, old rows present, limits 2 and 3, 1 loss | type, `NoSharedNumber`, `EveryCallEnds`, refinement of `AppendLog` |
| `wallet_faults` | 2 requests of any kind, amounts 1-2, all four faults | type, `NonNegative`, `Reconciled`, refinement of `Account` (`MovesAtOnce`) |
| `wallet_double_spend` | 3 requests, no fault | **violated**: `BalanceMatchesLedger` |
| `idempotency` | 3 calls, 2 faults | type, `SameOutcome`, `SuccessIsReal` |
| `payout_overlap` | 1 payout, 2 admins, clerk, cycle, 1 fault | type, `UnracedOneWayOut`, `PaidIsSent`, `CycleKeepsOff`, `CycleServesAll` |
| `payout_twice` | 1 payout, no fault | **violated**: `NoDuplicatePayout` |
| `payout_blocked` | 2 payouts, no fault | **violated**: `CycleServesCleared` |
| `auction` | 2 bidders, 3 requests of every kind, 2 enforcers, 1 movement from elsewhere, 1 fault | type, `NeverOverdrawn`, `HeldMatchesBids`, `BidsRise`, `CreatorGetsStandingBid`, `PenaltiesForLapses`, `EndedIsFinal`, `WinnerOwesOwnBid` |
| `coin_purchase` | 1 confirmation, 2 deliveries of 3 events, 1 fault, 1 outage | type, `CreditedAtMostOnce`, `FailureIsReal`, `DirectlyOnce`, `PaymentIsSettled`, refinement of `Idempotency` (`CallsOnce`) |
| `shop_orders` | 3 sessions (one too long, one of two lines), 4 deliveries, stock 2, coupon for 1, 1 edit, 1 fault | type, `LimitsHold`, `PaidIsFulfilled` |
| `gifts` | 1 gift, 2 reversals, 2 faults | type, `AllOrNothing`, `CreatorWalletFollows` |
| `call_session` | 1 end, 1 approval, 2 syncs, 2 events of any kind, 3 moments, 1 fault | type, `ChargedWhatItCost`, `CreatorGetsIt`, `OfflineOrderKept` |

Why the bounds are enough to be interesting. Three writers give a late seeder, an
early one and one that has already inserted; limits of 2 and 3 stand for the
code's 8 and 10. Two
requests per wallet let each fault hit one while the other is anywhere; the
disagreement needs three. Three idempotent calls give a winner, a loser and one
that comes later. Two admins, a clerk and the cycle let any two handlers, and
two of the same kind, be at any pair of awaits of one payout, and the cycle meet it
in every state they leave it in; two payouts are what
the cycle needs for one to block the other, as `payout_blocked` has it. An auction needs two bids and a third
request that closes or ends it at any await of theirs; two bidders and two
amounts give outbidding, raising one's own bid and refusal for want of
balance; two enforcers can act on one row, and one movement from elsewhere can come
between a look at a balance and the bid's own write. Bidders and enforcers are
interchangeable there, and the run checks no liveness. A purchase needs three reports of one
payment for one to hold the lock, one to be refused and one to come later, and as
many deliveries for an event to be repeated. Of three checkouts two compete for
the last unit and one coupon, one has two lines that fit one by one and, after a sale, not
together, and one event comes twice. One gift and two
reversals are the smallest instance in which reversals overlap, and two faults let
a movement fail and its compensation as well; more gifts would not interact but
through balances that other movements change too. A paid call has three prices (within the
free minutes, billable, above the cap), which the moments 0, 2 and 9 give; a request
and two syncs give three overlapping ends or approvals, and two events are what an
order needs. The bound of faults is what
limits these runs; the proofs have none. Deadlock is not checked: calls end,
and a system with nothing to do may stop.

### What the violated runs show

- `wallet_double_spend`. `coins.js:2` says double-spending is impossible. A debit
  refused for want of balance is run again without the lock; if it succeeds
  between the read and the save of a credit that does hold the lock, that save
  puts the debited coins back. All calls report success.
- `payout_twice`. `payouts.js:2` says there are no duplicate payouts. An
  approval and a rejection that have both read "pending" both go through: the
  provider pays and the wallet is refunded. The idempotency key covers the
  provider call, not the decision.
- `payout_blocked`. `paymentOrchestration.js:175` says the cycle processes
  pending and processing payouts. `rejectPayout` takes pending ones only, so a
  processing payout whose creator fails the checks makes it throw, and the throw
  ends every cycle before later payouts.

## 5. Fairness

Only the specifications with a liveness property state any: `LedgerSequence`,
`Payout`, `CoinPurchase` and `ShopOrders`. They assume weak fairness of the steps of
a running handler: Node's event loop resumes every callback whose call returned. For
`Payout` hold times pass, and the cycle is started again and again by an
external scheduler, as its comments say; it is the only request assumed to be made.
`CoinPurchase` and `ShopOrders` add that a provider delivers an event until it is
acknowledged, as Stripe and PayPal do; no client has to confirm or to buy. Faults,
crashes, expiring keys and marks, admins, clerks and changes of clearance are never
assumed. The properties of `Wallet`, `Idempotency`, `Auction`, `Gifts` and `CallSession`
are safety: that a key left behind by a crash is dropped, for one, is what its
expiry says and no property.

## 6. The proofs

Every theorem is proved for all values of the constants, from the named
assumptions of its module only (sorts, disjoint roles, natural-number bounds).

- **BillingProofs**, of what everything else is recorded with. The ledger:
  `TypeCorrect`; `NumbersAreUnique` (`NoSharedNumber`);
  `ImplementsAppendLog` (`AppendsOnce`). `NoSharedNumber` is not inductive: the
  strengthening says that while the counter has not been lost every stored number
  and every number held is at most the counter, and the maximum a seeder has read
  is at least every row as long as the counter is missing. With it, seeding
  late is harmless, since `create` fails on an existing counter, and an increment
  yields a number nobody has. The refinement needs the unique index only.
  The key (`Idempotency` names its variables and specification apart from the
  ledger's, so that one module can extend both): `KeyTypesCorrect` (`KeyTypeOK`);
  `SameKeySameResult` (`SameOutcome`);
  `NoFalseSuccess` (`SuccessIsReal`);
  `FirstRecordStays` (`RecordIsFinal`, which no run checks). The invariant ties every
  answer to the record: an answer that is an outcome is the record itself, unless it
  is an unrecorded failure, and a completed outcome has taken effect.
- **WalletProofs.** `TypeCorrect`; `NeverOverdrawn` (`NonNegative`), whose
  invariant adds that a save about to be made is covered by what was read;
  `LockKeepsBooks` (`Reconciled`), whose invariant adds that, undisturbed, every
  process inside is the one whose key is set, so at most one is, and that what it
  has read is still the balance (`Serial`). `ImplementsAccount` (`MovesAtOnce`) follows from both: a save writes
  the balance there is, plus or minus the amount, and no await after it changes what
  the request reports.
- **PayoutProofs.** `TypeCorrect`; `PaidFollowsTheCall` (`PaidIsSent`), which is
  that a payout is marked paid only after its provider call took effect, and says no more of
  the money than that call does (section 3); `MoneyGoesOneWay` (`UnracedOneWayOut`). The invariant `IInv` says what each
  handler relies on between its awaits (`Settled`, `Recorded`, `Reads`) and, as
  long as nothing has raced, that each payout is `Orderly`: who works on it, its
  status and its money agree, and one handler at most is about to pay or refund
  it, for the first time. All jobs that begin, continue or end share one lemma (`FreshStep`), because
  a fresh job relies on nothing; saves share `Untouched`. TLC has checked `IInv`
  as an invariant of the `payout_overlap` instance. `CycleNeverPaysHeld`
  (`CycleKeepsOff`) needs only that the cycle's list holds what it may take.
- **AuctionProofs.** `TypeCorrect`; `BidsAlwaysRise` (`BidsRise`),
  `CreatorIsPaidStandingBid` (`CreatorGetsStandingBid`) and `EndIsFinal`
  (`EndedIsFinal`); `WalletsStayPositive` (`NeverOverdrawn`); `HoldsMatchBids`
  (`HeldMatchesBids`). The invariant is built in layers. `Typed` adds to the types
  that what a request is about to do fits what it was asked for. `Exclusive`
  says what the auction key gives its holder: the standing bid is the one it has
  read, and nothing has been paid while it raises a bid. `Final` says that a
  status never becomes live again, which is why unlocked closes and enforcements,
  whatever they overwrite, cannot let a bid in after an end. `Covered` is the same for
  the wallet key: while the bidder's key is held the balance read stays enough,
  also when the *auction* key has lapsed, as long as no second attempt without the key
  has moved that wallet (`bypassed`). `Books` states every bidder's money at each
  await between the first and the last write of a bid. `PenaltiesAreForLapses`
  (`PenaltiesForLapses`) needs that a deadline that has passed stands until an
  enforcer moves it on, since no request can have read the auction before it
  (`FreshReads`); then a bidder's penalties, the enforcers about to penalise and
  those that may still find the lapse are together at most the enforcers times the
  lapses (`Credit`), and every step trades one for another. It assumes that the
  enforcers are finitely many.
- **CoinPurchaseProofs.** `TypeCorrect`; `CompletionIsReal`
  (`CompletedIsCredited`, which no run checks: who is told that a purchase is complete
  can find it on the ledger); `DirectEventsApplyOnce` (`DirectlyOnce`); `CreditedOnce`
  (`CreditedAtMostOnce`); `RecordedFailureIsReal` (`FailureIsReal`);
  `ImplementsIdempotency` (`CallsOnce`). `Backed` (what is said to be complete is
  on the ledger) needs no lock. `Exclusive` says that the holder of the money lock
  still finds the record and the ledger as it read them; `Single` and `Real`
  follow from it. The refinement maps every step to a step of `Idempotency` or a
  stutter; it needs no lock either, and is complete, because `Idempotency` states
  no fairness.
- **GiftsProofs.** `TypeCorrect`; `GiftsMoveWhole` (`AllOrNothing`), for finitely many
  gifts. The invariant (`Accounts`) gives three sets of gifts, those whose movement
  the sender, the receiver and the platform have made, and says that every balance
  is what its set makes it; a step moves one gift into or out of one set. It also
  says that at most one reversal works on a gift and that none has stopped half way
  (`Orderly`), which is what the exceptions named by the property exclude.
  `CreatorWalletKeepsUp` (`CreatorWalletFollows`): the wallet is what the updates that
  have run make it, a gift's and then its reversal's, with one under way at most and
  what that one has read still true (`Follows`).
- **CallSessionProofs.** `TypeCorrect`, which needs that a sync's next event is the
  least of a non-empty set of numbers; `CreatorIsPaid` (`CreatorGetsIt`), from `Even`: what a
  call has taken and not passed on is what it is about to credit, a fact about
  the loaded copy and therefore independent of what others do to the session;
  `ChargedOnce` (`ChargedWhatItCost`), from `Once`: at most one end is about to be saved,
  of a session that has not ended and costs nothing yet (`Ending`), at most one call is
  charging, with a copy whose amount is the session's (`OneCharge`), and what has been
  paid is the bill of that call, or of an earlier one if the session is charged (`Billed`).
  `QueueKeepsOrder` (`OfflineOrderKept`), from `InOrder`: ends that a sync has left behind or
  that are processed have ended the session or failed, and an approval with such an
  end before it holds a copy of what the session costs and settles it; whoever has
  taken the same events too, and whichever of them fail.
- **ShopOrdersProofs.** `TypeCorrect`: that no counter exceeds the deliveries is not
  inductive, one has to count those that are past each await (`Numbers`).
  `LimitsAreKept` (`LimitsHold`), for finitely many sessions. As long as no two
  deliveries of one session overlap there is one writer per session (`OneOrder`);
  while no checkout or line crowds another, what is promised fits the inventory, and the
  inventory and the units taken are the supply (`UnitsCovered`); while no coupon is
  stacked, redemptions and the checkouts that hope for one are within the limit
  (`UsesCovered`). Only a checkout adds to the sessions that wait for units or hope for a
  redemption, and a failure takes one out of them, into `Untaken` or `Uncounted` if its
  order is made. Sums over sessions are stated as cardinalities (`Total`): a step
  adds or takes the pairs of one session, and the library's theorems on finite sets do
  the rest.

Every invariant and every action property of the passing runs is proved, but
`WinnerOwesOwnBid`, which is model-checked.
Model-checked only is also liveness (`EveryCallEnds`, `CycleServesAll`,
`PaymentIsSettled`, `PaidIsFulfilled`): TLAPS does not
reason about fairness here. What the three violated runs show is a counterexample,
which needs no proof. That the step of a composed model which stands for a call has
every outcome of that call's own model (section 2) is an argument of this text, but
for `CoinPurchase`, whose refinement of `Idempotency` is a theorem.

## 7. Not modelled, and why

The SQL mode of the economy (off by default; its transactions are the
database's), running without Redis (locks are then skipped), the providers
(external), ranking, ads and assistant code (floating-point scores, no protocol),
clients and infrastructure: most of the repository's lines are pages, routes that
read and write one document, and dashboards, in which nothing runs against anything
else. A shop order that fails half way and a payout stuck in manual review are in
the models; that nothing repairs them is how the code is.

Within the modules: amounts in `Payout` and `CoinPurchase`, audit rows except as
calls that can fail, notifications, and the several reads that make up one KYC check;
`recordPayout` and `syncFromWallet` of the creator wallet; gifts to creators that are
not approved, which are kept as pending earnings; carts over several products,
fulfilment and disputes; the queued orchestrator of `api/src/payments` and
`stripeService`, a second path of a purchase; the retry worker, which can change
nothing (no code sets the status it looks for). In the offline queue two events with
one `createdAt`, and an event that is inserted earlier and becomes visible later, are left
out: their order is the database's.

Some hazards of the list are in the models and yet no property catches them,
because the code does not prevent them; a property that named the absence of the
fault would be false, and the ones that hold name the case as an exception, or count it:

- a failed call inside a wallet movement and the second attempt that follows
  (`coins.js:154`), and a bid over a wallet that such an attempt moves (`coins.js:220`);
- a key left by a crash, which only its expiry frees (`withRedisLock.js:71`);
- overlapping or lost updates of the creator wallet, a failed refund, a second or half
  reversal of a gift;
- a bidder who pays twice for raising the own bid, ends and closes that come twice or
  late, an auction reassigned to the same bidder for ever, two penalties for one lapse;
- a payment report that finds the user's lock taken by something else
  (`payments.js:2347`), and a failure recorded when the ledger could not be read;
- crowded checkouts, two deliveries creating one order twice, an order left half way;
- two charges or two ends of one paid call at once, a charge that stops half way, a call that
  is approved while it lasts, a failed event of the queue.

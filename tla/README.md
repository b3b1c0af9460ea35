# Vitszee order platform: TLA+ specifications

Vitszee is a quick-commerce marketplace: customers order from nearby sellers, delivery
partners (or a courier) bring the goods, and the platform takes the money and settles it.
This directory specifies the protocols of its back end (`src/backend/app`): what happens to
an order, its stock and its money when many handlers, webhooks, timers and pollers act on the
same MongoDB documents at the same time, and when any of them dies half way.

All modules are plain TLA+ for TLC and TLAPS. `tlc -config MCx_y.cfg MCx` runs a
configuration, `tlapm X_proofs.tla` checks the proofs.

## 1. The system

The back end is one Express program that is started in three roles (`core/processRole.js`):
API, worker and scheduler. All of them share MongoDB; Redis holds the job queues, the job
locks and the idempotency keys. There is no in-process state that matters except timers, and
these are only hints: their handlers read the order again. So the unit of atomicity is one
database call (a `findOneAndUpdate`, a `save`) or one MongoDB transaction, and the
interesting behaviours are the interleavings of these calls.

| Component | State | Operations | Hard part |
|---|---|---|---|
| Order workflow (`orderWorkflowService.js`, `orderStateMachine.js`, `orderAutoCancelJob.js`, `orderController.js`, `orderFinanceController.js`) | `workflowStatus`, `sellerResponseStatus`, deadlines, `paymentMode`, `paymentStatus`, `deliveryBoy`, `deliverySearchMeta` of an order | place, seller accept/reject/timeout, customer cancel, choose payment, capture moves the order, partner accept/skip, search timeout, pickup, deliver, administrator edit | a dozen handlers race on one document; some writes test the status, some do not |
| Stock and compensation (`stockService.js`, `orderCompensation.js`) | `stockReservation`, product stock | reserve, release, compensate | read, release, save are three steps |
| Online payment (`paymentService.js`, `paymentWebhookEvents.js`) | `Payment`, `PaymentWebhookEvent`, `reconciliationKeys` | create link, webhook, client verify, capture effects, link expiry | redelivery, two signals of one capture, two payments, lock takeover, a group half done |
| Refunds (`paymentRefundService.js`) | `refunds[]`, totals of a payment | refund event, full-refund effects | out-of-order events, totals derived by read-then-write |
| Finance (`finance/*.js`, `payoutBatchJob.js`, `returnWindowReleaseJob.js`) | wallets, ledger, payouts, `financeFlags` | credit, reverse, hold, release, pay out | idempotence by flags, the hold's release against the delivery |
| COD QR (`codQrPaymentService.js`) | `CodQrPayment`, `codHandoff` of the order | open a QR, cash received, QR paid, finalise, expire | cash and QR settle one order, a second payment |
| Cash settlement (`cashSettlement/*.js`) | rider's cash, `CashDeposit`, shifts | collect, submit, approve, reject | approval across a transaction, two submissions |
| Courier (`delhivery/*.js`, `delhiveryLocal/*.js`) | `Shipment`, `WebhookEventLog` | dispatch, scan, reconcile | late and repeated scans |
| Delivery OTP (`deliveryOtpService.js`) | `OrderOtp` | generate, validate | attempt counter, consumption |
| Returns (`order/orderReturnService.js`) | return status of an order | request, pickup, check, refund | timeouts, refund once |
| Jobs (`distributedScheduler.js`, `queues/*`, `idempotencyService.js`) | Redis locks | acquire, release, expire | a lock outlived by its holder |
| Notifications, sockets, search, cache, media, accounts, front end | - | - | no protocol that money or stock depends on |

How they meet: placement creates the order and reserves the stock; an ONLINE order also gets
a payment. A captured payment credits the order in the ledger and moves it to its seller (or,
when the method was chosen after acceptance, into the delivery search). Every cancellation
ends in the compensation, which returns the stock and reverses the finance entries. A
delivery settles the order and, for cash, charges the partner's cash position.

What makes each correct:

- workflow: status changes follow the declared table; a seller decides once; the first
  partner keeps the order; every wait ends (seller's deadline, search attempts, unpaid
  reservation);
- stock: returned exactly once for a cancelled order, never for a live one;
- payment: booked once per order whatever the gateway repeats; a captured payment stays
  captured, is settled, and money that cannot be used is flagged for a person;
- refunds: totals agree with the stored refunds, the payment is REFUNDED once with its effects;
- COD: one of cash and QR settles the order and the other one is flagged;
- cash settlement: a rupee of a rider's cash is deposited once;
- courier: a cancelled order's parcel has stopped, and the money follows the parcel's end once.

## 2. Modules

| Module | What it is |
|---|---|
| `OrderWorkflow` | one order and all handlers that write it, with the stock release |
| `OrderPromise` | the abstract order: phases, the partner, the goods on the shelf |
| `MCOrderWorkflow` + three `.cfg` | instances for TLC |
| `OrderWorkflow_proofs` | inductive invariants, safety theorems, refinement of `OrderPromise` |
| `PaymentCapture` | the payment of one checkout group, its webhooks and its ledger entries |
| `CapturePromise` | the abstract payment: one payment, each order's money in once and out once, none left waiting |
| `MCPaymentCapture` + three `.cfg` | instances for TLC |
| `PaymentCapture_proofs` | inductive invariant, safety theorems, refinement of `CapturePromise` |
| `RefundTracking` | the refunds of one payment and their webhooks |
| `RefundPromise` | the abstract book-keeping of refunds: forward, recorded when back, refunded when they add up |
| `MCRefundTracking` + two `.cfg` | instances for TLC |
| `RefundTracking_proofs` | inductive invariant, safety theorems, refinement of `RefundPromise` |
| `CodHandoff` | a cash-on-delivery order at the door: QR, cash, and what settles it |
| `HandoffPromise` | the abstract door: one choice, money, hand-over and record in their order |
| `MCCodHandoff` + one `.cfg` | its instance for TLC |
| `CodHandoff_proofs` | inductive invariant, safety theorems, refinement of `HandoffPromise` |
| `CashDeposit` | the cash a rider collected, and the ways he hands it in |
| `DepositPromise` | the abstract settlement: collected cash, remittances, deposits that are decided once |
| `MCCashDeposit` + one `.cfg` | its instance for TLC |
| `CashDeposit_proofs` | inductive invariant, safety theorems, sums, refinement of `DepositPromise` |
| `ReturnSettlement` | a delivered order: the seller's payout with its hold, and the return with its refund |
| `ReturnPromise` | the abstract settlement and return: what moves between payout, seller and customer |
| `MCReturnSettlement` + one `.cfg` | its instance for TLC |
| `ReturnSettlement_proofs` | inductive invariant, safety theorems, refinement of `ReturnPromise` |
| `CourierSync` | an order in the courier's lane: shipments, parcels, scans, polling, cancellation |
| `MCCourierSync` + one `.cfg` | its instance for TLC |
| `CourierSync_proofs` | inductive invariant and safety theorems |

A definition whose name has a suffix such as `Unguarded`, `Unflagged` or `Anyway` and a
comment "Faulty variant" is a deliberately wrong form of the action it stands before. It is
no part of `Next`; it is there to see that a property fails when the code is broken that way.

### OrderWorkflow

`call[c]` is a handler activation in slot `c`: `pc` names the database call it makes next and
`read` what it remembers from its earlier reads. A handler that checks and writes in one
guarded `findOneAndUpdate` is one action (`SellerReject`, `CustomerCancel`,
`DeliveryAccept`, the partner's moves); a handler that reads, decides and writes later is
split at its awaits (`AcceptRead`/`AcceptCAS`, `SelectPaymentMethod`/`CodSave`/`Proceed`,
`CompRead`/`CompRelease`/`CompSave`, `DeliveryTimeout`/`SearchRetry`/`SearchGiveUp`,
`AdminCancel`/`AdminRestock`/`AdminSave`). `read` matters: `AcceptCAS` decides on the payment
fields it read, `CodSave` overwrites the ones written meanwhile.

Abstractions. Timers, delayed jobs and the poller only start a handler, so they are not
state: a timeout handler may start at any moment after its deadline, any number of times and
from two processes. `Poller` is the one slot kept free for the scheduler. The address and
the courier rules come down to `city` (both ends in the city of the quick lane), which with
the payment mode decides between the internal search and the courier. The courier's own lane
(dispatch, scans) is only `provider = "delhivery"` here and nothing in this module ends such a
search; `CourierSync` has what follows.
`CaptureStart` to `CaptureSave` are the capture seen from one order; its lock, retries and
groups are in `PaymentCapture`. Geofences, OTPs and returns are left out.

Constants: `Riders`, `Calls`, `MaxAttempts` (the search's limit), `Placements` (payment modes
offered at checkout) and the bounds `MaxAdmin` and `MaxCrash`.

### PaymentCapture

One `Payment` document of a checkout group. `call[w]` is a webhook delivery or a client's
status check: claim the event, `HandleCaptured` (the claim of the capture, or the recognition
of a repeated or second payment), `Split` (live and cancelled orders, the flag), `Lock`, then
for each order `Finance` and `ToSeller`, `Settle`, `Complete`. `Abort` is a failing database
call under the lock, `Crash` a dying process. `order` is each order's status as far as the
seller's desk; `ReservationTimeout`, `CancelAtSeller` and the compensation (`Undo`,
`UndoLost`) race with the capture. `money` and `link` are the gateway.

Abstractions. The age of the lock is not state: another worker may take a held lock when its
holder is gone or, with `Slow`, at any time. A read whose conditions the next update checks
again is part of that update. The orders of the group are taken in any order. The status of
the checkout group itself is read by no decision and left out, as are amounts (a mismatch is
flagged before anything else happens), failed attempts, refunds and the routing of cash-QR and
deposit events. A second `Payment` document for one order is left for an extension.
`abandoned` is a history variable: the lock's holder ended without finishing in a way nobody
reruns. It names the one exception in `CapturedIsSettled`.

`CapturePromise` is what all this promises, without handlers: a payment is captured once and a
second one only flagged; an order's money is credited once and returned at most once, for a
cancelled order; orders go to the seller with their money and are cancelled as unpaid without;
the payment is settled when each order is either past CREATED with its money or cancelled and
flagged. The mapping takes `payId` for the payment once `pstatus` is CAPTURED and `keys` for the
flags; signals, claims, locks, retries and deaths are stutters. It allows the credit of an order
that was cancelled meanwhile, since the code gives it; what is wrong with that is the run
`payment_late` (section 5).

### RefundTracking

One captured (or soon captured) `Payment` and its `refunds[]`. `call[w]` is the handling of
one refund webhook: claim the event, `Move` (a known refund forward) or else `Insert` (an
unknown one), `Read` (the document again), `Total`, `Exceeds` (the flag, and the decision on
the status it read), `Claim` (the move to REFUNDED), `Effects` (its orders), `Alert` and
`Flag` (a failure, once per refund), `Complete`. Every one is one database call, and the ones
from `Total` on use what `Read` saw, however old it is. `Crash` is a dying process or a failed
call.

Abstractions. An amount is the set of refunds it adds up: `FullSets` are the sets that reach
the amount paid, `OverSets` those that exceed it, both closed under adding refunds, and the
amount paid is positive. A signal carries the status `normalizeRefundStatus` makes of it. The
inbox's lock age is not state: an event is taken over when no live activation works on it.
Refunds of a COD QR payment, events that match no payment and the notice of a partial refund
are left out; `Effects` writes the orders and the checkout group as one step. `early` is a
history variable: a full refund was seen before the capture, after which nothing looks again.
It names the exception in `FullRefundNoticed`.

`RefundPromise` is what all this promises, as one careful book-keeper would do it: `Report` moves a
refund to a status that is ahead of it, `Record` writes a total of refunds that are back, `Refund`
needs refunds that add up, `MoveOrders` comes once and after it, `Tell` needs a failure or an excess.
The variables are the document's; events, activations and what they read are not in it.

### CodHandoff

One order that is out for delivery and not paid. `order` holds what the handlers write on it:
`codHandoff` (awaiting, choice), `paymentMethod` (set with DELIVERED; the value `"CODE"` stands for
an order delivered without one), the credits in the ledger, the cash flag and the row of the cash collection. `doc[i]` is the i-th QR attempt
(`CodQrPayment`), `gateway[i]` its code at Razorpay, `acked` the payments whose webhook was
acknowledged. `call[w]` is a running request or webhook: `op` its handler, `pc` its next call,
`att` its attempt. The delivery code (`StartOtp`) opens the payment step while money is
outstanding (`Outstanding`, `Begin`). Once a QR is credited nothing is outstanding, also before the
order is delivered for it, and a right code then delivers the order itself (`HandOverByCode`,
`CodeRow`): no method is written, the payment step stays open, and the collection is recorded as
ONLINE_PREPAID. The rider asks for a QR (`StartQr`, `Reuse`, `Shut`, `Close`, `Create`, `Gateway`, `Store`, `Discard`),
either app asks for the status (`StartVerify`), the rider confirms cash (`StartCash` to
`CashRow`), the gateway reports a payment (`Webhook`) or a closed code (`ClosedEvent`). All of
them may reconcile an attempt with the gateway (`Fetch`, `Mark`, `Stop`, `Expire`, `Tidy`,
`Settle`) and finalise a paid one (`Lock`, `Look`, `Claim`, `Credit`, `Deliver`, `Row`, `Finalize`,
or `Flag` and `Unlock`, or `Catch`). `Crash` is a dying process, `Fail` a database call that fails
inside the finalisation.

Abstractions. A handler reads the order and the attempts in the step that starts it; every
later update carries the guard of the code. The code is single-use and of a fixed amount
(`razorpayQrGateway.js:17-28`), so a payment is exact and there is one per code; payments that
are authorised only, or of another amount, are left out. The payment link that replaces the QR
where the account has no QR API has the same shape and the same actions. The rider's clock may
say that a code is over before the gateway does, so `Fetch` may stop an active one. A right
delivery code is always possible: it is a new one, or one a request at the same time has read
as well; wrong codes are not counted here. The payment step is switched on (`codQrEnabled`). What an
administrator does to the order at the door is in `OrderWorkflow`. The inbox of webhooks comes down to `acked` and the
handler that runs: a dead handler's event is claimed again after 120 seconds, when the 60
seconds of its finalisation lock are over. The payouts of `settleDeliveredOrder` and the
rider's shift are left out. History variables: `settler` (whose finalisation delivered the
order), `reopened` (a verification of the code erased a choice), `abandoned` (a finalisation
that ended without being finished and that nobody reruns).

`HandoffPromise` is what the door promises, without handlers, attempts or codes: `Choose` a
method, `Credit` a QR's payment and then `HandOver`, or `HandOver` and then `Collect` the cash,
`Record` the collection when both are done. Each comes once. After `Credit` the delivery code may
take the hand-over's place (`HandOverByCode`), and the record is then that of a prepaid order. `Erase` takes a choice back before
the hand-over and ends the promise; nothing takes it back after.

### CashDeposit

One rider. `collected` orders have been paid in cash; `remitted` is their
`codRemittedAmount`, `handed` the part that came without a deposit; `dep` are the `CashDeposit`
documents, `captured` the payments at Razorpay. `Submit`, `Approve` and `Reject` are the
deposits an administrator decides, `Adjust` the adjustment that is approved at once;
`StartPay`, `Create`, `Gateway` open a payment, `StartVerify` and `Webhook` bring it back,
`Settle` records it, `Report` tells of a second one, `Fail`, `StartPay` and `JobSweep` close
attempts. Every approval is `Claim` (or `Approve`), `Allocate`, and `Revert` when it does not
succeed. `StartHand` and `Hand` are the older screens (`submitDeliveryCodCashToAdmin`,
`verifyCodDeposit`, `remitOrderCodCashController`, `reconcileCodCashSubmission`): a plan from
one read, a transaction for each order. `Crash` is a dying process, `Unsure` a transaction that
fails, or that commits and whose answer is lost.

Abstractions. An amount is a small number of rupees. `Fills` states the allocation of an
amount over the pending orders: nobody gets more than is pending, an order gets something only
when the ones before it are filled, and something is left only when all are. The position is
read in the step that creates the deposit of `submitDeposit` (nothing is held back, so a later
creation gives the same outcomes), and check, sweep and look-up of `createRazorpayDeposit` are
one step. The event of a payment that fails is `Fail`, any time and late. `failWebhookEvent` is
part of `Revert` and of a death: the event can be claimed again. Verification of amounts and
signatures, idempotency keys (a repeated request finds the deposit it made), audit,
discrepancy and history rows, shifts, limits and the rider's wallet are left out; an excess is
on the on the deposit. `Collect` is a cash delivery as a whole: the finance transaction and the
`CashCollection` row, which are two writes in the code and in `CodHandoff` (`Cod`, `CashRow`).
`lost` is a history variable: deposits whose approval ended, by a death or in a
rider's verification that had taken over from every webhook, so that nobody reruns it.

`DepositPromise` is what all this promises, without handlers: `Collect`, `Remit`, `Reject`, and
`Approve`, which decides a deposit and moves all of its money in one step. The mapping takes
`codRemittedAmount` for what was paid, the allocation rows for the shares, and every status but
the approved and the rejected ones for an open verdict: a claim, its return, a repeated
settlement and a lost answer are stutters.

### ReturnSettlement

One delivered order. `order` holds the fields that its settlement and its return write;
`payout` is the seller's `Payout` document, `books` the movements in the wallets, `over` says
that the return window has ended. The settlement is `StartSettle`, `Queue`, `Commit`;
`Process` is `processPayout` for an administrator; the release job is `StartJob`, `Release`. A
handler of the return reads the order and checks it in the step that starts it (`Request`,
`Approve`, `Reject`, `Assign`, `Accept`, `Decline`, `Status`, `Qc`, `Arrive`, `Pickup`, `Drop`)
and writes in `Save`; a rider's code is used up in between (`Consume`); `Refund` is the
transaction of `completeReturnAndRefund` and `Credit` the background task of a drop.
`call[w].ret` and `.rider` are what will be saved, or `Same` for a value the handler found
already: Mongoose writes only what was changed, so such a save does not undo what others wrote.

Concurrency control as MongoDB and Mongoose have it. The settlement's transaction fails when the
order was written after it read it (`stale`); a save that replaces a list fails when a list was
replaced or the version raised since (`Outdated`); every other save goes through. The payout is
created outside the settlement's transaction, because `createPendingPayoutForOrder` takes no
session from it. `Refund` asks for `~Settling`: that a settlement which read the order before
another one committed is over before a return has been requested, approved, picked up and
dropped.

Abstractions. An amount is the payout and the part of it that is returned; the pickup charge
debited to the seller is left out, and of the rider's and the customer's credits only the number
counts, up to two. `sellerPayoutHeld` and the HOLD status are written together and are one
value. The updates of the status are made for an order that has a return, and a rider accepts
after an offer. Generating a code is one step, as are the three writes of the background credit.
The search for riders near the pickup, a skipped offer, wrong codes, the ADMIN payout (nothing
creates one), the refund of the legacy switch and the rider's own payout are left out. `reheld`
is a history variable: a settlement that was run again held a payout that was processed before.
It names the exception in `SellerBooks`; section 5 says what happens then.

`ReturnPromise` is what all this promises about the money, as one clerk would do it: `Queue`,
`Settle`, `Pay` in its time, `Request`, and a `Refund` that takes from the seller what it gives to
the customer in the same step. The mapping makes three stages of the status of the return (kept,
returning, closed) and leaves riders, codes, holds, commissions and handlers out. What the code
lets happen beside it has its own step or case there: `Reopen`, and the refund of a payout that
was held after it was processed.

### CourierSync

One order that is dispatched by courier. `order` holds its workflow status, its waybill and what
its end did to the money; `doc` are its `Shipment` documents, `parcel` the parcels at the courier,
by waybill. The dispatch is `StartCreate`, `Insert`, `Book` (the request, whose answer may be
lost), `Record`, `Link`, with `Refused` and `RecordFails` for its error handler. A scan is `Scan`
and `Save`; the poll of the job (`Reconcile`) or of an administrator (`SyncTracking`) is `Fetch`
and `Save`, or `Unknown` when the courier has no such waybill; each saves the shipment over what
was written since it was read. Both go on to `Sync`, the guarded update of the order, and from it
to `Settle` or `Compensate`. An administrator cancels the order (`StartCancel`, `Ask`, `Mark`,
`Restock`, `Cancel`) or the shipment alone (`StartStop`, `Ask`, `Mark`). `Carry` moves a parcel,
`Crash` is a dying process or a failed call.

Abstractions. A scan is any status the parcel has had, at any time and any number of times: the
log of events (`WebhookEventLog`) drops an exact resend only, and nothing when its insert fails, so
it is not state; a scan that is lost is a `Scan` that does not happen. Of the statuses on the way
the module has the ones the courier's texts lead to, with PICKED_UP folded into IN_TRANSIT (both
put the order on PICKUP_READY). At the courier a parcel goes forward and its end is final. The
serviceability check and a pickup location that fails come before anything is stored; they, the
pickup request, the timeline and the Local lane are left out. When the instance has no waybill
left the courier refuses. The reservation behind `released` and the settlement behind `settled` are
in the other modules. `astray` is a history variable: a fault, or a write that ends a live
shipment without telling the order, has cut the order off from a parcel. It is one of the three
exceptions that `CancelStopsParcel` names; the others are `Unlinked` and `~Single`.

## 3. What the runs check

| Run | Instance | States | Shows |
|---|---|---|---|
| `workflow_checkout` | 2 partners, 2 handler slots + the poller, 2 attempts, COD/ONLINE at checkout, 1 crash, fairness | 71,570 | the types, the refinement of the promise (phases forward, first partner keeps the order, goods back once and only when cancelled), and four liveness properties |
| `workflow_edits` | the same with every payment mode and 1 administrator edit | 2.6 million | steps outside the table come only from the two unguarded writes |
| `workflow_cash` | method chosen after acceptance | - | counterexample, see 5 |
| `payment_group` | 2 orders, 1 payment, webhooks + client check, expiry, 2 slow workers, 1 crash | 1,150,033 | settled means no order waiting or unaccounted for, the refinement of the capture's promise (one credit per order, a paid order is not cancelled as unpaid) |
| `payment_delivery` | 1 order, 2 payments of a link, client check, expiry, 1 crash and 1 failed call, fairness | 448,647 | the second payment is flagged, a capture is settled |
| `payment_late` | 1 order, cancelled during the capture | - | counterexample, see 5 |
| `refund_events` | 2 refunds that exceed the payment together, 3 webhooks (one refund fails, then succeeds), 2 workers, 1 crash, fairness | 104,262 | the refinement of the refunds' promise (REFUNDED means paid back, its orders follow once, no false alarm), an excess and a failure are flagged, a full refund is noticed |
| `refund_lost` | 1 refund, its creation and completion, 2 workers | - | counterexample, see 5 |
| `cod_door` | 2 attempts, one slot for the apps and one for webhooks and a second or late verification of the code, 1 death or failed call, fairness | 834,525 | ledger, float, method of delivery and collection row follow the one choice, the refinement of the door's promise (each step once and in its order), one attempt settles, a payment stands and is answered, a choice of cash is completed |
| `deposit_settle` | 2 orders of 1 and 2 rupees, 2 deposits, 2 payments, one reference, one slot for the rider's app and one for administrators and webhooks, 1 death or failed transaction, fairness | 309,027 | the refinement of the settlement's promise, the books balance, one transfer settles one deposit, a decision stands, a payment settles its deposit |
| `return_refund` | one slot for settlement, release job, arrival and drop, one for every other handler of the return, 1 death, fairness | 997,698 | types, the seller's books, the refinement of the return's promise (one payout in its time, one refund, settled with the seller), a hold ends, a passed return is refunded |
| `courier_parcel` | 2 shipment documents, 1 parcel, one slot for administrators and one for scans and the job, both dispatching, 1 death, lost answer, failed save or unknown waybill, fairness | 703,186 | a cancelled order's parcel has stopped, the money follows the parcel's end, and by polling alone the order gets there |

Why the bounds are enough. A race in this code is between handlers on one document, and each
handler keeps at most one stale read, so two request slots and the poller give every pair of
handlers every interleaving, with a third one for the timeouts. Two partners are needed for
one to be second; two attempts for a retry and a give-up. Two orders make a group that can be
half done; two workers a takeover; two payments a second one; one crash or failed call is
enough to leave each intermediate state behind, and the rerun is not failed again.
At the door two attempts make a replaced code that is paid late beside the one that replaced
it, and the races are between the apps' request, the gateway's webhook and a right delivery code.
For deposits, two orders of different amounts make an allocation that fills one and part of the other and a
deposit that exceeds what is pending; two deposits can cover the same cash or the same
reference; the verified amounts 1, 2 and 3 are below, at and above the claimed one.
For returns the two slots put the settlement, the job and a drop beside every other handler, with
the administrators' processing and the timers beside both; a share below the payout tells a part
from the whole, and one death leaves each intermediate state behind. Shares equal to the payout,
the setting without the automatic release and any two handlers at once are covered,
for safety, by the proofs.
For the courier one parcel and two documents make a second dispatch, a refused one and one that is
booked again; every scan, poll and cancellation can overlap another. Two parcels for one order
(a second dispatch that the courier accepts) make more states than a run can visit here; safety
covers them by the proofs, where the number of parcels is free.
The state spaces are finite without further constraints. Deadlock is not checked, because an
order that is delivered or cancelled and has no handler left is meant to stop.

Fairness. A running handler makes its next call (the process is scheduled), clocks advance,
and the poller runs in its own slot every few seconds: weak fairness. The gateway repeats the
signal of a payment until it is acknowledged and therefore finds a free worker at some time:
strong fairness on the delivery. The release job runs every minute, so it finds an order that is
to be released again and again until it finds a free slot: strong fairness of `StartJob`. The
courier's job runs every minute and polls the live shipments that were not synchronised for 15
minutes, 50 at a time; a polled one is out of the next batches, so each has its turn: strong
fairness of each shipment's `Reconcile`. No scan has to arrive.
Nobody is obliged to accept, pay, pick up, deliver, or to ask for a payment's status. One person is assumed to insist: a rider who has taken the cash, whose
confirmation did not come through, confirms it again until the order is delivered (his screen
offers nothing else), strong fairness of `StartCash` with the choice of cash made.

## 4. What is proved

The theorems hold for every number of partners, handlers, orders, payments, signals, workers,
crashes and failed calls.

`OrderWorkflow_proofs`. `TypeCorrect`, `OnlyUnguardedWrites` and `SellerDecisionStands` hold
in every payment mode. The others are proved under `MethodAtCheckout`: the payment
method is COD or ONLINE at checkout and no administrator edits the order;
without it they are false (section 5, `OnlyUnguardedWritesLeaveTable`). The inductive
invariant is `OrderInv`:

- `TypeInv`: types, and a retry is only started below the attempt limit (`RetryBelowMax`),
  without which the counter's type would not be preserved;
- `NoPaymentWait`: no order waits for a payment method, so the writes that do not look at
  the status are never entered;
- `OneCompensation`: every update that starts a compensation changes a status that is not yet
  CANCELLED, so there is one compensating handler at most, it knows an unreleased stock, and
  it releases it once. The mere counter bound is not inductive: it needs who compensates;
- `RiderMatchesStatus`.

From it follow `PartnerMatchesStatus`, `StockReturnsOnce`, `LiveOrderKeepsStock`,
`TableFollowed`, `FirstRiderKept`, and `WorkflowKeepsPromise`: the initial states map to
initial states of `OrderPromise`, every step to one of its steps or a stutter. The mapping
counts releases: two of them would be a shelf that the promise does not know. `CompRelease`
maps to `Return` and the transactional `LinkCloses` to a `Cancel` that returns the goods.
`StockReleasedAtMostOnce`, `LiveOrderHoldsStock`, `FollowsTableOrUnpaid` and `FirstRiderKeepsOrder` are parts of that
promise, or finer than it by a status, and are in no run of their own. The same holds below of
`LedgerOnce` and `CaptureStands` (`CapturePromise`), `RefundedIsPaidBack`, `EffectsAtMostOnce`,
`RefundMovesForward` and `TotalIsPaidBack` (`RefundPromise`), `RefundOnce` and `HoldHonoured`
(`ReturnPromise`): the theorems state them by name, the runs check the promise.

`PaymentCapture_proofs`. The inductive invariant is `CaptureInv`: `TypeInv` (a captured
payment has an id), `LedgerFollowsFlags` (credits and debits are what the flags of the
order say), `CreditedBeforeSeller`, `UndoneWhenCancelled` (only a cancelled order is reversed),
`CaptureProgress` (an order that a worker has passed is credited and past CREATED, one that is
not in its list was cancelled and flagged) and `ClaimedOrFlagged` (a captured signal beyond its
handler is the payment's own or is flagged). That an order never goes back to CREATED is what
keeps the progress of one worker true through the steps of the others. From it follow
`CaptureTypeCorrect`, `LedgerWrittenOnce`, `SellerSeesOnlyPaid`, `SettledIsAccounted`,
`SecondPaymentIsFlagged` and `CaptureNeverUndone`.

`CaptureKeepsPromise` is the refinement of `CapturePromise`, with a lemma for each kind of step:
claiming the payment, concluding, crediting, moving to the seller, cancelling, returning. The
closing link cancels as unpaid only because it reads `captured` in the step that cancels;
`CreditedBeforeSeller` and `UndoneWhenCancelled` turn the flags of the order that the code checks
into what the ledger holds.

`RefundTracking_proofs`. The inductive invariant is `RefundInv`: `TypeInv` (types, and one
worker per event that is being processed), `SeenIsPaidBack` (what an activation remembers as
processed is processed: a processed refund stays so, by `RefundsOnlyGrow`, so age does not
matter), `ClaimsArePaidBack`, `OneRefunder` (the effects belong to the activation whose update
moved the payment) and `ExcessIsNoticed`: an excess that is not flagged has an event that is
not acknowledged and whose activation, running or to come, has read the excess or is yet to
read. `FailureIsStored`: an activation that is to tell of a failure has a refund that did
fail, even if it succeeded since. From it follow `RefundTypeCorrect`, `RefundsMoveForward`,
`TotalNeverAhead`, `RefundedWasPaidBack`, `EffectsOnce`, `OverRefundSeen` and the refinement
`TrackingKeepsPromise`: every guard of the promise is about the payment as it is, while the
handlers decide by what they read, and the invariant is what joins the two. The proofs use `FullAssumption`
(amounts are positive).

`CodHandoff_proofs`. The inductive invariant `HandoffInv` has a part for each thing the
argument relies on: `TypeInv`; `CodeInv` (what is paid has its code on record, and one handler
creates an attempt, so that storing the code cannot overwrite a payment); `BooksInv` (whoever
is about to write to the books has the choice, and a settlement follows the delivery);
`BegunInv` (work at the door begins with the code, and so does its money); `LockInv` (unless holders are overtaken,
one handler finalises an attempt); `SettlerInv` (only who delivered goes on to finalise);
`RefusedInv` and `CleanInv` (a payment is refused because the order is delivered or cash was
chosen, and without deaths the settling attempt is finalised or about to be). From it follow
`TypeCorrect`, `BooksCorrect` and `SettlerCorrect`; `PaymentCorrect` is proved action by action
from `CodeInv`. `HandoffKeepsPromise` is the refinement of `HandoffPromise`, with a lemma for each
of its steps. Both it and `BooksCorrect` need `MoneyInv`, which holds with an erased choice too: a
handler that is about to deliver for a QR or by the code, and an order so delivered, has its money in
the ledger; cash is in the float of a delivered order only; a record of cash has it there. That a
right code finds the order undelivered and its money in (`CodeAccepted`) gives the part about the
code: cash is in the float after the delivery only, so that the money is a QR's.

`CashDeposit_proofs`. A step makes of a deposit one of a few moves (`Becomes`, `Submitted`,
`Approved`, `Offered`); they keep its type and `Sound`, by which a deposit is the
administrators' while it has no payment status and the gateway's from then on. `CallInv` says
that each handler works on a deposit of its kind and that one handler opens a payment;
`RefInv` that a reference is reserved once; `MoneyInv` that no order is remitted more than was
collected, that approved deposits balance and that money goes to the oldest orders, for which
the allocation needs that `Fills` reads what is pending in the step that writes it; `BookInv` that
an order's remittance is the sum over the deposits and what came without one. From them follow
`TypeCorrect`, `BooksCorrect`, `CreditCorrect` and `DecisionCorrect`.

The sums are those of the community modules, a recursive function over the subsets of the domain.
That it is well defined, adds naturals to a natural, and changes by the change of one entry
(`TotalChange`) is proved from the least number principle (`LeastNat`, from the theorem that < is
well-founded on the naturals) instead of an induction theorem with an operator parameter: the
least size of a counterexample is taken. The same principle gives `AllocationDetermined`: `Fills`
is a relation, and for any amount there is exactly one allocation that it holds for, whatever is
pending. So `Commit` is never disabled by the amount, and the model leaves no choice where the
code has none.

`SettlementKeepsPromise` is the refinement of `DepositPromise`. `OneChanges` (a step writes one
deposit, or closes attempts) makes a decision a decision of one deposit alone; approving,
collecting, remitting and rejecting each have their lemma, and every other step leaves the books
and the verdicts. The proofs use `AmountAssumption` (amounts are positive) and `RefsAssumption`.

`ReturnSettlement_proofs`. The inductive invariant `ReturnInv` says of each handler what the
order must look like while it runs (`Current`): a settlement that will commit is the first, a
request that will be saved finds no return, a job runs after the window, and everything else a
return that has begun. `Outdated` is what keeps it: a write that breaks it makes the handler
stale. Hence a held payout is pending, unless `reheld`, and cancelled only after the settlement
(`OrderInv`), and a refund either cancelled the payout or took the share back (`MoneyInv`), which
the bare `SellerBooks` does not say of a payout not yet created. From it follow `TypeCorrect`,
`SellerCorrect`, `RefundCorrect` and `HoldCorrect`, in both settings of the release, and
`ReturnKeepsPromise`, the refinement of `ReturnPromise`. There `HiddenStep` takes the steps of
riders, codes and holds out; a save is a `Request` because `Current` finds no return for it, a
`Reopen` because it read one that was not closed, or hidden; `MoneyInv` gives the refund the one
of its three cases that applies. The proofs
use `EarningAssumption` (a share is part of the payout) and the model's `~Settling`.

`CourierSync_proofs`. The inductive invariant is `CourierInv`. `TypeInv` says what each handler
between two calls may rely on (`Backed`): an end it carries is the end of some parcel, which stays
true however late it is applied, because a parcel keeps its end (`ParcelGrows`). `EndInv`: the
guarded update of the order lets one handler alone go on to the money, and only once. `StopInv`:
while there is one shipment and one parcel and nothing went astray, a shipment that is not live has
a parcel that has ended, and the order's waybill is on that shipment; this is what a cancellation
that does not ask the courier relies on. Both conditions, once false, stay false (`Backwards`),
which makes the implication inductive. From it follow `TypeCorrect`, `EndCorrect` and
`CancelCorrect`. The proofs use `NoneAssumption` and `FaultAssumption`.

Properties that are proved here for every instance, and for which a run is not needed, are the ones
of `PartnerMatchesStatus`, `SellerDecisionStands`, `SellerSeesOnlyPaid` and
`AllocationDetermined`.

Only model-checked: the liveness properties (`SellerPendingEnds`, `InternalSearchEnds`,
`CancelledReleasesStock`, `PaidOrderLeavesCreated`, `CapturedIsSettled`, `FullRefundNoticed`,
`FailedRefundFlagged`,
`PaidIsAnswered`, `CashChoiceCompletes`, `PaidIsSettled`, `HoldReleased`,
`RefundFollows`, `OrderFollowsParcel`); fairness and ENABLED
are beyond the provers used. No module has recursive operators.

## 5. Where the code departs from what it says

These are runs:

- `workflow_cash`: a choice of cash that read the order before its capture saves its stale
  copy afterwards; cash is then collected for an order that was paid online.
- `payment_late`: an order cancelled after `finishCapture` split the group is credited after
  its cancellation was compensated, and nobody is told ("Never silently ignore a successful
  payment").
- `refund_lost`: the webhooks of a new refund's creation and completion, handled at once, both
  fall through to the insert; the completion stores nothing, is acknowledged, and the refund
  stays PENDING ("any redelivery or out-of-order event is harmless").

The others have no run. A property of a passing run names each of them as its exception, so that
it says what does hold; without the exception TLC finds the trace described here.

- `UnguardedWrite` in `OnlyUnguardedWritesLeaveTable`: `proceedToDeliverySearch` filters on the
  order id alone (`orderWorkflowService.js:519`), so a late choice of a payment method takes an
  order that already has a partner back to DELIVERY_SEARCH, which the table of
  `orderStateMachine.js` does not allow.
- `abandoned` in `CapturedIsSettled`: a webhook that finds the capture lock taken is marked
  PROCESSED; when the holder was a client's status check that fails, the payment is never settled
  (an event should be done only "once it has been fully applied", `paymentService.js:1034`).
- `early` in `FullRefundNoticed`, and two departures around it: the total of
  `paymentRefundService.js:124` ("always consistent") may end up too low, when an older sum is
  written last; the theorem `TotalNeverAhead` says it is never too high. And a death after the
  claim of REFUNDED loses `applyFullRefundEffects`, so `MoveOrders` comes once at most.
- `reheld` in `SellerBooks` and in the `Refund` of `ReturnPromise`: a settlement that was aborted and run again holds a payout that was
  processed meanwhile; the refund then takes it for a held one, finds nothing to cancel and debits
  nothing ("a customer who has been credited but a seller who hasn't been debited",
  `orderReturnService.js:448-450`).
- `settled` in the `Pay` of `ReturnPromise`, and in `HoldHonoured`: the payout exists before the hold does
  (`orderFinanceService.js:166`), so the administrators' bulk processing can pay it out inside the
  window ("HOLD until return window expires", `Scripts/PAYMENT_PRICING_AUDIT.md:944-946`).
- `order.ret = None` in `HoldReleased`: the release job looks for `returnStatus` "none" only
  (`returnWindowReleaseJob.js:24`); after a rejected return the payout stays on hold until an
  administrator processes it ("Releases held seller payouts after return window").
- `Reopen` in `ReturnPromise`; and `RefundOnce` is about the refund, not about the status: `updateReturnStatus` ranks three
  statuses and takes every other for the lowest, so a refunded or rejected return can be set back
  ("Return status cannot move backwards.", `orderController.js:1249`). It is not refunded twice.

The same in `CodHandoff` and `CashDeposit`:

- `reopened`, and `Erase` in `HandoffPromise`: `beginCodPaymentHandoff` is said to be idempotent ("a second call while already
  awaiting returns the order as is", `codQrPaymentService.js:210`), but looks at the order its
  caller read; the code is used up without a guard (`orderWorkflowService.js:1826`). A second
  verification that read the order earlier resets the choice of method after cash was chosen
  or a payment claimed, and the other method can then settle the order too.
- `"CODE"` in `BooksMatchChoice`, and `HandOverByCode` in `HandoffPromise`: a right delivery code
  that comes between the credit of a QR and its delivered update delivers the order itself, because
  nothing is outstanding any more (`orderWorkflowService.js:1853`). No method is written ("Detailed
  settlement method, set when delivery completes", `models/order.js:127`), `awaitingPayment` stays
  true, and the finalisation finds the order delivered; the next one flags its payment "Order
  already settled via another method", although it is the only one ("Delivered through another path
  (cash) → customer paid twice", `codQrPaymentService.js:394`). A death or a failed call after the
  credit leaves the same window open for longer. The books stay right: one credit, one hand-over,
  recorded as prepaid, without `settler`.
- `OneSettler` asks for `crashes = 0` and `~Slow`: after a death or a failed call between the
  delivery and `finalizedAt`, or a takeover of the lock, the payment that settled the order is
  flagged "Order already settled" (`codQrPaymentService.js:393`), that is, for a refund,
  although the lock is there so that a webhook and a poll "never finalize the same payment
  twice" (`codQrPayment.js:86`). The claim does not name the attempt, so two attempts that were
  both paid can both pass it; then one is credited in the ledger and the other may be the one
  that delivers, whose own payment the ledger does not have.
- `abandoned` in `PaidIsAnswered`: a webhook that finds the finalisation lock taken is acknowledged; when the
  holder is a request that then fails, nobody finishes the payment unless an app asks again
  while the order still awaits payment (`codQrPaymentService.js:907`).
- A death between the delivered update and the settlement (`deliveryCompletionService.js:81-114`)
  leaves the collected cash off the rider's float: nothing reruns `applyDeliveredSettlement`.
- `lost`: `settleVerifiedPayment` takes DEPOSIT_ALREADY_PROCESSED for "concurrent settle:
  already done" (`razorpayDepositService.js:248`), although the concurrent approval may still
  fail and give its claim back; the webhook is acknowledged, and the paid deposit waits for a
  verification by the rider. A death while APPROVING leaves a deposit APPROVING for good: the
  redelivered webhook is taken as done in the same way, and no administrator's operation
  accepts that status.
- `verifyCodDeposit` drops what a payment exceeds the pending cash by and looks at no payment
  id, so that repeating the request remits again; and a loop of the older screens that a refused
  order ends leaves remitted orders without their history row
  (`deliveryController.js:136-171`).

The rider of a return is paid twice, without any race: the refund of a dropped return pays his
commission, and the background task of the same drop pays it again, because it looks at the order
it read before (`orderWorkflowController.js:614`; "idempotent guard: only credit if not already paid
at OTP time", `orderReturnService.js:682`). `books.rides` of `ReturnSettlement` counts both.

In `ReturnSettlement`: a death between the quality check's save and the refund strands a return
that has passed (`RefundFollows` asks for `crashes = 0`). A refund of a part of a held payout
cancels the whole payout. The drop code is accepted in any status, so that a return whose quality
check failed can still be dropped and refunded. A request clears the window's date, on which the
hold depends, so an administrator may pay out a held payout while the return is open; the refund
then debits the share. `releaseHeldSellerPayout` has no caller.

In `CourierSync`, the exceptions of `CancelStopsParcel` ("must be cancelled at Delhivery first,
otherwise it is still picked up and delivered after the order is cancelled here",
`orderController.js:468`):

- `Unlinked`: an administrator's cancellation that read the order before its waybill was linked
  does not ask the courier (`orderController.js:471`), and the parcel goes its way.
- `~Single`: nothing keeps two dispatches at once from creating two shipments
  (`delhiveryForwardService.js:148`); the cancellation finds one of them, perhaps the other one.
- `astray`: a shipment that is marked FAILED while its parcel lives (a save that fails after the
  booking, a waybill the courier does not know for a moment) is neither polled nor cancelled any
  more, and a death between the shipment's save and the order's update is not repaired either,
  because the job looks for live shipments only (`delhiveryReconciliationService.js:21`). Cancelling
  the shipment alone leaves the order open until the courier's own scan comes.

And without an exception: an administrator's cancellation puts the goods back itself
(`orderController.js:509`), while the "Cancelled" scan that its request causes may still find the
order open and release the reservation as well (`restocked` and `released`). A late scan that was
read before a newer one moves the order back until the next poll, which `OrderFollowsParcel` allows
for. `createForwardOrder` does not look at the order's status: one that was cancelled meanwhile is
dispatched.

## 6. Not modelled, and the plan

Next, in this order:

1. `CaptureAndRefund`: `PaymentCapture` and `RefundTracking` over one payment, for the side
   effects of a late capture against the orders of a full refund; and a second `Payment`
   document for one scope in `PaymentCapture`.
2. `delhiveryLocal`: the courier's quick lane, with the shape of `CourierSync` and riders of its own;
   two parcels of one order in a run.
3. `ExpiringLock`: the Redis lock of `idempotencyService.js` and `distributedScheduler.js`
   (acquire, expire, release by whoever), with the two clients that use it; the OTP counter.
4. Proofs: `OrderWorkflow` with a payment method chosen later, under the assumption that the
   two unguarded writes come in time (what section 5 shows to be missing); then the modules above in order.

The payouts of riders, wallets' balances over many orders and the coupons come after these.

The modules cover a small share of the lines, and that share has a ceiling. More than half of
the program's lines are the React front end, and most of the rest are controllers that create,
read, update or list single documents for a catalogue, accounts, dashboards and support, or format
a response; a model of them would restate their assignments. What can be modelled with profit is
the code that moves orders, stock and money, listed in section 1.

Left out for good: pricing (arithmetic over one request), catalogue, search, cache, media,
notifications, sockets, accounts, dashboards and the front end, which hold no protocol that
orders, stock or money depend on; process start and stop, except as crashes.

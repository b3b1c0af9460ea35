--------------------------- MODULE PaymentCapture ---------------------------
(***************************************************************************)
(* The online payment of one checkout group: how the gateway's signals are *)
(* claimed, applied to the group's orders once, and settled                *)
(* (backend/app/services/paymentService.js, paymentWebhookEvents.js), and  *)
(* the cancellations that race with them.                                  *)
(*                                                                         *)
(* A payment is signalled several times (payment.captured, order.paid,     *)
(* payment_link.paid, the client's status check), each webhook is          *)
(* delivered again until it is acknowledged, and any worker may die or be  *)
(* slow.  `call[w]' is an activation: pc is its next database call, todo   *)
(* and now are the orders it read and the one it is at.  Reads that only   *)
(* repeat what a following conditional update checks again are part of     *)
(* that update.  The age of a lock is not state: whoever wants a held lock *)
(* may find it too old, because its holder died or, if Slow, is slow.      *)
(***************************************************************************)
EXTENDS Naturals

CONSTANTS
  Orders,       \* the orders of the checkout group
  PayIds,       \* gateway payment ids (pay_...)
  NoId,         \* no gateway payment id
  Signals,      \* webhook events
  Polls,        \* answers to the client's status check: signals without event
  Workers,      \* slots for concurrent activations
  Slow,         \* may a worker outlive the lock it holds?
  MaxCrash,     \* bound: activations and compensations that die
  MaxAbort      \* bound: aborted transactions

ASSUME IdAssumption == NoId \notin PayIds
ASSUME SignalAssumption ==
  /\ Signals \cup Polls \subseteq
       [kind : {"captured", "closed"}, id : PayIds \cup {NoId}, name : STRING]
  /\ \A s \in Signals \cup Polls : s.kind = "captured" <=> s.id \in PayIds
  /\ Signals \cap Polls = {}
ASSUME CaptureBounds == MaxCrash \in Nat /\ MaxAbort \in Nat /\ Slow \in BOOLEAN

VARIABLES
  pstatus,    \* Payment.status
  payId,      \* Payment.gatewayPaymentId
  settled,    \* Payment.captureProcessedAt is set
  locked,     \* Payment.captureLockedAt is set
  keys,       \* Payment.reconciliationKeys
  order,      \* workflowStatus of each order, up to the seller's desk
  captured,   \* financeFlags.onlinePaymentCaptured
  reversed,   \* financeFlags.cancellationReversalApplied
  credits,    \* admin ledger credits of each order
  debits,     \* admin ledger refunds of each order
  undo,       \* the compensation of each cancelled order
  event,      \* PaymentWebhookEvent.status
  call,       \* the activations
  money,      \* external: the payments the gateway captured
  link,       \* external: the payment link, open or closed
  abandoned,  \* history: the capture lock's holder ended and nothing reruns it
  crashes, aborts

payVars   == <<pstatus, payId, settled, locked, keys>>
moneyVars == <<captured, reversed, credits, debits, undo>>
gateVars  == <<money, link>>
faultVars == <<abandoned, crashes, aborts>>
vars == <<payVars, order, moneyVars, event, call, gateVars, faultVars>>

UnderLock == {"finance", "seller", "settle"}
Pcs == {"idle", "handle", "split", "lock", "cancelOrders", "complete"} \cup UnderLock

NoSignal == [kind |-> "none", id |-> NoId, name |-> "none"]
Idle == [pc |-> "idle", sig |-> NoSignal, todo |-> {}, now |-> {}]

At(w, pc)   == call[w].pc = pc
Goto(w, pc) == call' = [call EXCEPT ![w].pc = pc]
Resume(w, pc, todo, now) ==
  call' = [call EXCEPT ![w] = [pc |-> pc, sig |-> call[w].sig,
                               todo |-> todo, now |-> now]]
Finish(w)   == call' = [call EXCEPT ![w] = Idle]

Init ==
  /\ pstatus = "PENDING" /\ payId = NoId /\ settled = FALSE
  /\ locked = FALSE /\ keys = {}
  /\ order = [o \in Orders |-> "CREATED"]
  /\ captured = [o \in Orders |-> FALSE] /\ reversed = [o \in Orders |-> FALSE]
  /\ credits = [o \in Orders |-> 0] /\ debits = [o \in Orders |-> 0]
  /\ undo = [o \in Orders |-> "none"]
  /\ event = [s \in Signals |-> "new"]
  /\ call = [w \in Workers |-> Idle]
  /\ money = {} /\ link = "open"
  /\ abandoned = FALSE /\ crashes = 0 /\ aborts = 0

-----------------------------------------------------------------------------
(* External: the customer and the gateway. *)

\* The link is paid, or an attempt authorised before it closed is captured late;
\* a second payment of the same link is possible.
CustomerPays(id) ==
  /\ id \notin money /\ money' = money \cup {id}
  /\ UNCHANGED <<payVars, order, moneyVars, event, call, link, faultVars>>

LinkCloses ==
  /\ link = "open" /\ money = {} /\ link' = "closed"
  /\ UNCHANGED <<payVars, order, moneyVars, event, call, money, faultVars>>

-----------------------------------------------------------------------------
(* A signal arrives. *)

Happened(s) == IF s.kind = "captured" THEN s.id \in money ELSE link = "closed"

Start(w, s) == call' = [call EXCEPT ![w] = [Idle EXCEPT !.pc = "handle", !.sig = s]]

\* claimWebhookEvent: an event is claimed when it is new, when it failed and
\* when its worker holds it for too long.  A finished one is acknowledged, and
\* one in progress refused, without a change.
Deliver(w, s) ==
  /\ At(w, "idle") /\ Happened(s)
  /\ \/ event[s] \in {"new", "FAILED"}
     \/ event[s] = "PROCESSING" /\ (Slow \/ \A v \in Workers : call[v].sig # s)
  /\ event' = [event EXCEPT ![s] = "PROCESSING"]
  /\ Start(w, s)
  /\ UNCHANGED <<payVars, order, moneyVars, gateVars, faultVars>>

\* verifyPaymentStatus: the client asks, the gateway answers.
Verify(w, s) ==
  /\ At(w, "idle") /\ Happened(s)
  /\ Start(w, s)
  /\ UNCHANGED <<payVars, order, moneyVars, event, gateVars, faultVars>>

-----------------------------------------------------------------------------
(* The payment was captured: handleCaptured and finishCapture. *)

\* Faulty variant: the claim does not store the payment's id.
HandleCapturedNoId(w) ==
  /\ At(w, "handle") /\ call[w].sig.kind = "captured"
  /\ pstatus' = "CAPTURED"
  /\ Goto(w, IF settled THEN "complete" ELSE "split")
  /\ UNCHANGED <<payId, settled, locked, keys, order, moneyVars, event, gateVars,
                 faultVars>>

\* Faulty variant: a second payment passes for another signal of the first.
HandleCapturedUnflagged(w) ==
  /\ At(w, "handle") /\ call[w].sig.kind = "captured"
  /\ pstatus' = "CAPTURED"
  /\ payId' = IF pstatus = "CAPTURED" THEN payId ELSE call[w].sig.id
  /\ Goto(w, IF settled THEN "complete" ELSE "split")
  /\ UNCHANGED <<settled, locked, keys, order, moneyVars, event, gateVars, faultVars>>

\* The first signal claims the payment; a later one of the same payment goes on
\* unless all is settled; another payment is flagged.
HandleCaptured(w) ==
  LET id == call[w].sig.id IN
  /\ At(w, "handle") /\ call[w].sig.kind = "captured"
  /\ \/ /\ pstatus # "CAPTURED"
        /\ pstatus' = "CAPTURED" /\ payId' = id
        /\ Goto(w, "split") /\ UNCHANGED keys
     \/ /\ pstatus = "CAPTURED" /\ payId = id
        /\ Goto(w, IF settled THEN "complete" ELSE "split")
        /\ UNCHANGED <<pstatus, payId, keys>>
     \/ /\ pstatus = "CAPTURED" /\ payId # id
        /\ keys' = keys \cup {<<"DUPLICATE", id>>}
        /\ Goto(w, "complete") /\ UNCHANGED <<pstatus, payId>>
  /\ UNCHANGED <<settled, locked, order, moneyVars, event, gateVars, faultVars>>

\* Faulty variant: cancelled orders are only left out.
SplitUnflagged(w) ==
  LET live == {o \in Orders : order[o] # "CANCELLED"} IN
  /\ At(w, "split")
  /\ settled' = (settled \/ live = {})
  /\ Resume(w, IF live = {} THEN "complete" ELSE "lock", live, {})
  /\ UNCHANGED <<pstatus, payId, locked, keys, order, moneyVars, event, gateVars,
                 faultVars>>

\* finishCapture: money for a cancelled order is flagged, and is all there is to
\* do when no order is live.
Split(w) ==
  LET live == {o \in Orders : order[o] # "CANCELLED"} IN
  /\ At(w, "split")
  /\ keys' = IF live = Orders THEN keys ELSE keys \cup {<<"LATE", payId>>}
  /\ settled' = (settled \/ live = {})
  /\ Resume(w, IF live = {} THEN "complete" ELSE "lock", live, {})
  /\ UNCHANGED <<pstatus, payId, locked, order, moneyVars, event, gateVars, faultVars>>

\* acquireCaptureLock, which takes a lock that is too old.  Whoever does not get it
\* reports success (IN_PROGRESS).
Lock(w) ==
  /\ At(w, "lock")
  /\ \/ /\ ~settled /\ (~locked \/ Slow \/ \A v \in Workers : call[v].pc \notin UnderLock)
        /\ locked' = TRUE /\ Goto(w, "finance")
     \/ (settled \/ locked) /\ UNCHANGED locked /\ Goto(w, "complete")
  /\ UNCHANGED <<pstatus, payId, settled, keys, order, moneyVars, event, gateVars,
                 faultVars>>

\* handleOnlineOrderFinance for one order: one transaction, guarded by its flag.
Finance(w, o) ==
  /\ At(w, "finance") /\ o \in call[w].todo
  /\ IF captured[o] THEN UNCHANGED <<captured, credits>>
       ELSE /\ captured' = [captured EXCEPT ![o] = TRUE]
            /\ credits' = [credits EXCEPT ![o] = @ + 1]
  /\ Resume(w, "seller", call[w].todo, {o})
  /\ UNCHANGED <<payVars, order, reversed, debits, undo, event, gateVars, faultVars>>

\* moveOrderToSellerPendingAfterPayment for the same order, then the next one.
ToSeller(w) ==
  LET rest == call[w].todo \ call[w].now IN
  /\ At(w, "seller")
  /\ order' = [o \in Orders |-> IF o \in call[w].now /\ order[o] = "CREATED"
                                  THEN "SELLER_PENDING" ELSE order[o]]
  /\ Resume(w, IF rest = {} THEN "settle" ELSE "finance", rest, {})
  /\ UNCHANGED <<payVars, moneyVars, event, gateVars, faultVars>>

Settle(w) ==
  /\ At(w, "settle")
  /\ settled' = TRUE /\ locked' = FALSE
  /\ Goto(w, "complete")
  /\ UNCHANGED <<pstatus, payId, keys, order, moneyVars, event, gateVars, faultVars>>

-----------------------------------------------------------------------------
(* The link closed unpaid: handleLinkClosed and cancelUnpaidOrders. *)

HandleClosed(w) ==
  /\ At(w, "handle") /\ call[w].sig.kind = "closed"
  /\ IF pstatus = "CAPTURED"
       THEN UNCHANGED pstatus /\ Goto(w, "complete")
       ELSE pstatus' = "CANCELLED" /\ Goto(w, "cancelOrders")
  /\ UNCHANGED <<payId, settled, locked, keys, order, moneyVars, event, gateVars,
                 faultVars>>

\* Faulty variant: the payment of the order is not looked at again.
CancelWaitingOrders(w) ==
  /\ At(w, "cancelOrders")
  /\ order' = [o \in Orders |-> IF order[o] = "CREATED" THEN "CANCELLED" ELSE order[o]]
  /\ Goto(w, "complete")
  /\ UNCHANGED <<payVars, moneyVars, event, gateVars, faultVars>>

\* One transaction over the group; the stock goes back in it.
CancelUnpaidOrders(w) ==
  /\ At(w, "cancelOrders")
  /\ order' = [o \in Orders |-> IF order[o] = "CREATED" /\ ~captured[o]
                                  THEN "CANCELLED" ELSE order[o]]
  /\ Goto(w, "complete")
  /\ UNCHANGED <<payVars, moneyVars, event, gateVars, faultVars>>

-----------------------------------------------------------------------------
(* The end of an activation. *)

Mark(w, status) ==
  event' = [s \in Signals |-> IF s = call[w].sig THEN status ELSE event[s]]

\* completeWebhookEvent, or the answer to the client.
Complete(w) ==
  /\ At(w, "complete")
  /\ Mark(w, "PROCESSED") /\ Finish(w)
  /\ UNCHANGED <<payVars, order, moneyVars, gateVars, faultVars>>

\* Faulty variant: the error is swallowed, the event acknowledged.
AbortSwallowed(w) ==
  /\ call[w].pc \in UnderLock /\ aborts < MaxAbort
  /\ aborts' = aborts + 1
  /\ locked' = FALSE
  /\ Mark(w, "PROCESSED") /\ Finish(w)
  /\ abandoned' = (abandoned \/ call[w].sig \in Polls)
  /\ UNCHANGED <<pstatus, payId, settled, keys, order, moneyVars, gateVars, crashes>>

\* A transaction or an update under the capture lock fails: the lock is given
\* back, whoever holds it by now, and the error ends the activation.
\* failWebhookEvent leaves the event to the gateway's next delivery.
Abort(w) ==
  /\ call[w].pc \in UnderLock /\ aborts < MaxAbort
  /\ aborts' = aborts + 1
  /\ locked' = FALSE
  /\ Mark(w, "FAILED") /\ Finish(w)
  /\ abandoned' = (abandoned \/ call[w].sig \in Polls)
  /\ UNCHANGED <<pstatus, payId, settled, keys, order, moneyVars, gateVars, crashes>>

Crash(w) ==
  /\ ~At(w, "idle") /\ crashes < MaxCrash
  /\ crashes' = crashes + 1
  /\ abandoned' = (abandoned \/ call[w].pc \in UnderLock)
  /\ Finish(w)
  /\ UNCHANGED <<payVars, order, moneyVars, event, gateVars, aborts>>

-----------------------------------------------------------------------------
(* Cancellations that race with the payment, and their compensation. *)

CancelOrder(o) ==
  /\ order' = [order EXCEPT ![o] = "CANCELLED"]
  /\ undo' = [undo EXCEPT ![o] = "due"]
  /\ UNCHANGED <<payVars, captured, reversed, credits, debits, event, call,
                 gateVars, faultVars>>

\* orderAutoCancelJob: the reservation expired and the order is not paid.
ReservationTimeout(o) == order[o] = "CREATED" /\ ~captured[o] /\ CancelOrder(o)

\* Rejected by the seller or cancelled by the customer.
CancelAtSeller(o) == order[o] = "SELLER_PENDING" /\ CancelOrder(o)

\* reverseOrderFinanceOnCancellation, one transaction with its flag.
Undo(o) ==
  /\ undo[o] = "due"
  /\ reversed' = [reversed EXCEPT ![o] = TRUE]
  /\ debits' = IF captured[o] /\ ~reversed[o] THEN [debits EXCEPT ![o] = @ + 1]
                                              ELSE debits
  /\ undo' = [undo EXCEPT ![o] = "done"]
  /\ UNCHANGED <<payVars, order, captured, credits, event, call, gateVars, faultVars>>

\* The process compensating dies, or the reversal fails and is only logged.
UndoLost(o) ==
  /\ undo[o] = "due" /\ crashes < MaxCrash
  /\ crashes' = crashes + 1
  /\ undo' = [undo EXCEPT ![o] = "lost"]
  /\ UNCHANGED <<payVars, order, captured, reversed, credits, debits, event, call,
                 gateVars, abandoned, aborts>>

-----------------------------------------------------------------------------
Continue(w) ==
  \/ HandleCaptured(w) \/ Split(w) \/ Lock(w)
  \/ (\E o \in Orders : Finance(w, o)) \/ ToSeller(w) \/ Settle(w)
  \/ HandleClosed(w) \/ CancelUnpaidOrders(w)
  \/ Complete(w)

Next ==
  \/ LinkCloses \/ \E id \in PayIds : CustomerPays(id)
  \/ \E w \in Workers :
       \/ Continue(w) \/ Abort(w) \/ Crash(w)
       \/ \E s \in Signals : Deliver(w, s)
       \/ \E s \in Polls : Verify(w, s)
  \/ \E o \in Orders : ReservationTimeout(o) \/ CancelAtSeller(o) \/ Undo(o) \/ UndoLost(o)

Spec == Init /\ [][Next]_vars

(***************************************************************************)
(* Fairness.  Running activations continue, and the gateway delivers an    *)
(* unacknowledged event again (strong, because the bounded slots can be    *)
(* busy whenever it does).  The client owes no status check.               *)
(***************************************************************************)
Fairness ==
  /\ \A w \in Workers : WF_vars(Continue(w))
  /\ \A s \in Signals : SF_vars(\E w \in Workers : Deliver(w, s))
  /\ \A o \in Orders : WF_vars(Undo(o))

FairSpec == Spec /\ Fairness

-----------------------------------------------------------------------------
(* Properties. *)

\* Type correctness of the payment, its orders, events and activations.
TypeOK ==
  /\ pstatus \in {"PENDING", "CAPTURED", "CANCELLED"} /\ payId \in PayIds \cup {NoId}
  /\ settled \in BOOLEAN /\ locked \in BOOLEAN
  /\ keys \subseteq {"LATE", "DUPLICATE"} \X PayIds
  /\ order \in [Orders -> {"CREATED", "SELLER_PENDING", "CANCELLED"}]
  /\ captured \in [Orders -> BOOLEAN] /\ reversed \in [Orders -> BOOLEAN]
  /\ credits \in [Orders -> Nat] /\ debits \in [Orders -> Nat]
  /\ undo \in [Orders -> {"none", "due", "done", "lost"}]
  /\ event \in [Signals -> {"new", "PROCESSING", "FAILED", "PROCESSED"}]
  /\ call \in [Workers -> [pc : Pcs, sig : Signals \cup Polls \cup {NoSignal},
                           todo : SUBSET Orders, now : SUBSET Orders]]
  /\ money \subseteq PayIds /\ link \in {"open", "closed"}
  /\ abandoned \in BOOLEAN /\ crashes \in 0 .. MaxCrash /\ aborts \in 0 .. MaxAbort

\* However many signals, redeliveries, lock takeovers and reruns there are, an
\* order's money enters the ledger once and leaves it at most once, and it does
\* not leave before it entered.
LedgerOnce == \A o \in Orders : debits[o] <= credits[o] /\ credits[o] <= 1

\* The seller is asked only about an order whose money is in the ledger.
SellerSeesPaidOrders ==
  \A o \in Orders : order[o] = "SELLER_PENDING" => credits[o] = 1

\* A settled payment has left no order of its group waiting: each one went on with its
\* money in the ledger, or it was cancelled before the capture came to it and its money
\* is flagged for a person (paymentService.js:253-284).
SettledMeansAccounted ==
  settled => \A o \in Orders :
    \/ order[o] # "CREATED" /\ captured[o]
    \/ order[o] = "CANCELLED" /\ <<"LATE", payId>> \in keys

Promise == INSTANCE CapturePromise WITH
  paid <- IF pstatus = "CAPTURED" THEN payId ELSE NoId,
  flags <- keys

\* The closing link, the expired reservation, the cancellations and the capture agree on
\* every order, in whatever order their steps come and however often they are repeated:
\* it goes to the seller only with its money in the ledger, is cancelled as unpaid only
\* without, no capture that is still running takes back either, and money leaves the
\* ledger only for a cancelled order (paymentService.js:253-284, 603-670).
PromiseKept == Promise!Spec

\* No late or reordered signal undoes a capture or changes whose it was.
CaptureStands ==
  [][pstatus = "CAPTURED" => pstatus' = "CAPTURED" /\ payId' = payId]_payVars

\* An acknowledged capture is the payment's own or is flagged as a second one.
SecondPaymentFlagged ==
  \A s \in Signals :
    s.kind = "captured" /\ event[s] = "PROCESSED"
      => s.id = payId \/ <<"DUPLICATE", s.id>> \in keys

\* A captured payment is settled, unless the holder of the capture lock ended
\* and none of the remaining signals runs it again.
CapturedIsSettled == pstatus = "CAPTURED" ~> settled \/ abandoned

\* paymentService.js: "Never silently ignore a successful payment: the order is
\* gone but the money is here."  When the capture is settled and the cancellation
\* compensated, the money is given back or flagged.
MoneyOfCancelledOrderSeen ==
  settled => \A o \in Orders :
    order[o] = "CANCELLED" /\ undo[o] \in {"none", "done"} /\ credits[o] > debits[o]
      => <<"LATE", payId>> \in keys
=============================================================================

--------------------------- MODULE OrderWorkflow ---------------------------
(***************************************************************************)
(* The workflow of one order (backend/app/services/orderWorkflowService.js *)
(* and the handlers that write the same document).                         *)
(*                                                                         *)
(* API, worker and scheduler processes run handlers concurrently.  A       *)
(* handler is a sequence of database calls; between two of them any other  *)
(* handler may run.  `call[c]' is the activation running in slot c: its pc *)
(* is the database call it makes next, the other fields are what it read   *)
(* earlier and still relies on.  A handler whose every guard is rechecked  *)
(* by one findOneAndUpdate is one action.                                  *)
(*                                                                         *)
(* Timers (the in-memory one, the Bull job, the 3 s poll) only start a     *)
(* handler that reads the order again, so they are not state: a timeout    *)
(* handler may start whenever its deadline has passed.                     *)
(***************************************************************************)
EXTENDS Naturals

CONSTANTS
  Riders,       \* delivery partners
  NoRider,      \* deliveryBoy: null
  Calls,        \* slots for concurrent handler activations
  Poller,       \* the slot of the scheduler's poll: timeout handlers only
  MaxAttempts,  \* DELIVERY_SEARCH_MAX_ATTEMPTS
  Placements,   \* the payment modes checkout offers
  MaxAdmin,     \* bound: administrator edits of the order
  MaxCrash      \* bound: process crashes in the middle of a handler

ASSUME RidersAssumption   == NoRider \notin Riders
ASSUME CallsAssumption    == Poller \in Calls
ASSUME AttemptsAssumption == MaxAttempts \in Nat \ {0}
ASSUME ModesAssumption    == Placements \subseteq {"COD", "ONLINE", "PENDING"}
ASSUME BoundsAssumption   == MaxAdmin \in Nat /\ MaxCrash \in Nat

VARIABLES
  status,     \* workflowStatus
  response,   \* sellerResponseStatus
  sellerDue,  \* sellerResponseDeadline has passed
  mode,       \* paymentMode
  pay,        \* paymentStatus
  captured,   \* financeFlags.onlinePaymentCaptured
  link,       \* the payment link at the gateway
  city,       \* isAhmedabadQuickOrder: fixed by the two addresses
  provider,   \* deliveryProvider
  rider,      \* deliveryBoy
  skipped,    \* skippedBy
  attempt,    \* deliverySearchMeta.attempt, 0 when absent
  search,     \* deliverySearchExpiresAt: unset, in the future, passed
  stock,      \* stockReservation.status
  released,   \* how often the items were put back on the shelf
  call,       \* the handler activations
  admins,     \* administrator edits so far
  crashes     \* crashes so far

orderVars == <<status, response, sellerDue, mode, pay, captured, link, city>>
riderVars == <<provider, rider, skipped, attempt, search>>
stockVars == <<stock, released>>
bounds    == <<admins, crashes>>
vars == <<orderVars, riderVars, stockVars, call, bounds>>

Statuses == {"CREATED", "SELLER_PENDING", "SELLER_ACCEPTED", "DELIVERY_SEARCH",
             "DELIVERY_ASSIGNED", "PICKUP_READY", "OUT_FOR_DELIVERY",
             "DELIVERED", "CANCELLED"}
Modes == {"COD", "ONLINE", "PENDING"}
PayStatuses == {"AWAITING_PAYMENT_METHOD", "CREATED",
                "PENDING_CASH_COLLECTION", "PAID", "FAILED"}
Links == {"none", "open", "closed", "paid", "processed"}

AcceptPcs  == {"accept", "acceptCAS"}
ChoicePcs  == {"codSave", "onlineSave", "createLink", "proceed"}
CapturePcs == {"capFinance", "capSeller", "capSearch", "capSave", "capProceed"}
TimeoutPcs == {"retry", "giveUp"}
CompPcs    == {"compRead", "compRelease", "compSave"}
AdminPcs   == {"adminRestock", "adminSave"}
Pcs == {"idle"} \cup AcceptPcs \cup ChoicePcs \cup CapturePcs
         \cup TimeoutPcs \cup CompPcs \cup AdminPcs

NothingRead == [mode |-> "COD", pay |-> "CREATED", auto |-> FALSE, n |-> 0]
Idle == [pc |-> "idle", read |-> NothingRead]
Reads == [mode : Modes, pay : PayStatuses, auto : BOOLEAN, n : 0 .. MaxAttempts]

\* What a handler that loaded the order remembers of its payment fields.
Loaded(auto) == [mode |-> mode, pay |-> pay, auto |-> auto, n |-> 0]

Goto(c, pc, read) == call' = [call EXCEPT ![c] = [pc |-> pc, read |-> read]]
At(c, pc)         == call[c].pc = pc
Finish(c)         == call' = [call EXCEPT ![c] = Idle]
\* A request handler starts in any slot but the poller's.
FreeSlot(c)       == c # Poller /\ At(c, "idle")

-----------------------------------------------------------------------------
(***************************************************************************)
(* Placement.  A fully wallet-paid order and an order whose payment method *)
(* is cash or still to be chosen go to the seller at once; an ONLINE one   *)
(* waits for its payment.                                                  *)
(***************************************************************************)
PlacedPay(m) == CASE m = "PENDING" -> "AWAITING_PAYMENT_METHOD"
                  [] m = "ONLINE"  -> "CREATED"
                  [] m = "COD"     -> "PENDING_CASH_COLLECTION"

Init ==
  \E walletPaid \in BOOLEAN :
    /\ mode \in Placements
    /\ pay = IF walletPaid THEN "PAID" ELSE PlacedPay(mode)
    /\ status = IF mode = "ONLINE" /\ ~walletPaid
                  THEN "CREATED" ELSE "SELLER_PENDING"
    /\ response = IF status = "CREATED" THEN "NONE" ELSE "PENDING"
    /\ sellerDue = FALSE
    /\ captured = FALSE
    /\ link = "none"
    /\ city \in BOOLEAN
    /\ provider = "none" /\ rider = NoRider /\ skipped = {}
    /\ attempt = 0 /\ search = "unset"
    /\ stock = "HELD" /\ released = 0
    /\ call = [c \in Calls |-> Idle]
    /\ admins = 0 /\ crashes = 0

-----------------------------------------------------------------------------
(* Time: deadlines pass. *)

SellerDeadlinePasses ==
  /\ status = "SELLER_PENDING" /\ ~sellerDue
  /\ sellerDue' = TRUE
  /\ UNCHANGED <<status, response, mode, pay, captured, link, city,
                 riderVars, stockVars, call, bounds>>

SearchWindowPasses ==
  /\ status = "DELIVERY_SEARCH" /\ search = "open"
  /\ search' = "due"
  /\ UNCHANGED <<orderVars, provider, rider, skipped, attempt, stockVars, call,
                 bounds>>

-----------------------------------------------------------------------------
(* The seller's decision. *)

AwaitingSeller == status = "SELLER_PENDING" /\ response = "PENDING"

\* isPaymentPending of executeOrderAcceptance, on what it read.
PaymentPending(r) ==
  (r.mode = "PENDING" \/ r.pay = "AWAITING_PAYMENT_METHOD") /\ r.pay # "PAID"

\* shouldRouteToInternalDelivery, on the payment mode of the document passed.
Internal(m) == m = "COD" /\ city

\* The fields every entry into DELIVERY_SEARCH writes: the internal lane opens
\* a first search window, the courier lane only names the provider.
EnterSearch(m) ==
  /\ status' = "DELIVERY_SEARCH"
  /\ provider' = IF Internal(m) THEN "internal" ELSE "delhivery"
  /\ attempt' = IF Internal(m) THEN 1 ELSE attempt
  /\ search' = IF Internal(m) THEN "open" ELSE search
  /\ UNCHANGED <<rider, skipped>>

SellerAccept(c) ==
  /\ FreeSlot(c) /\ AwaitingSeller /\ ~sellerDue
  /\ Goto(c, "accept", NothingRead)
  /\ UNCHANGED <<orderVars, riderVars, stockVars, bounds>>

\* Faulty variant: the deadline compared the wrong way round.
SellerTimeoutFlipped(c) ==
  /\ At(c, "idle") /\ AwaitingSeller /\ ~sellerDue
  /\ Goto(c, "accept", [NothingRead EXCEPT !.auto = TRUE])
  /\ UNCHANGED <<orderVars, riderVars, stockVars, bounds>>

SellerTimeout(c) ==
  /\ At(c, "idle") /\ AwaitingSeller /\ sellerDue
  /\ Goto(c, "accept", [NothingRead EXCEPT !.auto = TRUE])
  /\ UNCHANGED <<orderVars, riderVars, stockVars, bounds>>

\* executeOrderAcceptance loads the order and decides where it will go ...
AcceptRead(c) ==
  /\ At(c, "accept")
  /\ IF AwaitingSeller
       THEN Goto(c, "acceptCAS", Loaded(call[c].read.auto))
       ELSE Finish(c)
  /\ UNCHANGED <<orderVars, riderVars, stockVars, bounds>>

\* ... and moves it there if it is still the seller's.
AcceptCAS(c) ==
  LET read == call[c].read IN
  /\ At(c, "acceptCAS")
  /\ IF AwaitingSeller
       THEN /\ response' = IF read.auto THEN "AUTO_ACCEPTED" ELSE "ACCEPTED"
            /\ IF PaymentPending(read)
                 THEN status' = "SELLER_ACCEPTED" /\ UNCHANGED riderVars
                 ELSE EnterSearch(read.mode)
       ELSE UNCHANGED <<status, response, riderVars>>
  /\ Finish(c)
  /\ UNCHANGED <<sellerDue, mode, pay, captured, link, city, stockVars, bounds>>

SellerReject(c) ==
  /\ FreeSlot(c) /\ AwaitingSeller /\ ~sellerDue
  /\ status' = "CANCELLED" /\ response' = "REJECTED"
  /\ Goto(c, "compRead", NothingRead)
  /\ UNCHANGED <<sellerDue, mode, pay, captured, link, city, riderVars,
                 stockVars, bounds>>

\* customerCancelV2: the update looks at the workflow status alone.
CustomerCancel(c) ==
  /\ FreeSlot(c) /\ status = "SELLER_PENDING"
  /\ status' = "CANCELLED"
  /\ Goto(c, "compRead", NothingRead)
  /\ UNCHANGED <<response, sellerDue, mode, pay, captured, link, city,
                 riderVars, stockVars, bounds>>

-----------------------------------------------------------------------------
(* Online payment, as far as it moves the order. *)

\* createPaymentOrderForOrderRef, after validatePaymentEligibility.
Payable == /\ mode = "ONLINE" /\ pay # "PAID"
           /\ status \notin {"CANCELLED", "DELIVERED"}

CreatePayment(c) ==
  /\ FreeSlot(c) \/ At(c, "createLink")
  /\ \/ Payable /\ link' = IF link \in {"none", "closed"} THEN "open" ELSE link
     \/ ~Payable /\ At(c, "createLink") /\ UNCHANGED link
  /\ Finish(c)
  /\ UNCHANGED <<status, response, sellerDue, mode, pay, captured, city,
                 riderVars, stockVars, bounds>>

\* External: the customer pays through the link.
CustomerPays ==
  /\ link = "open" /\ link' = "paid"
  /\ UNCHANGED <<status, response, sellerDue, mode, pay, captured, city,
                 riderVars, stockVars, call, bounds>>

Unpaid == status = "CREATED" /\ pay # "PAID"

\* The gateway closes the link: cancelUnpaidOrders, one transaction.
LinkCloses ==
  /\ link = "open" /\ link' = "closed"
  /\ IF Unpaid
       THEN /\ status' = "CANCELLED" /\ pay' = "FAILED"
            /\ stock' = "RELEASED"
            /\ released' = IF stock = "HELD" THEN released + 1 ELSE released
       ELSE UNCHANGED <<status, pay, stockVars>>
  /\ UNCHANGED <<response, sellerDue, mode, captured, city, riderVars, call,
                 bounds>>

\* orderAutoCancelJob: an ONLINE order whose reservation expired unpaid.
ReservationTimeout(c) ==
  /\ At(c, "idle") /\ Unpaid /\ mode = "ONLINE" /\ stock # "RELEASED"
  /\ status' = "CANCELLED"
  /\ Goto(c, "compRead", NothingRead)
  /\ UNCHANGED <<response, sellerDue, mode, pay, captured, link, city,
                 riderVars, stockVars, bounds>>

\* A capture signal for a live order takes the capture lock.
CaptureStart(c) ==
  /\ FreeSlot(c) /\ link = "paid" /\ status # "CANCELLED"
  /\ \A d \in Calls : call[d].pc \notin CapturePcs
  /\ Goto(c, "capFinance", NothingRead)
  /\ UNCHANGED <<orderVars, riderVars, stockVars, bounds>>

\* handleOnlineOrderFinance: one transaction, idempotent by its flag.
CaptureFinance(c) ==
  /\ At(c, "capFinance")
  /\ IF captured THEN UNCHANGED <<captured, pay, mode>>
       ELSE captured' = TRUE /\ pay' = "PAID" /\ mode' = "ONLINE"
  /\ Goto(c, "capSeller", NothingRead)
  /\ UNCHANGED <<status, response, sellerDue, link, city, riderVars, stockVars,
                 bounds>>

\* Faulty variant: expects the seller's response to be pending already.
CaptureToSellerPending(c) ==
  /\ At(c, "capSeller")
  /\ IF status = "CREATED" /\ mode = "ONLINE" /\ response = "PENDING"
       THEN status' = "SELLER_PENDING" /\ response' = "PENDING" /\ sellerDue' = FALSE
       ELSE UNCHANGED <<status, response, sellerDue>>
  /\ Goto(c, "capSearch", NothingRead)
  /\ UNCHANGED <<mode, pay, captured, link, city, riderVars, stockVars, bounds>>

\* moveOrderToSellerPendingAfterPayment.
CaptureToSeller(c) ==
  /\ At(c, "capSeller")
  /\ IF status = "CREATED" /\ mode = "ONLINE"
       THEN status' = "SELLER_PENDING" /\ response' = "PENDING" /\ sellerDue' = FALSE
       ELSE UNCHANGED <<status, response, sellerDue>>
  /\ Goto(c, "capSearch", NothingRead)
  /\ UNCHANGED <<mode, pay, captured, link, city, riderVars, stockVars, bounds>>

\* moveOrderToDeliverySearchAfterPayment: load the order ...
CaptureToSearch(c) ==
  /\ At(c, "capSearch")
  /\ IF status = "SELLER_ACCEPTED"
       THEN Goto(c, "capSave", Loaded(FALSE)) /\ UNCHANGED link
       ELSE Finish(c) /\ link' = "processed"
  /\ UNCHANGED <<status, response, sellerDue, mode, pay, captured, city,
                 riderVars, stockVars, bounds>>

\* ... and save its payment mode; save() writes only the fields it changed.
CaptureSave(c) ==
  /\ At(c, "capSave")
  /\ mode' = IF call[c].read.mode = "ONLINE" THEN mode ELSE "ONLINE"
  /\ Goto(c, "capProceed", [call[c].read EXCEPT !.mode = "ONLINE"])
  /\ UNCHANGED <<status, response, sellerDue, pay, captured, link, city,
                 riderVars, stockVars, bounds>>

-----------------------------------------------------------------------------
(* The customer chooses how to pay for an accepted order. *)

\* selectPaymentMethod checks the status of the document it loads ...
SelectPaymentMethod(c) ==
  /\ FreeSlot(c) /\ status = "SELLER_ACCEPTED"
  /\ \E pc \in {"codSave", "onlineSave"} : Goto(c, pc, Loaded(FALSE))
  /\ UNCHANGED <<orderVars, riderVars, stockVars, bounds>>

\* ... and saves the fields it changed, whatever the status is by then.
CodSave(c) ==
  LET read == call[c].read IN
  /\ At(c, "codSave")
  /\ mode' = IF read.mode = "COD" THEN mode ELSE "COD"
  /\ pay' = IF read.pay = "PENDING_CASH_COLLECTION"
              THEN pay ELSE "PENDING_CASH_COLLECTION"
  /\ Goto(c, "proceed", [read EXCEPT !.mode = "COD"])
  /\ UNCHANGED <<status, response, sellerDue, captured, link, city, riderVars,
                 stockVars, bounds>>

OnlineSave(c) ==
  /\ At(c, "onlineSave")
  /\ mode' = IF call[c].read.mode = "ONLINE" THEN mode ELSE "ONLINE"
  /\ Goto(c, "createLink", NothingRead)
  /\ UNCHANGED <<status, response, sellerDue, pay, captured, link, city,
                 riderVars, stockVars, bounds>>

\* proceedToDeliverySearch: its update filters on the order id alone.
Proceed(c) ==
  /\ At(c, "proceed") \/ At(c, "capProceed")
  /\ EnterSearch(call[c].read.mode)
  /\ link' = IF At(c, "capProceed") THEN "processed" ELSE link
  /\ Finish(c)
  /\ UNCHANGED <<response, sellerDue, mode, pay, captured, city, stockVars, bounds>>

-----------------------------------------------------------------------------
(* The search for a delivery partner. *)

DeliveryAccept(r) ==
  /\ status = "DELIVERY_SEARCH" /\ rider = NoRider
  /\ search = "open" /\ r \notin skipped
  /\ status' = "DELIVERY_ASSIGNED" /\ rider' = r
  /\ UNCHANGED <<response, sellerDue, mode, pay, captured, link, city, provider,
                 skipped, attempt, search, stockVars, call, bounds>>

SkipOrder(r) ==
  /\ status = "DELIVERY_SEARCH" /\ r \notin skipped
  /\ skipped' = skipped \cup {r}
  /\ UNCHANGED <<orderVars, provider, rider, attempt, search, stockVars, call,
                 bounds>>

\* Faulty variant: never runs out of attempts.
DeliveryTimeoutUncapped(c) ==
  /\ At(c, "idle") /\ status = "DELIVERY_SEARCH"
  /\ provider \in {"none", "internal"} /\ search # "open"
  /\ Goto(c, "retry", [NothingRead EXCEPT !.n = attempt])
  /\ UNCHANGED <<orderVars, riderVars, stockVars, bounds>>

\* processDeliveryTimeoutJob decides from the attempt it read ...
DeliveryTimeout(c) ==
  LET current == IF attempt = 0 THEN 1 ELSE attempt IN
  /\ At(c, "idle") /\ status = "DELIVERY_SEARCH"
  /\ provider \in {"none", "internal"} /\ search # "open"
  /\ Goto(c, IF current < MaxAttempts THEN "retry" ELSE "giveUp",
          [NothingRead EXCEPT !.n = current])
  /\ UNCHANGED <<orderVars, riderVars, stockVars, bounds>>

\* Faulty variant: the attempt is written back unchanged.
SearchRetryForever(c) ==
  /\ At(c, "retry")
  /\ IF status = "DELIVERY_SEARCH"
       THEN attempt' = call[c].read.n /\ search' = "open"
       ELSE UNCHANGED <<attempt, search>>
  /\ Finish(c)
  /\ UNCHANGED <<orderVars, provider, rider, skipped, stockVars, bounds>>

\* ... and both of its updates check the status alone.
SearchRetry(c) ==
  /\ At(c, "retry")
  /\ IF status = "DELIVERY_SEARCH"
       THEN attempt' = call[c].read.n + 1 /\ search' = "open"
       ELSE UNCHANGED <<attempt, search>>
  /\ Finish(c)
  /\ UNCHANGED <<orderVars, provider, rider, skipped, stockVars, bounds>>

\* Faulty variant: the status is not rechecked.
SearchGiveUpUnguarded(c) ==
  /\ At(c, "giveUp")
  /\ status' = "CANCELLED" /\ Goto(c, "compRead", NothingRead)
  /\ UNCHANGED <<response, sellerDue, mode, pay, captured, link, city,
                 riderVars, stockVars, bounds>>

\* Faulty variant: the cancellation is not compensated.
SearchGiveUpUncompensated(c) ==
  /\ At(c, "giveUp")
  /\ status' = IF status = "DELIVERY_SEARCH" THEN "CANCELLED" ELSE status
  /\ Finish(c)
  /\ UNCHANGED <<response, sellerDue, mode, pay, captured, link, city,
                 riderVars, stockVars, bounds>>

SearchGiveUp(c) ==
  /\ At(c, "giveUp")
  /\ IF status = "DELIVERY_SEARCH"
       THEN status' = "CANCELLED" /\ Goto(c, "compRead", NothingRead)
       ELSE UNCHANGED status /\ Finish(c)
  /\ UNCHANGED <<response, sellerDue, mode, pay, captured, link, city,
                 riderVars, stockVars, bounds>>

-----------------------------------------------------------------------------
(* The assigned partner's steps: each one is a guarded update. *)

RiderMoves(r, from, to) ==
  /\ rider = r /\ status \in from /\ status' = to
  /\ UNCHANGED <<response, sellerDue, mode, pay, captured, link, city,
                 riderVars, stockVars, call, bounds>>

MarkArrivedAtStore(r) == RiderMoves(r, {"DELIVERY_ASSIGNED"}, "PICKUP_READY")
ConfirmPickup(r) ==
  RiderMoves(r, {"DELIVERY_ASSIGNED", "PICKUP_READY"}, "OUT_FOR_DELIVERY")
CompleteDelivery(r) == RiderMoves(r, {"OUT_FOR_DELIVERY"}, "DELIVERED")

-----------------------------------------------------------------------------
(***************************************************************************)
(* compensateOrderCancellation, up to the saved stock release.  It loads   *)
(* the order, puts the items back one product update at a time, and saves  *)
(* the reservation as released.                                            *)
(***************************************************************************)
CompRead(c) ==
  /\ At(c, "compRead")
  /\ IF stock = "RELEASED" THEN Finish(c) ELSE Goto(c, "compRelease", NothingRead)
  /\ UNCHANGED <<orderVars, riderVars, stockVars, bounds>>

CompRelease(c) ==
  /\ At(c, "compRelease")
  /\ released' = released + 1
  /\ Goto(c, "compSave", NothingRead)
  /\ UNCHANGED <<orderVars, riderVars, stock, bounds>>

CompSave(c) ==
  /\ At(c, "compSave")
  /\ stock' = "RELEASED"
  /\ Finish(c)
  /\ UNCHANGED <<orderVars, riderVars, released, bounds>>

-----------------------------------------------------------------------------
(***************************************************************************)
(* updateOrderStatus by an administrator: cancel, restoring the stock of   *)
(* the document loaded without looking at its reservation, or assign a     *)
(* delivery partner.                                                       *)
(***************************************************************************)
AdminCancel(c) ==
  /\ FreeSlot(c) /\ admins < MaxAdmin /\ status # "CANCELLED"
  /\ admins' = admins + 1
  /\ Goto(c, "adminRestock", NothingRead)
  /\ UNCHANGED <<orderVars, riderVars, stockVars, crashes>>

AdminRestock(c) ==
  /\ At(c, "adminRestock")
  /\ released' = released + 1
  /\ Goto(c, "adminSave", NothingRead)
  /\ UNCHANGED <<orderVars, riderVars, stock, bounds>>

AdminSave(c) ==
  /\ At(c, "adminSave")
  /\ status' = "CANCELLED"
  /\ Finish(c)
  /\ UNCHANGED <<response, sellerDue, mode, pay, captured, link, city,
                 riderVars, stockVars, bounds>>

AdminAssign(r) ==
  /\ admins < MaxAdmin
  /\ admins' = admins + 1 /\ rider' = r
  /\ UNCHANGED <<orderVars, provider, skipped, attempt, search, stockVars, call,
                 crashes>>

\* The process running the handler dies: what it had read is lost.
Crash(c) ==
  /\ ~At(c, "idle") /\ crashes < MaxCrash
  /\ crashes' = crashes + 1
  /\ Finish(c)
  /\ UNCHANGED <<orderVars, riderVars, stockVars, admins>>

-----------------------------------------------------------------------------
(* A started handler runs to its end; the others may or may not be called. *)
Continue(c) ==
  \/ AcceptRead(c) \/ AcceptCAS(c)
  \/ CodSave(c) \/ OnlineSave(c) \/ (At(c, "createLink") /\ CreatePayment(c))
  \/ CaptureFinance(c) \/ CaptureToSeller(c) \/ CaptureToSearch(c)
  \/ CaptureSave(c) \/ Proceed(c)
  \/ SearchRetry(c) \/ SearchGiveUp(c)
  \/ CompRead(c) \/ CompRelease(c) \/ CompSave(c)
  \/ AdminRestock(c) \/ AdminSave(c)

Timeout(c) == SellerTimeout(c) \/ DeliveryTimeout(c) \/ ReservationTimeout(c)

Request(c) ==
  \/ SellerAccept(c) \/ SellerReject(c) \/ CustomerCancel(c)
  \/ (At(c, "idle") /\ CreatePayment(c)) \/ CaptureStart(c)
  \/ SelectPaymentMethod(c) \/ AdminCancel(c)

RiderStep(r) ==
  \/ DeliveryAccept(r) \/ SkipOrder(r)
  \/ MarkArrivedAtStore(r) \/ ConfirmPickup(r) \/ CompleteDelivery(r)
  \/ AdminAssign(r)

Environment ==
  \/ SellerDeadlinePasses \/ SearchWindowPasses \/ CustomerPays \/ LinkCloses

Next ==
  \/ Environment
  \/ \E c \in Calls : Request(c) \/ Timeout(c) \/ Continue(c) \/ Crash(c)
  \/ \E r \in Riders : RiderStep(r)

Spec == Init /\ [][Next]_vars

(***************************************************************************)
(* Fairness.  A running process executes its next call; clocks advance;    *)
(* the scheduler polls every AUTO_CANCEL_INTERVAL_MS in its own slot; the  *)
(* gateway repeats the signal of a payment until it is processed.  Nobody  *)
(* is obliged to accept, pay, pick up or deliver.                          *)
(***************************************************************************)
Fairness ==
  /\ \A c \in Calls : WF_vars(Continue(c))
  /\ WF_vars(SellerDeadlinePasses) /\ WF_vars(SearchWindowPasses)
  /\ WF_vars(Timeout(Poller))
  /\ SF_vars(\E c \in Calls : CaptureStart(c))

FairSpec == Spec /\ Fairness

-----------------------------------------------------------------------------
(* Properties. *)

\* Type correctness of every field the handlers write.
TypeOK ==
  /\ status \in Statuses
  /\ response \in {"NONE", "PENDING", "ACCEPTED", "AUTO_ACCEPTED", "REJECTED"}
  /\ sellerDue \in BOOLEAN /\ mode \in Modes /\ pay \in PayStatuses
  /\ captured \in BOOLEAN /\ link \in Links /\ city \in BOOLEAN
  /\ provider \in {"none", "internal", "delhivery"}
  /\ rider \in Riders \cup {NoRider} /\ skipped \subseteq Riders
  /\ attempt \in 0 .. MaxAttempts /\ search \in {"unset", "open", "due"}
  /\ stock \in {"HELD", "RELEASED"} /\ released \in Nat
  /\ call \in [Calls -> [pc : Pcs, read : Reads]]
  /\ admins \in 0 .. MaxAdmin /\ crashes \in 0 .. MaxCrash

\* An order is with a delivery partner exactly from the assignment on: a search
\* never runs for an order that has a partner, nor does an order travel
\* without one (deliveryAcceptAtomic against the timeout and payment handlers).
RiderMatchesStatus ==
  /\ status \in {"CREATED", "SELLER_PENDING", "SELLER_ACCEPTED", "DELIVERY_SEARCH"}
       => rider = NoRider
  /\ status \in {"DELIVERY_ASSIGNED", "PICKUP_READY", "OUT_FOR_DELIVERY", "DELIVERED"}
       => rider # NoRider

\* However many cancellation paths race (seller, customer, unpaid reservation,
\* closed link, fruitless search), the stock goes back at most once.
StockReleasedAtMostOnce == released <= 1

\* An order that can still be delivered holds its stock: no release runs ahead
\* of, or without, the cancellation that justifies it.
LiveOrderHoldsStock == status # "CANCELLED" => stock = "HELD" /\ released = 0

\* What makes the invariants above inductive, where the payment method is
\* chosen at checkout and no administrator edits the order.
RetryBelowMax == \A c \in Calls : call[c].pc = "retry" => call[c].read.n < MaxAttempts

\* Such an order never waits for a payment method: the handlers of that wait,
\* and the writes that do not look at the status, are never entered.
NoPaymentWait ==
  /\ mode # "PENDING" /\ pay # "AWAITING_PAYMENT_METHOD"
  /\ status # "SELLER_ACCEPTED" /\ admins = 0
  /\ \A c \in Calls :
       /\ call[c].pc \notin ChoicePcs \cup AdminPcs \cup {"capSave", "capProceed"}
       /\ call[c].pc = "acceptCAS" =>
            call[c].read.mode # "PENDING" /\ call[c].read.pay # "AWAITING_PAYMENT_METHOD"

\* One handler at most compensates, for a cancelled order, and puts the items
\* back only once.
OneCompensation ==
  /\ released <= 1
  /\ status # "CANCELLED" => stock = "HELD" /\ released = 0
  /\ \A c \in Calls :
       /\ call[c].pc \in CompPcs =>
            status = "CANCELLED" /\ \A d \in Calls \ {c} : call[d].pc \notin CompPcs
       /\ call[c].pc \in {"compRead", "compRelease"} => stock = "HELD" /\ released = 0
       /\ call[c].pc = "compSave" => released = 1

\* The table of orderStateMachine.js.
Table ==
  [from \in Statuses |->
    CASE from = "CREATED" -> {"SELLER_PENDING"}
      [] from = "SELLER_PENDING" -> {"SELLER_ACCEPTED", "DELIVERY_SEARCH", "CANCELLED"}
      [] from = "SELLER_ACCEPTED" -> {"DELIVERY_SEARCH", "CANCELLED"}
      [] from = "DELIVERY_SEARCH" -> {"DELIVERY_ASSIGNED", "CANCELLED"}
      [] from = "DELIVERY_ASSIGNED" -> {"PICKUP_READY", "OUT_FOR_DELIVERY", "CANCELLED"}
      [] from = "PICKUP_READY" -> {"OUT_FOR_DELIVERY", "CANCELLED"}
      [] from = "OUT_FOR_DELIVERY" -> {"DELIVERED", "CANCELLED"}
      [] from \in {"DELIVERED", "CANCELLED"} -> {}]

CanTransition(from, to) == from = to \/ to \in Table[from]

\* The handlers follow the table, but for the unpaid order that is cancelled
\* from CREATED by the reservation timeout or the closed payment link.
UnpaidCancellation == status = "CREATED" /\ status' = "CANCELLED"
UnguardedWrite ==
  \E c \in Calls : /\ call[c].pc \in {"proceed", "capProceed", "adminSave"}
                  /\ call'[c].pc = "idle"
FollowsTableOrUnpaid ==
  [][CanTransition(status, status') \/ UnpaidCancellation]_status

\* Every step outside the table is made by one of the two writes that do not
\* look at the status: proceedToDeliverySearch and the administrator's save.
OnlyUnguardedWritesLeaveTable ==
  [][CanTransition(status, status') \/ UnpaidCancellation \/ UnguardedWrite]_status

\* Accept, auto-accept and reject exclude each other: a seller's decision is
\* taken once and no later handler overturns it.
SellerDecidesOnce ==
  [][(response \in {"ACCEPTED", "AUTO_ACCEPTED", "REJECTED"})
       => (response' = response)]_response

\* The first partner to accept keeps the order ("first delivery partner to
\* accept wins"): no timeout, retry or other partner takes it away.
FirstRiderKeepsOrder == [][rider # NoRider => rider' = rider]_rider

\* The order leaves the seller's desk: accepted, rejected, cancelled or, when
\* the deadline passes, accepted by the system.
SellerPendingEnds == status = "SELLER_PENDING" ~> status # "SELLER_PENDING"

\* The internal search ends: a partner accepts or the last attempt cancels.
InternalSearchEnds ==
  (status = "DELIVERY_SEARCH" /\ provider = "internal") ~> status # "DELIVERY_SEARCH"

\* A cancelled order gives its stock back, unless the process compensating it
\* dies: no job resumes a compensation.
CancelledReleasesStock ==
  status = "CANCELLED" ~> (stock = "RELEASED" \/ crashes > 0)

\* The workflow implements the promise of OrderPromise (PromiseKept, checked
\* where the payment method is chosen at checkout and nobody edits the order).
Phase ==
  CASE status = "CREATED" -> "unpaid"
    [] status \in {"SELLER_PENDING", "SELLER_ACCEPTED"} -> "seller"
    [] status = "DELIVERY_SEARCH" -> "search"
    [] status \in {"DELIVERY_ASSIGNED", "PICKUP_READY", "OUT_FOR_DELIVERY"} -> "partner"
    [] status = "DELIVERED" -> "delivered"
    [] status = "CANCELLED" -> "cancelled"

Promise == INSTANCE OrderPromise WITH
  phase <- Phase, holder <- rider,
  shelf <- CASE released = 0 -> "held" [] released = 1 -> "returned" [] OTHER -> "twice"

\* Every behaviour of the workflow is one the promise allows.
PromiseKept == Promise!Spec

\* A paid order does not stay in CREATED.
PaidOrderLeavesCreated == link = "paid" ~> status # "CREATED"

\* Cash is not collected for an order whose online payment was captured
\* (handleCodOrderFinance: "COD collection is not allowed for ONLINE orders").
NoCashForCapturedOrder == status = "DELIVERED" /\ captured => mode # "COD"
=============================================================================

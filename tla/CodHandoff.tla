----------------------------- MODULE CodHandoff -----------------------------
(***************************************************************************)
(* A cash-on-delivery order at the customer's door                         *)
(* (backend/app/services/codQrPaymentService.js,                           *)
(* deliveryCompletionService.js, orderSettlement.js).                      *)
(*                                                                         *)
(* The delivery code opens the payment step, or delivers an order whose    *)
(* money is in.  The rider then shows a single-use QR of the amount due,   *)
(* or takes cash.  A payment of a QR is applied by the gateway's webhook   *)
(* or by any request that asks the gateway; both lock the attempt, claim   *)
(* the choice of method on the order, credit the money, deliver the order  *)
(* and mark the attempt finalised.  Cash claims the choice and delivers.   *)
(* `call[w]' is a request or a webhook: op is its handler, pc its next     *)
(* call to the database or the gateway, att the attempt it works on.  A    *)
(* handler reads the order and its attempts in the step that starts it;    *)
(* every later update has the guard it has in the code.                    *)
(***************************************************************************)
EXTENDS Integers

CONSTANTS
  MaxAttempts,  \* bound: CodQrPayment documents of the order, one per QR
  Workers,      \* slots for concurrent handlers
  Serves,       \* the handlers each slot runs
  Slow,         \* a live holder may outlast the 60 seconds of its lock
  MaxCrash      \* bound: handlers that die and database calls that fail

Ops == {"otp", "qr", "verify", "cash", "paid", "closed"}
Attempts == 1..MaxAttempts
NoAttempt == 0

ASSUME BoundAssumption == MaxAttempts \in Nat
ASSUME ServesAssumption == Serves \in [Workers -> SUBSET Ops]
ASSUME FaultAssumption == Slow \in BOOLEAN /\ MaxCrash \in Nat

VARIABLES
  order,        \* what is written on the order, see OrderType
  doc,          \* the attempts, see DocType
  gateway,      \* the QR codes at the gateway
  acked,        \* the codes whose payment's webhook was acknowledged
  call,         \* the handlers
  settler,      \* history: the attempt whose finalisation delivered the order
  reopened,     \* history: a verification of the code erased a choice
  abandoned,    \* history: attempts whose finalisation nobody reruns
  crashes

vars == <<order, doc, gateway, acked, call, settler, reopened, abandoned, crashes>>
history == <<settler, reopened, abandoned>>

Methods == {"CASH", "RAZORPAY_QR"}
OrderType ==
  [awaiting : BOOLEAN,                      \* codHandoff.awaitingPayment
   choice : Methods \cup {"none"},          \* codHandoff.paymentChoice
   method : Methods \cup {"none", "CODE"},  \* paymentMethod, set with DELIVERED;
                                            \* "CODE": delivered without one
   credited : SUBSET Attempts,              \* credits in the ledger; with one,
                                            \* paymentMode is ONLINE
   cash : BOOLEAN,                          \* financeFlags.codMarkedCollected
   row : Methods \cup {"none", "ONLINE_PREPAID"}]   \* the CashCollection
Statuses == {"none", "CREATED", "PENDING", "PAID", "FAILED", "EXPIRED", "CLOSED"}
DocType ==
  [status : Statuses, active : BOOLEAN,
   code : BOOLEAN,                          \* razorpayQrId is set
   finalized : BOOLEAN,                     \* finalizedAt
   lock : BOOLEAN,                          \* finalizingAt
   flagged : BOOLEAN]                       \* in duplicatePayments
\* PAID is set with razorpayPaymentId: a single-use code has one payment.

Delivered == order.method # "none"
Open == {"CREATED", "PENDING"}              \* COD_QR_OPEN_STATUSES

\* Within ensureOrderCompleted's lock.
Holding == {"look", "claim", "credit", "deliver", "row", "finalize", "dup", "unlock", "failed"}
Pcs == Holding \cup
  {"idle", "begin", "fetch", "mark", "stop", "expire",
   "tidy", "settle", "lock", "ack", "nack", "reuse", "shut", "close",
   "create", "gateway", "store", "discard", "cash", "hand", "cod", "cashRow",
   "code", "codeRow"}
Idle == [op |-> "none", pc |-> "idle", att |-> NoAttempt]

At(w, pc)    == call[w].pc = pc
Goto(w, pc)  == call' = [call EXCEPT ![w].pc = pc]
Visit(w, i, pc) == call' = [call EXCEPT ![w].att = i, ![w].pc = pc]
Finish(w)    == call' = [call EXCEPT ![w] = Idle]
Enter(w, op, pc, i) ==
  /\ op \in Serves[w]
  /\ call' = [call EXCEPT ![w] = [op |-> op, pc |-> pc, att |-> i]]

\* What the handlers do when the gateway, or the finalisation, has answered.
After(w, completed) ==
  LET op == call[w].op IN
  CASE op = "paid" -> Goto(w, "ack")
    [] op = "qr" /\ ~completed -> Goto(w, "reuse")
    [] op = "cash" /\ ~completed -> Goto(w, "shut")
    [] OTHER -> Finish(w)

\* Somebody works on attempt i under its lock.
Held(i) == \E v \in Workers : call[v].pc \in Holding /\ call[v].att = i

Init ==
  /\ order = [awaiting |-> FALSE, choice |-> "none", method |-> "none",
              credited |-> {}, cash |-> FALSE, row |-> "none"]
  /\ doc = [i \in Attempts |-> [status |-> "none", active |-> FALSE, code |-> FALSE,
                                finalized |-> FALSE, lock |-> FALSE, flagged |-> FALSE]]
  /\ gateway = [i \in Attempts |-> "none"]
  /\ acked = {}
  /\ call = [w \in Workers |-> Idle]
  /\ settler = NoAttempt /\ reopened = FALSE /\ abandoned = {} /\ crashes = 0

-----------------------------------------------------------------------------
(* The customer and the gateway. *)

\* The customer pays a code he was shown.
CustomerPays(i) ==
  /\ gateway[i] = "active" /\ doc[i].code
  /\ gateway' = [gateway EXCEPT ![i] = "paid"]
  /\ UNCHANGED <<order, doc, acked, call, history, crashes>>

\* close_by passes.
CodeExpires(i) ==
  /\ gateway[i] = "active"
  /\ gateway' = [gateway EXCEPT ![i] = "expired"]
  /\ UNCHANGED <<order, doc, acked, call, history, crashes>>

-----------------------------------------------------------------------------
(* verifyHandoffOtpAndDeliver, beginCodPaymentHandoff. *)

Outstanding == ~order.cash /\ order.credited = {}    \* orderIsOutstandingCod

\* The order is out for delivery and the code is right and not used yet: it may be a
\* new one, or one that a request at the same time has read as well.  With money
\* outstanding it opens the payment step, and while the order awaits payment it is
\* used up only; an order with its money in is delivered at once.
StartOtp(w) ==
  /\ At(w, "idle") /\ ~Delivered
  /\ \/ Outstanding /\ ~order.awaiting /\ Enter(w, "otp", "begin", NoAttempt)
     \/ ~Outstanding /\ Enter(w, "otp", "code", NoAttempt)
  /\ UNCHANGED <<order, doc, gateway, acked, history, crashes>>

\* Faulty variant: the update does not look at the delivery status.
BeginAnyway(w) ==
  /\ At(w, "begin")
  /\ Finish(w)
  /\ order' = [order EXCEPT !.awaiting = TRUE, !.choice = "none"]
  /\ reopened' = (reopened \/ order.choice # "none")
  /\ UNCHANGED <<doc, gateway, acked, settler, abandoned, crashes>>

\* The update looks at the delivery status only.
Begin(w) ==
  /\ At(w, "begin")
  /\ Finish(w)
  /\ IF Delivered
       THEN UNCHANGED <<order, reopened>>
       ELSE /\ order' = [order EXCEPT !.awaiting = TRUE, !.choice = "none"]
            /\ reopened' = (reopened \/ order.choice # "none")
  /\ UNCHANGED <<doc, gateway, acked, settler, abandoned, crashes>>

\* completeOutForDeliveryOrder without a method: the payment step stays open.  The
\* order was paid online, so that the settlement has no cash to mark.
HandOverByCode(w) ==
  /\ At(w, "code")
  /\ IF Delivered
       THEN Finish(w) /\ UNCHANGED order
       ELSE order' = [order EXCEPT !.method = "CODE"] /\ Goto(w, "codeRow")
  /\ UNCHANGED <<doc, gateway, acked, history, crashes>>

-----------------------------------------------------------------------------
(* ensureOrderCompleted. *)

\* Faulty variant: the lock is taken whoever holds it.
LockAlways(w) ==
  LET i == call[w].att IN
  /\ At(w, "lock")
  /\ IF doc[i].finalized
       THEN After(w, TRUE) /\ UNCHANGED doc
       ELSE Goto(w, "look") /\ doc' = [doc EXCEPT ![i].lock = TRUE]
  /\ UNCHANGED <<order, gateway, acked, history, crashes>>

\* A finalised attempt is done.  A free lock is taken, and a held one once it is
\* 60 seconds old; until then the finalisation is somebody else's.  A webhook is
\* redelivered 120 seconds after its handler died, and finds that lock stale.
Lock(w) ==
  LET i == call[w].att IN
  /\ At(w, "lock")
  /\ \/ doc[i].finalized /\ After(w, TRUE) /\ UNCHANGED doc
     \/ /\ ~doc[i].finalized /\ (doc[i].lock => Slow \/ ~Held(i))
        /\ Goto(w, "look")
        /\ doc' = [doc EXCEPT ![i].lock = TRUE]
     \/ /\ ~doc[i].finalized /\ doc[i].lock
        /\ call[w].op = "paid" => Held(i) \/ i \in abandoned
        /\ After(w, FALSE) /\ UNCHANGED doc
  /\ UNCHANGED <<order, gateway, acked, history, crashes>>

\* An order that was delivered another way is not settled again.
Look(w) ==
  /\ At(w, "look")
  /\ Goto(w, IF Delivered THEN "dup" ELSE "claim")
  /\ UNCHANGED <<order, doc, gateway, acked, history, crashes>>

\* Faulty variant: the choice of cash is overwritten.
ClaimAnyChoice(w) ==
  /\ At(w, "claim")
  /\ IF order.awaiting
       THEN Goto(w, "credit") /\ order' = [order EXCEPT !.choice = "RAZORPAY_QR"]
       ELSE Goto(w, "dup") /\ UNCHANGED order
  /\ UNCHANGED <<doc, gateway, acked, history, crashes>>

\* The update looks at the payment step only.
Claim(w) ==
  /\ At(w, "claim")
  /\ IF order.awaiting /\ order.choice \in {"none", "RAZORPAY_QR"}
       THEN Goto(w, "credit") /\ order' = [order EXCEPT !.choice = "RAZORPAY_QR"]
       ELSE Goto(w, "dup") /\ UNCHANGED order
  /\ UNCHANGED <<doc, gateway, acked, history, crashes>>

\* handleOnlineOrderFinance, one transaction: an order is credited once.
Credit(w) ==
  /\ At(w, "credit")
  /\ order' = [order EXCEPT !.credited = IF @ = {} THEN {call[w].att} ELSE @]
  /\ Goto(w, "deliver")
  /\ UNCHANGED <<doc, gateway, acked, history, crashes>>

Hand(method) == order' = [order EXCEPT !.method = method, !.awaiting = FALSE]

\* Faulty variant: the update does not look at the delivery status.
DeliverAnyway(w) ==
  /\ At(w, "deliver")
  /\ Hand("RAZORPAY_QR") /\ settler' = call[w].att /\ Goto(w, "row")
  /\ UNCHANGED <<doc, gateway, acked, reopened, abandoned, crashes>>

\* completeOutForDeliveryOrder: only one caller finds the order undelivered.
Deliver(w) ==
  /\ At(w, "deliver")
  /\ IF Delivered
       THEN Goto(w, "failed") /\ UNCHANGED <<order, settler>>
       ELSE Hand("RAZORPAY_QR") /\ settler' = call[w].att /\ Goto(w, "row")
  /\ UNCHANGED <<doc, gateway, acked, reopened, abandoned, crashes>>

\* recordDeliveryCollection: one row per order, its method read from the order.  After
\* the code delivered, the order has no method of payment to read.
Recorded ==
  IF order.row # "none" THEN order.row
  ELSE IF order.method = "RAZORPAY_QR" THEN "RAZORPAY_QR"
  ELSE IF order.credited # {} THEN "ONLINE_PREPAID"
  ELSE IF order.cash THEN "CASH" ELSE "none"

\* applyDeliveredSettlement: an order paid online has no cash to mark.
Row(w) ==
  /\ At(w, "row")
  /\ order' = [order EXCEPT !.row = Recorded]
  /\ Goto(w, "finalize")
  /\ UNCHANGED <<doc, gateway, acked, history, crashes>>

Finalize(w) ==
  /\ At(w, "finalize")
  /\ doc' = [doc EXCEPT ![call[w].att].finalized = TRUE, ![call[w].att].active = FALSE]
  /\ After(w, TRUE)
  /\ UNCHANGED <<order, gateway, acked, history, crashes>>

\* flagReview, and then the lock is given back.
Flag(w) ==
  /\ At(w, "dup")
  /\ doc' = [doc EXCEPT ![call[w].att].flagged = TRUE]
  /\ Goto(w, "unlock")
  /\ UNCHANGED <<order, gateway, acked, history, crashes>>

Unlock(w) ==
  /\ At(w, "unlock")
  /\ doc' = [doc EXCEPT ![call[w].att].lock = FALSE]
  /\ After(w, FALSE)
  /\ UNCHANGED <<order, gateway, acked, history, crashes>>

\* Only the webhook's finalisation is run again by somebody.
Abandon(w) ==
  abandoned' = IF call[w].op # "paid" /\ call[w].pc \in Holding
                 THEN abandoned \cup {call[w].att} ELSE abandoned

\* Faulty variant: the error does not reach the webhook's inbox.
CatchSwallowed(w) ==
  /\ At(w, "failed")
  /\ doc' = [doc EXCEPT ![call[w].att].lock = FALSE]
  /\ Abandon(w)
  /\ After(w, FALSE)
  /\ UNCHANGED <<order, gateway, acked, settler, reopened, crashes>>

\* The catch block gives the lock back and throws on; confirmCashCollection
\* goes on to the cash.
Catch(w) ==
  LET op == call[w].op IN
  /\ At(w, "failed")
  /\ doc' = [doc EXCEPT ![call[w].att].lock = FALSE]
  /\ Abandon(w)
  /\ CASE op = "paid" -> Goto(w, "nack")
       [] op = "cash" -> Goto(w, "shut")
       [] OTHER -> Finish(w)
  /\ UNCHANGED <<order, gateway, acked, settler, reopened, crashes>>

-----------------------------------------------------------------------------
(* settlePaidAttempt, reconcileAttempt, closeAttempt. *)

\* The payment is the attempt's, late or not; claimed before, it is only
\* completed.
Settle(w) ==
  /\ At(w, "settle")
  /\ doc' = [doc EXCEPT ![call[w].att].status = "PAID"]
  /\ Goto(w, "lock")
  /\ UNCHANGED <<order, gateway, acked, history, crashes>>

\* What the gateway says of the code.  It may be out of reach, the customer's
\* payment may have failed, and the code may be past its time here only.  (That
\* a payment failed is of no matter once the code is over.)
Fetch(w) ==
  LET i == call[w].att IN
  /\ At(w, "fetch")
  /\ \/ After(w, FALSE)
     \/ gateway[i] = "paid" /\ Goto(w, "settle")
     \/ gateway[i] = "active" /\ \E pc \in {"mark", "stop"} : Goto(w, pc)
     \/ gateway[i] = "expired" /\ Goto(w, "expire")
     \/ gateway[i] = "closed" /\ \E pc \in {"tidy", "expire"} : Goto(w, pc)
  /\ UNCHANGED <<order, doc, gateway, acked, history, crashes>>

\* markFailed; an attempt past its time is then stopped too.
Mark(w) ==
  LET i == call[w].att IN
  /\ At(w, "mark")
  /\ doc' = [doc EXCEPT ![i].status = IF @ \in Open THEN "FAILED" ELSE @]
  /\ After(w, FALSE) \/ Goto(w, "stop")
  /\ UNCHANGED <<order, gateway, acked, history, crashes>>

\* "Stop any further payments, then re-check so a last-second payment is not
\* lost": a code that is closed stays as it is, so what the check sees is known
\* now; when either call fails the attempt is taken as expired.
Stop(w) ==
  LET i == call[w].att IN
  /\ At(w, "stop")
  /\ \/ UNCHANGED gateway /\ Goto(w, "expire")
     \/ gateway[i] = "active" /\ gateway' = [gateway EXCEPT ![i] = "closed"] /\ Goto(w, "expire")
     \/ gateway[i] = "paid" /\ UNCHANGED gateway /\ Goto(w, "settle")
  /\ UNCHANGED <<order, doc, acked, history, crashes>>

\* Faulty variant: the attempt is ended whatever was paid.
EndAnyway(w, from, status) ==
  doc' = [doc EXCEPT ![call[w].att] = [@ EXCEPT !.status = status, !.active = FALSE]]

\* The update of markExpired and closeAttempt: an attempt in one of the given
\* statuses, none of which has a payment, is over.
End(w, from, status) ==
  doc' = [doc EXCEPT ![call[w].att] =
            IF @.status \in from THEN [@ EXCEPT !.status = status, !.active = FALSE] ELSE @]

Expire(w) ==
  /\ At(w, "expire")
  /\ End(w, Open \cup {"FAILED"}, "EXPIRED")
  /\ After(w, FALSE)
  /\ UNCHANGED <<order, gateway, acked, history, crashes>>

Tidy(w) ==
  /\ At(w, "tidy")
  /\ End(w, Statuses \ {"PAID"}, "CLOSED")
  /\ After(w, FALSE)
  /\ UNCHANGED <<order, gateway, acked, history, crashes>>

-----------------------------------------------------------------------------
(* The webhooks. *)

\* claimWebhookEvent, processQrWebhookEvent: an event that no handler works on and
\* none acknowledged is claimed, after a failure or a death again; its code is on
\* record, so it is a payment of that attempt.
Webhook(w, i) ==
  /\ At(w, "idle") /\ gateway[i] = "paid"
  /\ i \notin acked /\ \A v \in Workers : ~(call[v].op = "paid" /\ call[v].att = i)
  /\ Enter(w, "paid", "settle", i)
  /\ UNCHANGED <<order, doc, gateway, acked, history, crashes>>

\* completeWebhookEvent.
Ack(w) ==
  /\ At(w, "ack")
  /\ acked' = acked \cup {call[w].att}
  /\ Finish(w)
  /\ UNCHANGED <<order, doc, gateway, history, crashes>>

\* failWebhookEvent: the gateway delivers the event again.
Nack(w) ==
  /\ At(w, "nack")
  /\ Finish(w)
  /\ UNCHANGED <<order, doc, gateway, acked, history, crashes>>

\* The attempt is reconciled: a paid one is completed, the gateway is asked about
\* one with a code.
Reconcile(w, op, i) ==
  IF doc[i].status = "PAID" THEN Enter(w, op, "lock", i)
                            ELSE doc[i].code /\ Enter(w, op, "fetch", i)

\* qr_code.closed: what the gateway says is applied.
ClosedEvent(w, i) ==
  /\ At(w, "idle") /\ gateway[i] \in {"expired", "closed", "paid"} /\ doc[i].code
  /\ Reconcile(w, "closed", i)
  /\ UNCHANGED <<order, doc, gateway, acked, history, crashes>>

-----------------------------------------------------------------------------
(* createOrReuseQr, verifyCodPayment. *)

Active(i) == doc[i].active
Stuck(i)  == doc[i].status = "PAID" /\ ~doc[i].finalized

StartQr(w) ==
  /\ At(w, "idle") /\ ~Delivered /\ order.awaiting /\ order.choice # "CASH"
  /\ \/ \E i \in Attempts : Active(i) /\ Reconcile(w, "qr", i)
     \/ \E i \in Attempts : Active(i) /\ ~doc[i].code /\ Enter(w, "qr", "reuse", i)
     \/ (\A i \in Attempts : ~Active(i)) /\ Enter(w, "qr", "create", NoAttempt)
  /\ UNCHANGED <<order, doc, gateway, acked, history, crashes>>

\* A payment whose completion failed is completed first.
StartVerify(w) ==
  /\ At(w, "idle") /\ order.awaiting
  /\ \/ \E i \in Attempts : Stuck(i) /\ Enter(w, "verify", "lock", i)
     \/ /\ ~Delivered /\ \A i \in Attempts : ~Stuck(i)
        /\ \E i \in Attempts : Active(i) /\ Reconcile(w, "verify", i)
  /\ UNCHANGED <<order, doc, gateway, acked, history, crashes>>

StartCash(w) ==
  /\ At(w, "idle") /\ ~Delivered /\ order.awaiting /\ order.choice # "RAZORPAY_QR"
  /\ \/ \E i \in Attempts : Active(i) /\ Reconcile(w, "cash", i)
     \/ \E i \in Attempts : Active(i) /\ ~doc[i].code /\ Enter(w, "cash", "shut", i)
     \/ (\A i \in Attempts : ~Active(i)) /\ Enter(w, "cash", "cash", NoAttempt)
  /\ UNCHANGED <<order, doc, gateway, acked, history, crashes>>

\* A live code is shown again, unless the rider asks for a new one, its amount
\* is stale or its time is over.
Reuse(w) ==
  LET i == call[w].att IN
  /\ At(w, "reuse")
  /\ \/ Active(i) /\ doc[i].code /\ doc[i].status = "PENDING" /\ Finish(w)
     \/ Goto(w, IF Active(i) THEN "shut" ELSE "create")
  /\ UNCHANGED <<order, doc, gateway, acked, history, crashes>>

\* closeAttempt: the code is closed at the gateway; a call that fails is ignored.
Shut(w) ==
  LET i == call[w].att IN
  /\ At(w, "shut")
  /\ \/ UNCHANGED gateway
     \/ /\ doc[i].code /\ gateway[i] = "active"
        /\ gateway' = [gateway EXCEPT ![i] = "closed"]
  /\ Goto(w, "close")
  /\ UNCHANGED <<order, doc, acked, history, crashes>>

Close(w) ==
  /\ At(w, "close")
  /\ End(w, Statuses \ {"PAID"}, "CLOSED")
  /\ Goto(w, IF call[w].op = "qr" THEN "create" ELSE "cash")
  /\ UNCHANGED <<order, gateway, acked, history, crashes>>

\* One live attempt per order; the one that is there is returned.
Create(w) ==
  LET used == {i \in Attempts : doc[i].status # "none"} IN
  /\ At(w, "create")
  /\ \/ /\ \A i \in Attempts : ~Active(i)
        /\ \E i \in Attempts \ used :
             /\ i = 1 \/ i - 1 \in used
             /\ doc' = [doc EXCEPT ![i].status = "CREATED", ![i].active = TRUE]
             /\ Visit(w, i, "gateway")
     \/ /\ (\E i \in Attempts : Active(i)) \/ used = Attempts
        /\ Finish(w) /\ UNCHANGED doc
  /\ UNCHANGED <<order, gateway, acked, history, crashes>>

\* createDynamicQr, or the payment link when there is no QR API.
Gateway(w) ==
  /\ At(w, "gateway")
  /\ \/ gateway' = [gateway EXCEPT ![call[w].att] = "active"] /\ Goto(w, "store")
     \/ UNCHANGED gateway /\ Goto(w, "discard")
  /\ UNCHANGED <<order, doc, acked, history, crashes>>

\* Both updates are by the attempt's id alone.
Store(w) ==
  /\ At(w, "store")
  /\ doc' = [doc EXCEPT ![call[w].att].code = TRUE, ![call[w].att].status = "PENDING"]
  /\ Finish(w)
  /\ UNCHANGED <<order, gateway, acked, history, crashes>>

\* Faulty variant: the name of the audit event is written as the status.
DiscardEvent(w) ==
  /\ At(w, "discard")
  /\ doc' = [doc EXCEPT ![call[w].att].status = "QR_CREATE_FAILED", ![call[w].att].active = FALSE]
  /\ Finish(w)
  /\ UNCHANGED <<order, gateway, acked, history, crashes>>

Discard(w) ==
  /\ At(w, "discard")
  /\ doc' = [doc EXCEPT ![call[w].att].status = "FAILED", ![call[w].att].active = FALSE]
  /\ Finish(w)
  /\ UNCHANGED <<order, gateway, acked, history, crashes>>

-----------------------------------------------------------------------------
(* confirmCashCollection. *)

\* Faulty variant: only the first confirmation can claim.
CashOnce(w) ==
  /\ At(w, "cash")
  /\ IF order.awaiting /\ order.choice = "none"
       THEN Goto(w, "hand") /\ order' = [order EXCEPT !.choice = "CASH"]
       ELSE Finish(w) /\ UNCHANGED order
  /\ UNCHANGED <<doc, gateway, acked, history, crashes>>

Cash(w) ==
  /\ At(w, "cash")
  /\ IF order.awaiting /\ order.choice \in {"none", "CASH"}
       THEN Goto(w, "hand") /\ order' = [order EXCEPT !.choice = "CASH"]
       ELSE Finish(w) /\ UNCHANGED order
  /\ UNCHANGED <<doc, gateway, acked, history, crashes>>

\* completeOutForDeliveryOrder; applyDeliveredSettlement then looks whether the
\* order is still one to be paid in cash.
HandOver(w) ==
  /\ At(w, "hand")
  /\ IF Delivered
       THEN Finish(w) /\ UNCHANGED order
       ELSE Hand("CASH") /\ Goto(w, IF order.credited = {} THEN "cod" ELSE "cashRow")
  /\ UNCHANGED <<doc, gateway, acked, history, crashes>>

\* handleCodOrderFinance, one transaction: it refuses an order paid online, and
\* the settlement ends there.
Cod(w) ==
  /\ At(w, "cod")
  /\ IF order.credited = {}
       THEN Goto(w, "cashRow") /\ order' = [order EXCEPT !.cash = TRUE]
       ELSE Finish(w) /\ UNCHANGED order
  /\ UNCHANGED <<doc, gateway, acked, history, crashes>>

CashRow(w) ==
  /\ At(w, "cashRow")
  /\ order' = [order EXCEPT !.row = Recorded]
  /\ Finish(w)
  /\ UNCHANGED <<doc, gateway, acked, history, crashes>>

\* The settlement of an order that the code delivered.
CodeRow(w) ==
  /\ At(w, "codeRow")
  /\ order' = [order EXCEPT !.row = Recorded]
  /\ Finish(w)
  /\ UNCHANGED <<doc, gateway, acked, history, crashes>>

-----------------------------------------------------------------------------
(* Faults. *)

\* The process of a handler dies; what it wrote stays, its lock included.
Crash(w) ==
  /\ ~At(w, "idle") /\ crashes < MaxCrash
  /\ crashes' = crashes + 1
  /\ Abandon(w)
  /\ Finish(w)
  /\ UNCHANGED <<order, doc, gateway, acked, settler, reopened>>

\* A database call fails inside ensureOrderCompleted's try.
Fail(w) ==
  /\ call[w].pc \in {"credit", "deliver", "finalize"} /\ crashes < MaxCrash
  /\ crashes' = crashes + 1
  /\ Goto(w, "failed")
  /\ UNCHANGED <<order, doc, gateway, acked, history>>

-----------------------------------------------------------------------------
Finalisation(w) ==
  \/ Lock(w) \/ Look(w) \/ Claim(w) \/ Credit(w) \/ Deliver(w) \/ Row(w)
  \/ Finalize(w) \/ Flag(w) \/ Unlock(w) \/ Catch(w)
Reconciliation(w) ==
  Settle(w) \/ Fetch(w) \/ Mark(w) \/ Stop(w) \/ Expire(w) \/ Tidy(w)
Request(w) ==
  \/ Begin(w) \/ Reuse(w) \/ Shut(w) \/ Close(w) \/ Create(w)
  \/ Gateway(w) \/ Store(w) \/ Discard(w) \/ Cash(w) \/ HandOver(w) \/ Cod(w) \/ CashRow(w)
  \/ HandOverByCode(w) \/ CodeRow(w)
Continue(w) == Finalisation(w) \/ Reconciliation(w) \/ Request(w) \/ Ack(w) \/ Nack(w)
Start(w) ==
  \/ StartOtp(w) \/ StartQr(w) \/ StartVerify(w) \/ StartCash(w)
  \/ \E i \in Attempts : Webhook(w, i) \/ ClosedEvent(w, i)

Next ==
  \/ \E i \in Attempts : CustomerPays(i) \/ CodeExpires(i)
  \/ \E w \in Workers : Start(w) \/ Continue(w) \/ Crash(w) \/ Fail(w)

Spec == Init /\ [][Next]_vars

\* A handler goes on, an event that was not acknowledged is delivered again, and
\* a rider who took the cash confirms it until the order is delivered.
Fairness ==
  /\ \A w \in Workers : WF_vars(Continue(w))
  /\ \A i \in Attempts : SF_vars(\E w \in Workers : Webhook(w, i))
  /\ SF_vars(\E w \in Workers : order.choice = "CASH" /\ StartCash(w))

FairSpec == Spec /\ Fairness

-----------------------------------------------------------------------------
(* Properties. *)

\* Type correctness.
TypeOK ==
  /\ order \in OrderType
  /\ doc \in [Attempts -> DocType]
  /\ gateway \in [Attempts -> {"none", "active", "paid", "expired", "closed"}]
  /\ acked \subseteq Attempts
  /\ call \in [Workers -> [op : Ops \cup {"none"}, pc : Pcs, att : Attempts \cup {NoAttempt}]]
  /\ settler \in Attempts \cup {NoAttempt}
  /\ reopened \in BOOLEAN
  /\ abandoned \subseteq Attempts
  /\ crashes \in 0..MaxCrash

\* The ledger, the rider's float and the collection row all agree with the one
\* method that was chosen at the door, however cash and payment interleave
\* (codQrPaymentService.js:403-411, 967-983), and so does the method of delivery:
\* only for a QR whose payment is in the ledger can the delivery code take its place
\* (orderWorkflowService.js:1853-1878).  Unless a second verification of the code
\* erased the choice in between.
BooksMatchChoice ==
  ~reopened =>
    /\ order.cash => order.choice = "CASH" /\ order.credited = {}
    /\ order.credited # {} => order.choice = "RAZORPAY_QR"
    /\ order.method \in Methods => order.method = order.choice
    /\ order.method = "CODE" => order.choice = "RAZORPAY_QR" /\ order.credited # {}
    /\ order.row \in {"none", IF order.method = "CODE" THEN "ONLINE_PREPAID" ELSE order.method}

\* The door without its handlers: what HandoffPromise is told of an order whose choice
\* was not erased.
Kept(value) == IF reopened THEN "none" ELSE value
Money == IF order.credited # {} THEN "RAZORPAY_QR" ELSE IF order.cash THEN "CASH" ELSE "none"
Promise == INSTANCE HandoffPromise WITH
  choice <- IF reopened THEN "erased" ELSE order.choice,
  money <- Kept(Money), method <- Kept(order.method), row <- Kept(order.row)

\* Whatever handlers race, the door goes through one order of steps: one choice, the
\* payment of a QR in the ledger before the order is handed over, for it or by the
\* delivery code, and the cash in the rider's float after, the collection's record last,
\* none twice; and a choice is not erased any more once the order is handed over
\* (codQrPaymentService.js:212-250, 403-449, 967-1004; orderWorkflowService.js:1853-1878).
PromiseKept == Promise!Spec

\* One attempt settles the order: only the one whose finalisation delivered it
\* is finalised, and it is never also listed for a refund, unless a handler died
\* or was overtaken, or the choice was erased (codQrPaymentService.js:374-401,
\* 456-460).
OneSettler ==
  \A i \in Attempts :
    /\ doc[i].finalized => settler = i
    /\ doc[i].flagged /\ crashes = 0 /\ ~Slow /\ ~reopened => settler # i

\* A payment recorded on an attempt is never lost again, whoever expires, closes,
\* fails or stores the attempt at the same time (codQrPaymentService.js:275, 291,
\* 313, 856).
PaymentStands ==
  [][\A i \in Attempts : doc[i].status = "PAID" => doc'[i].status = "PAID"]_vars

\* Every payment of a code is answered: it completes the order or is listed for
\* a refund, unless a handler that nobody reruns gave up while it held the lock
\* (codQrPaymentService.js:384-388, 468-475).  A payment is final, so that it is answered
\* when again and again all are.
PaidIsAnswered ==
  []<>(\A i \in Attempts :
         gateway[i] = "paid" => doc[i].finalized \/ doc[i].flagged \/ i \in abandoned)

\* A choice of cash leads to a delivered order although the claim and the
\* delivery are two updates (codQrPaymentService.js:967-1004): again and again nobody
\* waits with cash chosen, and only an erasure takes a choice back.
CashChoiceCompletes ==
  []<>(order.choice = "CASH" => Delivered \/ reopened)

=============================================================================

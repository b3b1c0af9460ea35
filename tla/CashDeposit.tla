----------------------------- MODULE CashDeposit -----------------------------
(***************************************************************************)
(* A rider hands in the cash he collected                                  *)
(* (backend/app/services/cashSettlement, orderFinanceService.js).          *)
(*                                                                         *)
(* A deposit is cash or a bank transfer that an administrator verifies, or *)
(* a payment through Razorpay Checkout that the gateway confirms to a      *)
(* webhook or to the rider's verification request.  Either way one         *)
(* handler claims it as APPROVING, one transaction allocates the money to  *)
(* the rider's oldest orders, and a failure gives the claim back.  The     *)
(* older screens remit cash order by order without a deposit.  `call[w]'   *)
(* is a handler: pc its next call to the database or the gateway, dep the  *)
(* deposit it works on, pay and ev the payment and the webhook's event,    *)
(* amount the money it moves, plan what it read for each order.            *)
(***************************************************************************)
EXTENDS Integers, Functions

CONSTANTS
  MaxOrders,    \* bound: orders paid in cash, by the time of their collection
  Amount,       \* the cash collected for each
  MaxDeposits,  \* bound: CashDeposit documents
  Refs,         \* UTRs and receipt numbers of the rider's transfers
  Claims,       \* amounts that are claimed, paid or remitted
  Checks,       \* amounts an administrator verifies
  MaxPayments,  \* bound: captured payments
  Events,       \* the webhook events that tell of one capture
  Workers,      \* slots for concurrent handlers
  Serves,       \* the handlers each slot runs
  MaxCrash      \* bound: handlers that die and database calls that fail

Orders == 1..MaxOrders
Deposits == 1..MaxDeposits
Payments == 1..MaxPayments
Ops == {"submit", "admin", "pay", "verify", "hook", "hand"}
None == 0

ASSUME BoundAssumption == {MaxOrders, MaxDeposits, MaxPayments, MaxCrash} \subseteq Nat
ASSUME AmountAssumption == Amount \in [Orders -> Nat \ {0}] /\ Claims \cup Checks \subseteq Nat \ {0}
ASSUME RefsAssumption == None \notin Refs
ASSUME ServesAssumption == Serves \in [Workers -> SUBSET Ops]

VARIABLES
  collected,    \* the orders delivered so far are 1..collected
  remitted,     \* codRemittedAmount of each order
  handed,       \* the part of it that was remitted without a deposit
  dep,          \* the deposits, see DepType
  captured,     \* the deposit whose Razorpay order each captured payment is for
  reported,     \* duplicate payments the administrators were told of
  acked,        \* acknowledged webhook events
  lost,         \* history: deposits whose approval nobody reruns
  call,         \* the handlers
  crashes

vars == <<collected, remitted, handed, dep, captured, reported, acked, lost, call, crashes>>
cash == <<collected, remitted, handed>>
gateway == <<captured, reported, acked, lost>>

Settled == {"APPROVED", "PARTIALLY_APPROVED"}
Final == Settled \cup {"REJECTED"}
Unpaid == {"PAYMENT_PENDING", "PAYMENT_FAILED"}
Statuses == {"none", "SUBMITTED", "APPROVING"} \cup Final \cup Unpaid
DepType ==
  [status : Statuses,
   pay : {"none", "PENDING", "FAILED", "PAID"},   \* paymentStatus
   payment : Payments \cup {None},                \* razorpayPaymentId
   checkout : BOOLEAN,                            \* razorpayOrderId is set
   ref : Refs \cup {None},                        \* utr, receiptNumber
   reserved : BOOLEAN,                            \* utrKey, receiptKey is set
   amount : Nat, verified : Nat, excess : Nat,
   allocated : [Orders -> Nat]]
Nothing == [o \in Orders |-> 0]
Blank == [status |-> "none", pay |-> "none", payment |-> None, checkout |-> FALSE,
          ref |-> None, reserved |-> FALSE, amount |-> 0, verified |-> 0, excess |-> 0,
          allocated |-> Nothing]

Pcs == {"idle", "claim", "allocate", "revert", "create", "gateway",
        "settle", "report", "ack", "hand"}
Approving == {"allocate", "revert"}
Idle == [op |-> "none", pc |-> "idle", dep |-> None, pay |-> None, ev |-> "none",
         amount |-> 0, plan |-> Nothing]

At(w, pc)   == call[w].pc = pc
Goto(w, pc) == call' = [call EXCEPT ![w].pc = pc]
Visit(w, d, pc) == call' = [call EXCEPT ![w].dep = d, ![w].pc = pc]
Finish(w)   == call' = [call EXCEPT ![w] = Idle]
Enter(w, a) == At(w, "idle") /\ a.op \in Serves[w] /\ call' = [call EXCEPT ![w] = a]
Start(op, pc) == [Idle EXCEPT !.op = op, !.pc = pc]
\* A webhook's event is acknowledged when it is processed.
Done(w) == IF call[w].op = "hook" THEN Goto(w, "ack") ELSE Finish(w)

Init ==
  /\ collected = 0 /\ remitted = Nothing /\ handed = Nothing
  /\ dep = [d \in Deposits |-> Blank]
  /\ captured = [p \in Payments |-> None]
  /\ reported = {} /\ acked = {} /\ lost = {}
  /\ call = [w \in Workers |-> Idle]
  /\ crashes = 0

-----------------------------------------------------------------------------
(* The cash position (position.js) and its allocation. *)

Total(f) == SumFunction(f)
Pending == [o \in Orders |-> IF o <= collected THEN Amount[o] - remitted[o] ELSE 0]

\* Faulty variant: the collections are read in the wrong order.
FillsNewest(a, left, v) ==
  /\ \A o \in Orders : a[o] <= Pending[o]
  /\ \A o, p \in Orders : p < o /\ a[p] > 0 => a[o] = Pending[o]
  /\ left > 0 => a = Pending
  /\ Total(a) + left = v

\* How v is spread over what is pending, the oldest order first: what each order gets,
\* and what is left when nothing is pending any more.
Fills(a, left, v) ==
  /\ \A o \in Orders : a[o] <= Pending[o]
  /\ \A o, p \in Orders : o < p /\ a[p] > 0 => a[o] = Pending[o]
  /\ left > 0 => a = Pending
  /\ Total(a) + left = v

\* An order is delivered and its cash collected.
Collect ==
  /\ collected < MaxOrders
  /\ collected' = collected + 1
  /\ UNCHANGED <<remitted, handed, dep, gateway, call, crashes>>

-----------------------------------------------------------------------------
(* submitDeposit, createAdjustment. *)

\* The next document of the collection.
New(d) == dep[d].status = "none" /\ \A e \in Deposits : e < d => dep[e].status # "none"

\* Nothing holds the cash back that a deposit covers: another may cover it too.  A
\* reference is reserved by one deposit at a time (and a request repeated with its
\* idempotency key finds the deposit it made).
Submit(w) ==
  /\ At(w, "idle") /\ "submit" \in Serves[w] /\ Total(Pending) > 0
  /\ \E d \in Deposits, v \in Claims, r \in Refs :
       /\ New(d) /\ \A e \in Deposits : ~(dep[e].ref = r /\ dep[e].reserved)
       /\ dep' = [dep EXCEPT ![d].status = "SUBMITTED", ![d].amount = v,
                             ![d].ref = r, ![d].reserved = TRUE]
  /\ UNCHANGED <<cash, gateway, call, crashes>>

\* An adjustment is a deposit without a reference that is approved at once.
Adjust(w) ==
  /\ \E d \in Deposits, v \in Claims :
       /\ New(d)
       /\ dep' = [dep EXCEPT ![d].status = "SUBMITTED", ![d].amount = v]
       /\ Enter(w, [Start("admin", "claim") EXCEPT !.dep = d, !.amount = v])
  /\ UNCHANGED <<cash, gateway, crashes>>

-----------------------------------------------------------------------------
(* approveDeposit, rejectDeposit. *)

\* What an administrator verified, and the whole payment of the gateway.
Verified(w) == IF call[w].op = "admin" THEN call[w].amount ELSE dep[call[w].dep].amount

\* Faulty variant: an administrator can also approve what was rejected.
ClaimableAgain(d, op) ==
  \/ op = "admin" /\ dep[d].status \in {"SUBMITTED", "REJECTED"}
  \/ op # "admin" /\ dep[d].status \in Unpaid /\ dep[d].pay = "PAID"

\* An administrator's claim is for a deposit that was submitted, the gateway's for
\* one that was paid.
Claimable(d, op) ==
  \/ op = "admin" /\ dep[d].status = "SUBMITTED"
  \/ op # "admin" /\ dep[d].status \in Unpaid /\ dep[d].pay = "PAID"

\* Who comes too late is done: the administrator gets an error, and the gateway's
\* payment is taken as settled already.
Claim(w) ==
  LET d == call[w].dep IN
  /\ At(w, "claim")
  /\ IF Claimable(d, call[w].op)
       THEN dep' = [dep EXCEPT ![d].status = "APPROVING"] /\ Goto(w, "allocate")
       ELSE UNCHANGED dep /\ Done(w)
  /\ UNCHANGED <<cash, gateway, crashes>>

\* An administrator verifies a deposit; an amount above the claimed one gives it
\* back.
Approve(w) ==
  /\ \E d \in Deposits, v \in Checks :
       /\ Claimable(d, "admin")
       /\ dep' = [dep EXCEPT ![d].status = "APPROVING"]
       /\ Enter(w, [Start("admin", IF v > dep[d].amount THEN "revert" ELSE "allocate")
                      EXCEPT !.dep = d, !.amount = v])
  /\ UNCHANGED <<cash, gateway, crashes>>

\* The transaction reads the position, remits the orders and closes the deposit.
Commit(w) ==
  LET d == call[w].dep  v == Verified(w) IN
  \E a \in [Orders -> 0..v], left \in 0..v :
    /\ Fills(a, left, v)
    /\ remitted' = [o \in Orders |-> remitted[o] + a[o]]
    /\ dep' = [dep EXCEPT ![d] =
         [@ EXCEPT !.status = IF v < dep[d].amount THEN "PARTIALLY_APPROVED" ELSE "APPROVED",
                   !.verified = v, !.excess = left, !.allocated = a]]

Allocate(w) ==
  /\ At(w, "allocate")
  /\ IF dep[call[w].dep].status = "APPROVING"
       THEN Commit(w) /\ Done(w)
       ELSE UNCHANGED <<remitted, dep>> /\ Goto(w, "revert")
  /\ UNCHANGED <<collected, handed, gateway, crashes>>

\* A webhook of d's payment is still to run.
Pursued(d) ==
  \E e \in Events :
    /\ <<dep[d].payment, e>> \notin acked
    /\ \A v \in Workers : ~(At(v, "ack") /\ call[v].pay = dep[d].payment /\ call[v].ev = e)

\* A webhook that fails is delivered again (failWebhookEvent), a request of the rider
\* is not.
Abandon(w, d) ==
  lost' = IF call[w].op = "verify" /\ ~Pursued(d) THEN lost \cup {d} ELSE lost

\* Faulty variant: the claim is given back whatever became of the deposit.
RevertAnyway(w) ==
  LET d == call[w].dep IN
  /\ At(w, "revert")
  /\ dep' = [dep EXCEPT ![d].status =
               IF call[w].op = "admin" THEN "SUBMITTED" ELSE "PAYMENT_PENDING"]
  /\ Finish(w)
  /\ Abandon(w, d)
  /\ UNCHANGED <<cash, captured, reported, acked, crashes>>

Revert(w) ==
  LET d == call[w].dep IN
  /\ At(w, "revert")
  /\ dep' = [dep EXCEPT ![d].status =
               IF @ # "APPROVING" THEN @
               ELSE IF call[w].op = "admin" THEN "SUBMITTED" ELSE "PAYMENT_PENDING"]
  /\ Finish(w)
  /\ Abandon(w, d)
  /\ UNCHANGED <<cash, captured, reported, acked, crashes>>

\* The reference is free again, "so the captain can resubmit with correct proof".
Reject(w) ==
  /\ At(w, "idle") /\ "admin" \in Serves[w]
  /\ \E d \in Deposits :
       /\ dep[d].status = "SUBMITTED"
       /\ dep' = [dep EXCEPT ![d].status = "REJECTED", ![d].reserved = FALSE]
  /\ UNCHANGED <<cash, gateway, call, crashes>>

-----------------------------------------------------------------------------
(* createRazorpayDeposit, sweepAbandonedRazorpayDeposits. *)

Waiting(d) == dep[d].status = "PAYMENT_PENDING" /\ dep[d].pay = "PENDING"

\* The attempts that are old enough are closed as failed, by the job for all riders.
Abandoned(S) ==
  dep' = [d \in Deposits |->
            IF d \in S THEN [dep[d] EXCEPT !.status = "PAYMENT_FAILED", !.pay = "FAILED"] ELSE dep[d]]

JobSweep ==
  /\ \E d \in Deposits : Waiting(d) /\ Abandoned({d})
  /\ UNCHANGED <<cash, gateway, call, crashes>>

\* The amount is checked against the position, the rider's old attempts are closed,
\* and a deposit of that amount which waits for its payment is used again.
StartPay(w) ==
  /\ \E v \in Claims :
       /\ v <= Total(Pending)
       /\ \E S \in SUBSET {d \in Deposits : Waiting(d)} :
            /\ Abandoned(S)
            /\ IF \E d \in Deposits \ S : Waiting(d) /\ dep[d].checkout /\ dep[d].amount = v
                 THEN At(w, "idle") /\ "pay" \in Serves[w] /\ UNCHANGED call
                 ELSE Enter(w, [Start("pay", "create") EXCEPT !.amount = v])
  /\ UNCHANGED <<cash, gateway, crashes>>

Create(w) ==
  /\ At(w, "create")
  /\ \/ \E d \in Deposits :
          /\ New(d)
          /\ dep' = [dep EXCEPT ![d].status = "PAYMENT_PENDING", ![d].pay = "PENDING",
                                ![d].amount = call[w].amount]
          /\ Visit(w, d, "gateway")
     \/ (\A d \in Deposits : ~New(d)) /\ Finish(w) /\ UNCHANGED dep
  /\ UNCHANGED <<cash, gateway, crashes>>

\* Faulty variant: the payment's status is written as the deposit's.
GatewayFailed(w) ==
  /\ At(w, "gateway")
  /\ dep' = [dep EXCEPT ![call[w].dep].status = "FAILED", ![call[w].dep].pay = "FAILED"]
  /\ Finish(w)
  /\ UNCHANGED <<cash, gateway, crashes>>

\* The gateway's order is made and stored, or the deposit has failed.
Gateway(w) ==
  /\ At(w, "gateway")
  /\ \/ dep' = [dep EXCEPT ![call[w].dep].checkout = TRUE]
     \/ dep' = [dep EXCEPT ![call[w].dep].status = "PAYMENT_FAILED", ![call[w].dep].pay = "FAILED"]
  /\ Finish(w)
  /\ UNCHANGED <<cash, gateway, crashes>>

\* The rider pays an order he was given, at times a second time.
RiderPays(p) ==
  /\ captured[p] = None /\ \A q \in Payments : q < p => captured[q] # None
  /\ \E d \in Deposits : dep[d].checkout /\ captured' = [captured EXCEPT ![p] = d]
  /\ UNCHANGED <<cash, dep, reported, acked, lost, call, crashes>>

-----------------------------------------------------------------------------
(* verifyRazorpayDeposit, processDepositPaymentEvent, settleVerifiedPayment. *)

\* The gateway shows a captured payment of the order; a deposit that is approved is
\* not looked up.
StartVerify(w) ==
  /\ \E p \in Payments :
       /\ captured[p] # None /\ dep[captured[p]].status \notin Settled
       /\ Enter(w, [Start("verify", "settle") EXCEPT !.dep = captured[p], !.pay = p])
  /\ UNCHANGED <<cash, dep, gateway, crashes>>

\* An event that nobody works on and nobody acknowledged is processed.
Webhook(w, p, e) ==
  /\ captured[p] # None /\ <<p, e>> \notin acked
  /\ \A v \in Workers : ~(call[v].pay = p /\ call[v].ev = e)
  /\ Enter(w, [Start("hook", "settle") EXCEPT !.dep = captured[p], !.pay = p, !.ev = e])
  /\ UNCHANGED <<cash, dep, gateway, crashes>>

\* The first payment is recorded; the same one again only completes the deposit.
Settle(w) ==
  LET d == call[w].dep  p == call[w].pay IN
  /\ At(w, "settle")
  /\ dep' = [dep EXCEPT ![d] =
               IF @.payment = None THEN [@ EXCEPT !.payment = p, !.pay = "PAID"] ELSE @]
  /\ IF dep[d].payment \notin {None, p} THEN Goto(w, "report")
     ELSE IF dep[d].status \in Settled THEN Done(w)
     ELSE Goto(w, "claim")
  /\ UNCHANGED <<cash, gateway, crashes>>

\* "Keep the first, flag the second."
Report(w) ==
  /\ At(w, "report")
  /\ reported' = reported \cup {call[w].pay}
  /\ Done(w)
  /\ UNCHANGED <<cash, dep, captured, acked, lost, crashes>>

\* Faulty variant: a payment that was recorded meanwhile is not looked at.
FailAnyway(d) ==
  /\ dep[d].checkout
  /\ dep' = [dep EXCEPT ![d].status = "PAYMENT_FAILED", ![d].pay = "FAILED"]
  /\ UNCHANGED <<cash, gateway, call, crashes>>

\* markFailedAttempt: the rider's verification finds, or an event says, maybe late,
\* that a payment failed.
Fail(d) ==
  /\ dep[d].checkout /\ dep[d].pay # "PAID"
  /\ dep' = [dep EXCEPT ![d].status = "PAYMENT_FAILED", ![d].pay = "FAILED"]
  /\ UNCHANGED <<cash, gateway, call, crashes>>

\* completeWebhookEvent.
Ack(w) ==
  /\ At(w, "ack")
  /\ acked' = acked \cup {<<call[w].pay, call[w].ev>>}
  /\ Finish(w)
  /\ UNCHANGED <<cash, dep, captured, reported, lost, crashes>>

-----------------------------------------------------------------------------
(* Cash remitted without a deposit: submitDeliveryCodCashToAdmin, verifyCodDeposit,
   and for one order remitCod and reconcileCodCashSubmission. *)

StartHand(w) ==
  /\ \/ \E v \in Claims : \E a \in [Orders -> 0..v] \ {Nothing}, left \in 0..v :
          Fills(a, left, v) /\ Enter(w, [Start("hand", "hand") EXCEPT !.plan = a])
     \/ \E v \in Claims, o \in Orders :
          /\ v <= Pending[o]
          /\ Enter(w, [Start("hand", "hand") EXCEPT !.plan[o] = v])
  /\ UNCHANGED <<cash, dep, gateway, crashes>>

\* Faulty variant: reconcileCodCash does not read the order again.
HandPlanned(w) ==
  /\ At(w, "hand")
  /\ IF \E o \in Orders : call[w].plan[o] > 0
       THEN \E o \in Orders :
         /\ call[w].plan[o] > 0 /\ \A p \in Orders : p < o => call[w].plan[p] = 0
         /\ remitted' = [remitted EXCEPT ![o] = @ + call[w].plan[o]]
         /\ handed' = [handed EXCEPT ![o] = @ + call[w].plan[o]]
         /\ call' = [call EXCEPT ![w].plan[o] = 0]
       ELSE Finish(w) /\ UNCHANGED <<remitted, handed>>
  /\ UNCHANGED <<collected, dep, gateway, crashes>>

\* reconcileCodCash, a transaction for each order; one it refuses ends the request.
Hand(w) ==
  LET due == {o \in Orders : call[w].plan[o] > 0} IN
  /\ At(w, "hand")
  /\ IF \E o \in due : (\A p \in due : o <= p) /\ call[w].plan[o] <= Pending[o]
       THEN \E o \in due :
         /\ \A p \in due : o <= p
         /\ remitted' = [remitted EXCEPT ![o] = @ + call[w].plan[o]]
         /\ handed' = [handed EXCEPT ![o] = @ + call[w].plan[o]]
         /\ call' = [call EXCEPT ![w].plan[o] = 0]
       ELSE Finish(w) /\ UNCHANGED <<remitted, handed>>
  /\ UNCHANGED <<collected, dep, gateway, crashes>>

-----------------------------------------------------------------------------
(* Faults. *)

\* The process of a handler dies; a deposit it approves stays APPROVING.
Crash(w) ==
  /\ ~At(w, "idle") /\ crashes < MaxCrash
  /\ crashes' = crashes + 1
  /\ Finish(w)
  /\ lost' = IF call[w].pc \in Approving THEN lost \cup {call[w].dep} ELSE lost
  /\ UNCHANGED <<cash, dep, captured, reported, acked>>

\* The transaction fails, or only the answer to its commit is lost.
Unsure(w) ==
  /\ At(w, "allocate") /\ dep[call[w].dep].status = "APPROVING" /\ crashes < MaxCrash
  /\ crashes' = crashes + 1
  /\ Commit(w) \/ UNCHANGED <<remitted, dep>>
  /\ Goto(w, "revert")
  /\ UNCHANGED <<collected, handed, gateway>>

-----------------------------------------------------------------------------
Continue(w) ==
  \/ Claim(w) \/ Allocate(w) \/ Revert(w) \/ Create(w) \/ Gateway(w) \/ Settle(w)
  \/ Report(w) \/ Ack(w) \/ Hand(w)
Open(w) ==
  \/ Submit(w) \/ Adjust(w) \/ Approve(w) \/ Reject(w) \/ StartPay(w) \/ StartVerify(w)
  \/ StartHand(w)
  \/ \E p \in Payments, e \in Events : Webhook(w, p, e)

Next ==
  \/ Collect \/ JobSweep
  \/ (\E p \in Payments : RiderPays(p)) \/ (\E d \in Deposits : Fail(d))
  \/ \E w \in Workers : Open(w) \/ Continue(w) \/ Crash(w) \/ Unsure(w)

Spec == Init /\ [][Next]_vars

\* A handler goes on, and an event that was not acknowledged is delivered again.
Fairness ==
  /\ \A w \in Workers : WF_vars(Continue(w))
  /\ \A p \in Payments, e \in Events : SF_vars(\E w \in Workers : Webhook(w, p, e))

FairSpec == Spec /\ Fairness

-----------------------------------------------------------------------------
(* Properties. *)

\* Type correctness.
TypeOK ==
  /\ collected \in 0..MaxOrders
  /\ remitted \in [Orders -> Nat] /\ handed \in [Orders -> Nat]
  /\ dep \in [Deposits -> DepType]
  /\ captured \in [Payments -> Deposits \cup {None}]
  /\ reported \subseteq Payments
  /\ acked \subseteq Payments \X Events
  /\ lost \subseteq Deposits
  /\ call \in [Workers -> [op : Ops \cup {"none"}, pc : Pcs, dep : Deposits \cup {None},
                           pay : Payments \cup {None}, ev : Events \cup {"none"},
                           amount : Nat, plan : [Orders -> Nat]]]
  /\ crashes \in 0..MaxCrash

\* No order is remitted more than was collected.
WithinCollected == \A o \in Orders : remitted[o] <= IF o <= collected THEN Amount[o] ELSE 0

\* What an approved deposit verified is allocated or on record as an excess, and a
\* deposit that is not approved has allocated nothing.
DepositsBalance ==
  \A d \in Deposits :
    IF dep[d].status \in Settled
      THEN Total(dep[d].allocated) + dep[d].excess = dep[d].verified
      ELSE dep[d].allocated = Nothing

\* A deposit's money went to the oldest orders: an order got some of it only when
\* the ones before it are fully remitted (depositService.js:219-234).
OldestFirst ==
  \A d \in Deposits, o, p \in Orders :
    o < p /\ dep[d].allocated[p] > 0 => remitted[o] = Amount[o]

\* No rupee is counted twice or lost between the orders and the deposits, whoever
\* approves and remits at the same time: an order is remitted what the approved
\* deposits and the remittances without one gave it, at most what was collected,
\* and what a deposit verified is allocated or on record as an excess
\* (depositService.js:216-258, orderFinanceService.js:633-735).
BooksBalance ==
  /\ \A o \in Orders :
       remitted[o] = handed[o] + Total([d \in Deposits |-> dep[d].allocated[o]])
  /\ WithinCollected
  /\ DepositsBalance
  /\ OldestFirst

\* One transfer settles one deposit: of the deposits with the same UTR or receipt,
\* at most one is approved or may still be, although a rejection frees the
\* reference for another (depositService.js:111-147, 177-189, 364-379).
OneCreditPerTransfer ==
  \A d, e \in Deposits :
    d # e /\ dep[d].ref = dep[e].ref /\ dep[d].ref # None
      => "REJECTED" \in {dep[d].status, dep[e].status}

\* A decided deposit, and the payment recorded on one, stay as they are, whatever
\* arrives later (depositService.js:199-208, razorpayDepositService.js:58-72, 253-275).
DecisionStands ==
  [][\A d \in Deposits :
       /\ dep[d].status \in Final => dep'[d] = dep[d]
       /\ dep[d].pay = "PAID" => dep'[d].pay = "PAID" /\ dep'[d].payment = dep[d].payment]_vars

Verdict(d) ==
  CASE dep[d].status \in Settled -> "approved"
    [] dep[d].status = "REJECTED" -> "rejected"
    [] OTHER -> "open"

Promise == INSTANCE DepositPromise WITH
  Owed <- Amount,
  cash <- [o \in Orders |-> IF o <= collected THEN Amount[o] ELSE 0],
  paid <- remitted, direct <- handed,
  share <- [d \in Deposits |-> dep[d].allocated],
  verdict <- [d \in Deposits |-> Verdict(d)]

\* However the claims, transactions, failures and repetitions of the handlers
\* interleave, each deposit is decided in one step, which moves all of its money,
\* and the books change in no other way (depositService.js:199-258, 364-379,
\* razorpayDepositService.js:58-72, orderFinanceService.js:633-735).
PromiseKept == Promise!Spec

Answered(p) ==
  \/ p \in reported
  \/ \E d \in Deposits : /\ captured[p] = d
                         /\ (dep[d].status \in Settled /\ dep[d].payment = p) \/ d \in lost

\* Every captured payment settles its deposit or is reported as a duplicate, late,
\* repeated or raced by the rider's verification, unless a handler that nobody
\* reruns gave up while it approved (razorpayDepositService.js:195-249, 355-398).
PaidIsSettled == \A p \in Payments : captured[p] # None ~> Answered(p)

=============================================================================

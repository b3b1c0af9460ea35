-------------------------- MODULE ReturnSettlement --------------------------
(***************************************************************************)
(* A delivered order is settled and may come back                          *)
(* (backend/app/services/order/orderReturnService.js, finance/             *)
(* orderFinanceService.js and payoutService.js, orderController.js,        *)
(* orderWorkflowController.js, returnWindowReleaseJob.js).                 *)
(*                                                                         *)
(* The settlement queues the seller's payout and holds it until the return *)
(* window is over.  A return is requested, approved, picked up by a rider, *)
(* dropped at the seller and refunded; the refund cancels a held payout    *)
(* and recovers the share of the returned items from one that is not held. *)
(* `call[w]' is a handler: pc its next call to the database, ret and rider *)
(* the values it is about to save, or Same for what it found already.      *)
(***************************************************************************)
EXTENDS Integers

CONSTANTS
  Riders,       \* delivery partners
  Earning,      \* the seller's payout for the order
  Shares,       \* the part of it that the returned items may stand for
  AutoRelease,  \* AUTO_RELEASE_SELLER_PAYOUT
  Workers,      \* slots for concurrent handlers
  Serves,       \* the handlers each slot runs
  MaxCrash      \* bound: handlers that die

Ops == {"settle", "request", "approve", "reject", "assign", "qc",
        "accept", "decline", "pickup", "arrive", "drop", "status", "job"}
Codes == {"pickup", "drop"}
None == "none"
Same == "same"

ASSUME EarningAssumption == Earning \in Nat \ {0} /\ Shares \subseteq 1..Earning
ASSUME SettingAssumption == AutoRelease \in BOOLEAN /\ MaxCrash \in Nat
ASSUME ServesAssumption == Serves \in [Workers -> SUBSET Ops]
ASSUME RidersAssumption == {None, Same} \cap Riders = {}

VARIABLES
  order,    \* the fields of the order, see OrderType
  payout,   \* status of the seller's Payout document
  books,    \* wallet movements, see BooksType
  code,     \* the OTP of the pickup and of the drop that can still be used
  over,     \* the return window has ended
  offered,  \* the pickup was offered to the riders nearby
  reheld,   \* history: a settlement held a payout that was processed before
  call,     \* the handlers
  crashes

vars == <<order, payout, books, code, over, offered, reheld, call, crashes>>

Statuses ==
  {None, "return_requested", "return_rejected", "return_approved",
   "return_pickup_assigned", "return_in_transit", "return_drop_pending",
   "returned", "qc_passed", "qc_failed", "refund_completed"}
OrderType ==
  [ret : Statuses,                  \* returnStatus
   rider : Riders \cup {None},      \* returnDeliveryBoy
   window : BOOLEAN,                \* returnWindowExpiresAt is set
   settled : BOOLEAN,               \* deliveredSettlementApplied
   pay : {"PENDING", "HOLD", "COMPLETED", "CANCELLED"},  \* and sellerPayoutHeld: HOLD
   share : Shares \cup {0},         \* the seller's share of the returnItems
   commission : BOOLEAN,            \* returnDeliveryCommission is set
   commissionPaid : BOOLEAN]        \* returnPickupCommissionPaid
BooksType ==
  [paid : BOOLEAN,                  \* the payout is in the seller's wallet
   back : Nat,                      \* debited to the seller for returned items
   refunds : 0..2,                  \* credits to the customer, two for more
   rides : 0..2]                    \* credits to the rider, two for more
NewOrder == [ret |-> None, rider |-> None, window |-> FALSE, settled |-> FALSE,
             pay |-> "PENDING", share |-> 0, commission |-> FALSE, commissionPaid |-> FALSE]
NoBooks == [paid |-> FALSE, back |-> 0, refunds |-> 0, rides |-> 0]

Pcs == {"idle", "queue", "commit", "code", "save", "refund", "credit", "release"}
Idle == [op |-> "none", pc |-> "idle", ret |-> Same, rider |-> Same,
         share |-> 0, due |-> FALSE, hold |-> FALSE, stale |-> FALSE]

At(w, pc)   == call[w].pc = pc
Goto(w, pc) == call' = [call EXCEPT ![w].pc = pc]
Finish(w)   == call' = [call EXCEPT ![w] = Idle]
Enter(w, a) == At(w, "idle") /\ a.op \in Serves[w] /\ call' = [call EXCEPT ![w] = a]
Twice(n) == IF n < 2 THEN n + 1 ELSE 2

Init ==
  /\ order = NewOrder /\ payout = "none" /\ books = NoBooks
  /\ code = [k \in Codes |-> FALSE]
  /\ over = FALSE /\ offered = FALSE /\ reheld = FALSE
  /\ call = [w \in Workers |-> Idle]
  /\ crashes = 0

-----------------------------------------------------------------------------
(* Reading and writing the order. *)

\* A handler saves the fields it changed: a value it found already is not written.
Change(field, v) == IF order[field] = v THEN Same ELSE v
Written(field, v) == IF v = Same THEN order[field] ELSE v
Saving(op, ret) == [Idle EXCEPT !.op = op, !.pc = "save", !.ret = Change("ret", ret)]

\* Handlers that replace a list of the order, which fails when a list was changed
\* since they read it (VersionError).
Lists == {"request", "approve"}
Changers == Lists \cup {"decline"}

\* After a write a settlement that read the order before it conflicts, and so does a
\* handler that replaces a list when the write changed one.
Outdated(op) ==
  [v \in Workers |->
    IF call[v].op = "settle" \/ (op \in Changers /\ call[v].op \in Lists)
      THEN [call[v] EXCEPT !.stale = TRUE] ELSE call[v]]

-----------------------------------------------------------------------------
(* settleDeliveredOrder, createPendingPayoutForOrder. *)

\* The transaction reads the order, and the time that decides on the hold.
StartSettle(w) ==
  /\ ~order.settled
  /\ Enter(w, [Idle EXCEPT !.op = "settle", !.pc = "queue", !.hold = ~over])
  /\ UNCHANGED <<order, payout, books, code, over, offered, reheld, crashes>>

\* The payout is created in a transaction of its own, unless there is one.
Queue(w) ==
  /\ At(w, "queue")
  /\ payout' = IF payout \in {"none", "CANCELLED"} THEN "PENDING" ELSE payout
  /\ Goto(w, "commit")
  /\ UNCHANGED <<order, books, code, over, offered, reheld, crashes>>

\* A settlement that is run again after the payout was processed leaves its status
\* as it is, but holds it.
Commit(w) ==
  /\ At(w, "commit")
  /\ IF call[w].stale
       THEN Finish(w) /\ UNCHANGED <<order, reheld>>
       ELSE /\ order' = [order EXCEPT !.settled = TRUE, !.window = TRUE,
                                      !.pay = IF call[w].hold THEN "HOLD" ELSE @]
            /\ reheld' = (reheld \/ (call[w].hold /\ payout = "COMPLETED"))
            /\ call' = [Outdated("settle") EXCEPT ![w] = Idle]
  /\ UNCHANGED <<payout, books, code, over, offered, crashes>>

-----------------------------------------------------------------------------
(* processPayout: by the administrators, the release job and a failed QC. *)

OnHold == order.pay = "HOLD" /\ order.window /\ ~over
Pay ==
  /\ payout' = "COMPLETED"
  /\ books' = [books EXCEPT !.paid = TRUE]
  /\ order' = [order EXCEPT !.pay = "COMPLETED"]

Process ==
  /\ payout = "PENDING" /\ ~OnHold
  /\ Pay
  /\ call' = Outdated("process")
  /\ UNCHANGED <<code, over, offered, reheld, crashes>>

\* Faulty variant: the job looks for payouts without a hold.
StartJobPending(w) ==
  /\ order.ret = None /\ order.window /\ over /\ order.pay = "PENDING" /\ payout = "PENDING"
  /\ Enter(w, [Idle EXCEPT !.op = "job", !.pc = "release"])
  /\ UNCHANGED <<order, payout, books, code, over, offered, reheld, crashes>>

\* returnWindowReleaseJob finds the order: nothing came back and the window is over.
StartJob(w) ==
  /\ order.ret = None /\ order.window /\ over /\ order.pay = "HOLD" /\ payout = "PENDING"
  /\ Enter(w, [Idle EXCEPT !.op = "job", !.pc = "release"])
  /\ UNCHANGED <<order, payout, books, code, over, offered, reheld, crashes>>

\* Without AutoRelease the payout is left to the administrators.
Release(w) ==
  /\ At(w, "release")
  /\ IF AutoRelease
       THEN IF payout = "PENDING" /\ ~OnHold THEN Pay ELSE UNCHANGED <<order, payout, books>>
       ELSE order' = [order EXCEPT !.pay = "PENDING"] /\ UNCHANGED <<payout, books>>
  /\ call' = [(IF order' = order THEN call ELSE Outdated("release")) EXCEPT ![w] = Idle]
  /\ UNCHANGED <<code, over, offered, reheld, crashes>>

-----------------------------------------------------------------------------
(* OrderReturnService and the handlers of orderController: each reads the order,
   checks its status and saves what it changed. *)

Begin(w, a) ==
  /\ Enter(w, a)
  /\ UNCHANGED <<order, payout, books, code, over, offered, reheld, crashes>>

\* createReturnRequest, within the window.
Request(w) ==
  /\ order.ret = None /\ ~over
  /\ \E s \in Shares : Begin(w, [Saving("request", "return_requested") EXCEPT !.share = s])

\* approveReturn: the pickup is open to the riders nearby.
Approve(w) ==
  /\ order.ret = "return_requested"
  /\ Begin(w, [Saving("approve", "return_pickup_assigned") EXCEPT !.rider = Change("rider", None)])

Reject(w) ==
  /\ order.ret = "return_requested"
  /\ Begin(w, Saving("reject", "return_rejected"))

\* assignReturnDelivery: to a rider or to those nearby.
Assign(w) ==
  /\ order.ret \in {"return_requested", "return_approved"}
  /\ \E r \in Riders \cup {None} :
       Begin(w, [Saving("assign", "return_pickup_assigned") EXCEPT !.rider = Change("rider", r)])

\* acceptReturnPickup looks at the rider only: a late tap on an old offer counts.
Accept(w) ==
  /\ offered /\ order.rider = None
  /\ \E r \in Riders :
       Begin(w, [Saving("accept", "return_pickup_assigned") EXCEPT !.rider = r])

\* rejectReturnPickup by the assigned rider.
Decline(w) ==
  /\ order.rider # None /\ order.ret = "return_pickup_assigned"
  /\ Begin(w, [Saving("decline", "return_approved") EXCEPT !.rider = None])

\* The last attempt to find a rider ran out (processReturnPickupTimeoutJob).
PickupTimeout ==
  /\ order.ret = "return_pickup_assigned" /\ order.rider = None /\ offered
  /\ order' = [order EXCEPT !.ret = "return_approved"]
  /\ call' = Outdated("timeout")
  /\ UNCHANGED <<payout, books, code, over, offered, reheld, crashes>>

\* "Only allow forward transitions": what the list does not name ranks lowest.
Rank(s) == CASE s = "return_pickup_assigned" -> 1 [] s = "return_in_transit" -> 2
             [] s = "returned" -> 3 [] OTHER -> 0

\* updateReturnStatus, by an administrator or the rider, of an order that has a return.
Status(w) ==
  /\ order.ret # None
  /\ \E s \in {"return_pickup_assigned", "return_in_transit", "returned"} :
       /\ Rank(s) >= Rank(order.ret)
       /\ Begin(w, Saving("status", s))

\* Faulty variant: returnQcStatus is saved as the status.
QcSwapped(w) ==
  /\ order.ret = "returned"
  /\ \E v \in {"passed", "failed"} : Begin(w, Saving("qc", v))

\* updateReturnQcStatus.
Qc(w) ==
  /\ order.ret = "returned"
  /\ \E v \in {"qc_passed", "qc_failed"} : Begin(w, Saving("qc", v))

-----------------------------------------------------------------------------
(* The rider's codes (deliveryOtpService.js, orderWorkflowController.js). *)

\* requestReturnPickupOtp.
PickupCode ==
  /\ order.ret = "return_pickup_assigned"
  /\ code' = [code EXCEPT !["pickup"] = TRUE]
  /\ UNCHANGED <<order, payout, books, over, offered, reheld, call, crashes>>

\* requestReturnDropOtp; its update of the status comes in any case.
Arrive(w) ==
  /\ order.rider # None /\ order.ret \in {"return_in_transit", "return_drop_pending"}
  /\ code' = [code EXCEPT !["drop"] = TRUE]
  /\ Enter(w, [Saving("arrive", "return_drop_pending") EXCEPT !.ret = "return_drop_pending"])
  /\ UNCHANGED <<order, payout, books, over, offered, reheld, crashes>>

\* verifyReturnPickupOtp and verifyReturnDropOtp find a code that can be used; the
\* drop has read the order, its status is not checked.
Pickup(w) ==
  /\ code["pickup"]
  /\ Begin(w, [Idle EXCEPT !.op = "pickup", !.pc = "code"])
Drop(w) ==
  /\ code["drop"] /\ order.rider # None
  /\ Begin(w, [Saving("drop", "qc_passed") EXCEPT
                 !.pc = "code", !.due = order.commission /\ ~order.commissionPaid])

\* The code is used up; the pickup reads the order after that.
Consume(w) ==
  /\ At(w, "code")
  /\ code' = [code EXCEPT ![call[w].op] = FALSE]
  /\ call' = [call EXCEPT ![w].pc = "save",
                          ![w].ret = IF call[w].op = "pickup"
                                       THEN Change("ret", "return_in_transit") ELSE @]
  /\ UNCHANGED <<order, payout, books, over, offered, reheld, crashes>>

-----------------------------------------------------------------------------
(* The save of a handler, and what it goes on with. *)

\* Faulty variant: the drop is not refunded.
AfterUnrefunded(w) ==
  LET c == call[w] IN
  CASE c.op = "drop"                      -> [c EXCEPT !.pc = "credit"]
    [] c.op = "qc" /\ c.ret = "qc_passed" -> [c EXCEPT !.pc = "refund"]
    [] c.op = "qc" /\ c.ret = "qc_failed" -> [c EXCEPT !.pc = "release"]
    [] OTHER                              -> Idle

After(w) ==
  LET c == call[w] IN
  CASE c.op = "drop"                      -> [c EXCEPT !.pc = "refund"]
    [] c.op = "qc" /\ c.ret = "qc_passed" -> [c EXCEPT !.pc = "refund"]
    [] c.op = "qc" /\ c.ret = "qc_failed" -> [c EXCEPT !.pc = "release"]
    [] OTHER                              -> Idle

Save(w) ==
  LET c == call[w] IN
  /\ At(w, "save")
  /\ IF c.stale
       THEN Finish(w) /\ UNCHANGED <<order, offered>>
       ELSE /\ order' = [order EXCEPT
                 !.ret = Written("ret", c.ret), !.rider = Written("rider", c.rider),
                 !.window = @ /\ c.op # "request",
                 !.share = IF c.op = "request" THEN c.share ELSE @,
                 !.commission = @ \/ c.op = "approve"]
            /\ call' = [Outdated(c.op) EXCEPT ![w] = After(w)]
            /\ offered' = (offered \/ (c.op \in {"approve", "assign"}
                             /\ order'.ret = "return_pickup_assigned" /\ order'.rider = None))
  /\ UNCHANGED <<payout, books, code, over, reheld, crashes>>

-----------------------------------------------------------------------------
(* completeReturnAndRefund. *)

\* Faulty variant: a held payout stays as it is.
RefundedUncancelled ==
  LET held == order.pay = "HOLD" IN
  /\ UNCHANGED payout
  /\ books' = [books EXCEPT
       !.refunds = Twice(@),
       !.back = IF held THEN @ ELSE @ + order.share,
       !.rides = IF order.rider # None /\ order.commission /\ ~order.commissionPaid
                   THEN Twice(@) ELSE @]
  /\ order' = [order EXCEPT !.ret = "refund_completed"]

\* A held payout is cancelled, of one that is not held the share is taken back, and
\* the rider gets the commission.
Refunded ==
  LET held == order.pay = "HOLD"  cancel == held /\ payout = "PENDING" IN
  /\ payout' = IF cancel THEN "CANCELLED" ELSE payout
  /\ books' = [books EXCEPT
       !.refunds = Twice(@),
       !.back = IF held THEN @ ELSE @ + order.share,
       !.rides = IF order.rider # None /\ order.commission /\ ~order.commissionPaid
                   THEN Twice(@) ELSE @]
  /\ order' = [order EXCEPT !.ret = "refund_completed",
                            !.pay = IF cancel THEN "CANCELLED" ELSE @]

\* A return lasts longer than a settlement that read the order before it was settled.
Settling == order.settled /\ \E v \in Workers : At(v, "queue")

\* Faulty variant: the refund has no key in the ledger.
RefundAgain(w) ==
  /\ At(w, "refund") /\ ~Settling
  /\ IF order.ret = "qc_passed"
       THEN /\ Refunded
            /\ call' = [Outdated("refund") EXCEPT
                 ![w] = IF call[w].op = "drop" THEN [call[w] EXCEPT !.pc = "credit"] ELSE Idle]
       ELSE /\ UNCHANGED <<order, payout, books>>
            /\ IF call[w].op = "drop" THEN Goto(w, "credit") ELSE Finish(w)
  /\ UNCHANGED <<code, over, offered, reheld, crashes>>

\* One transaction, which reads the status again; the ledger's key of the refund
\* aborts a second one.
Refund(w) ==
  /\ At(w, "refund") /\ ~Settling
  /\ IF order.ret = "qc_passed" /\ books.refunds = 0
       THEN /\ Refunded
            /\ call' = [Outdated("refund") EXCEPT
                 ![w] = IF call[w].op = "drop" THEN [call[w] EXCEPT !.pc = "credit"] ELSE Idle]
       ELSE /\ UNCHANGED <<order, payout, books>>
            /\ IF call[w].op = "drop" /\ order.ret # "qc_passed" THEN Goto(w, "credit") ELSE Finish(w)
  /\ UNCHANGED <<code, over, offered, reheld, crashes>>

\* In the background of a drop: the commission, if it was not paid when the drop began.
Credit(w) ==
  /\ At(w, "credit")
  /\ IF call[w].due
       THEN /\ books' = [books EXCEPT !.rides = Twice(@)]
            /\ order' = [order EXCEPT !.commissionPaid = TRUE]
            /\ call' = [Outdated("credit") EXCEPT ![w] = Idle]
       ELSE UNCHANGED <<books, order>> /\ Finish(w)
  /\ UNCHANGED <<payout, code, over, offered, reheld, crashes>>

-----------------------------------------------------------------------------
(* Time and faults. *)

WindowEnds ==
  /\ ~over /\ over' = TRUE
  /\ UNCHANGED <<order, payout, books, code, offered, reheld, call, crashes>>

Crash(w) ==
  /\ ~At(w, "idle") /\ crashes < MaxCrash
  /\ crashes' = crashes + 1
  /\ Finish(w)
  /\ UNCHANGED <<order, payout, books, code, over, offered, reheld>>

-----------------------------------------------------------------------------
Open(w) ==
  \/ StartSettle(w) \/ Request(w) \/ Approve(w) \/ Reject(w) \/ Assign(w) \/ Accept(w)
  \/ Decline(w) \/ Status(w) \/ Qc(w) \/ Arrive(w) \/ Pickup(w) \/ Drop(w) \/ StartJob(w)
Continue(w) ==
  \/ Queue(w) \/ Commit(w) \/ Consume(w) \/ Save(w) \/ Refund(w) \/ Credit(w) \/ Release(w)

Next ==
  \/ Process \/ PickupTimeout \/ PickupCode \/ WindowEnds
  \/ \E w \in Workers : Open(w) \/ Continue(w) \/ Crash(w)

Spec == Init /\ [][Next]_vars

\* A handler goes on, time passes, and the job runs every minute.
Fairness ==
  /\ \A w \in Workers : WF_vars(Continue(w))
  /\ WF_vars(WindowEnds)
  /\ SF_vars(\E w \in Workers : StartJob(w))

FairSpec == Spec /\ Fairness

-----------------------------------------------------------------------------
(* Properties. *)

\* Type correctness.
TypeOK ==
  /\ order \in OrderType
  /\ payout \in {"none", "PENDING", "COMPLETED", "CANCELLED"}
  /\ books \in BooksType
  /\ code \in [Codes -> BOOLEAN]
  /\ {over, offered, reheld} \subseteq BOOLEAN
  /\ call \in [Workers -> [op : Ops \cup {"none"}, pc : Pcs, ret : Statuses \cup {Same},
                           rider : Riders \cup {None, Same}, share : Shares \cup {0},
                           due : BOOLEAN, hold : BOOLEAN, stale : BOOLEAN]]
  /\ crashes \in 0..MaxCrash

\* What the seller has of the order or will have when the payout is processed.
SellerKeeps == (IF payout \in {"PENDING", "COMPLETED"} THEN Earning ELSE 0) - books.back

\* When the customer has the refund, the seller has given up the share of the returned
\* items: the held payout was cancelled or the share debited ("so we cannot end up with
\* a customer who has been credited but a seller who hasn't been debited",
\* orderReturnService.js:448-450).
SellerGivesBack == books.refunds > 0 => SellerKeeps <= Earning - order.share

\* A payout and a return never touch the same money twice, whatever handlers and jobs
\* interleave: the wallet has the payout exactly when it was processed, nothing is taken
\* from the seller before the customer has the refund, the share is not taken from a
\* cancelled payout as well, and the customer's refund is the seller's loss, unless a
\* settlement that was run again held a payout that was processed before
\* (payoutService.js:105-291, orderReturnService.js:541-628).
SellerBooks ==
  /\ books.paid = (payout = "COMPLETED")
  /\ books.refunds = 0 => books.back = 0 /\ payout # "CANCELLED"
  /\ books.back > 0 => payout # "CANCELLED" /\ books.back = order.share
  /\ reheld \/ SellerGivesBack

\* The customer is refunded once, and a return that reads as refunded was, although
\* handlers save what they read long before and a closed return can be opened again
\* (orderReturnService.js:477-487, 519).
RefundOnce ==
  /\ books.refunds <= 1
  /\ order.ret = "refund_completed" => books.refunds = 1

\* Once the settlement is complete, the payout of an order that did not come back is
\* processed only after the return window (payoutService.js:139-141).
HoldHonoured ==
  [][payout # "COMPLETED" /\ payout' = "COMPLETED" /\ order.ret = None
       => over \/ ~order.settled]_vars

Stage == CASE order.ret = None -> "kept"
           [] order.ret = "refund_completed" -> "closed"
           [] OTHER -> "returning"

Promise == INSTANCE ReturnPromise WITH
  settled <- order.settled, stage <- Stage, share <- order.share,
  wallet <- books.paid, back <- books.back, refunds <- books.refunds

\* However settlements, payouts, jobs and the handlers of the return interleave, on
\* whatever they read before, the money moves as if one clerk had done it: at most one
\* payout and one refund, the payout not before its time, and the refund together with
\* what the seller gives back (orderReturnService.js:448-628, payoutService.js:105-291).
PromiseKept == Promise!Spec

\* The hold of an order that did not come back ends after the window, whatever else
\* runs (returnWindowReleaseJob.js:18-111).
HoldReleased ==
  order.pay = "HOLD" /\ order.ret = None ~> order.pay # "HOLD" \/ order.ret # None \/ reheld

\* A return that passed QC is refunded, as long as no handler dies before it does it
\* and none that read an earlier status writes over it (orderController.js:705-708,
\* orderWorkflowController.js:575-587).
RefundFollows ==
  order.ret = "qc_passed" ~> books.refunds = 1 \/ order.ret # "qc_passed" \/ crashes > 0

=============================================================================

------------------------- MODULE CashDeposit_proofs -------------------------
(***************************************************************************)
(* Theorems about CashDeposit: for every number of orders, deposits,       *)
(* payments, handlers and crashes, whatever amounts are claimed.           *)
(*                                                                         *)
(* The argument.  A deposit is either the administrators' or the           *)
(* gateway's, for its whole life, and each handler only approves and gives *)
(* back deposits of its own kind.  Every write to a deposit is then one of *)
(* a few moves from the state the deposit is really in (Becomes), and the  *)
(* moves keep what is said about one deposit (Sound).  No move leaves a    *)
(* final state or a recorded payment.                                      *)
(***************************************************************************)
EXTENDS CashDeposit, FiniteSetTheorems, WellFoundedInduction, TLAPS

Activations ==
  [op : Ops \cup {"none"}, pc : Pcs, dep : Deposits \cup {None}, pay : Payments \cup {None},
   ev : Events \cup {"none"}, amount : Nat, plan : [Orders -> Nat]]

\* The calls of a handler that has a deposit.
Working == {"claim", "allocate", "revert", "gateway", "settle", "report"}

\* What a handler's slot holds at each call.
Equipped(c) ==
  /\ c.pc \in Working => c.dep \in Deposits
  /\ c.pc \in {"settle", "report"} => c.pay \in Payments /\ c.op # "admin"
  /\ c.op = "hook" => c.pay \in Payments /\ c.ev \in Events
  /\ c.pc = "ack" => c.op = "hook"

TypeInv == TypeOK /\ \A w \in Workers : Equipped(call[w])

\* A deposit is for administrators while it has no payment status, and from then on
\* for the gateway.
Sound(r) ==
  /\ r.pay = "PAID" <=> r.payment # None
  /\ r.status = "none" => r.pay = "none" /\ ~r.checkout /\ r.ref = None /\ ~r.reserved
  /\ r.status \in Unpaid => r.pay # "none"
  /\ r.checkout => r.pay # "none"
  /\ r.payment # None => r.checkout
  /\ r.pay # "none" /\ r.status \notin Unpaid
       => r.pay = "PAID" /\ r.status \in {"APPROVING"} \cup Settled
  /\ r.ref # None => r.pay = "none" /\ (r.reserved \/ r.status = "REJECTED")

DepInv ==
  /\ \A d \in Deposits : Sound(dep[d])
  /\ \A p \in Payments : captured[p] # None => dep[captured[p]].checkout

\* A handler works on a deposit r of its kind.
Rightful(c, r) ==
  /\ c.pc \in {"claim", "allocate", "revert"} =>
       IF c.op = "admin" THEN r.pay = "none" /\ r.status # "none" ELSE r.pay = "PAID"
  /\ c.pc = "settle" => r.checkout
  /\ c.pc = "gateway" =>
       r.status \in Unpaid /\ r.pay \in {"PENDING", "FAILED"} /\ ~r.checkout

CallInv ==
  /\ \A w \in Workers : Rightful(call[w], dep[call[w].dep])
  /\ \A v, w \in Workers :
       At(v, "gateway") /\ At(w, "gateway") /\ call[v].dep = call[w].dep => v = w

\* A reference is reserved by one deposit.
RefInv ==
  \A d, e \in Deposits :
    dep[d].reserved /\ dep[e].reserved /\ dep[d].ref = dep[e].ref /\ dep[d].ref # None => d = e

Acts(w) == Open(w) \/ Continue(w) \/ Crash(w) \/ Unsure(w)

-----------------------------------------------------------------------------
(* The moves of one deposit. *)

Adjusted(r, s) ==
  r.status = "none" /\ \E v \in Nat : s = [r EXCEPT !.status = "SUBMITTED", !.amount = v]
Claimed(r, s) ==
  /\ r.status = "SUBMITTED" \/ (r.status \in Unpaid /\ r.pay = "PAID")
  /\ s = [r EXCEPT !.status = "APPROVING"]
Approved(r, s) ==
  /\ r.status = "APPROVING"
  /\ \E t \in Settled, v, left \in Nat, a \in [Orders -> Nat] :
       s = [r EXCEPT !.status = t, !.verified = v, !.excess = left, !.allocated = a]
GivenBack(r, s) ==
  /\ r.status = "APPROVING"
  /\ \/ r.pay = "none" /\ s = [r EXCEPT !.status = "SUBMITTED"]
     \/ r.pay = "PAID" /\ s = [r EXCEPT !.status = "PAYMENT_PENDING"]
Rejected(r, s) ==
  r.status = "SUBMITTED" /\ s = [r EXCEPT !.status = "REJECTED", !.reserved = FALSE]
Failed(r, s) ==
  /\ r.status \in Unpaid /\ r.pay # "PAID"
  /\ s = [r EXCEPT !.status = "PAYMENT_FAILED", !.pay = "FAILED"]
Opened(r, s) ==
  /\ r.status = "none"
  /\ \E v \in Nat : s = [r EXCEPT !.status = "PAYMENT_PENDING", !.pay = "PENDING", !.amount = v]
Offered(r, s) ==
  r.status \in Unpaid /\ r.pay # "PAID" /\ s = [r EXCEPT !.checkout = TRUE]
Paid(r, s) ==
  /\ r.status \in Unpaid /\ r.checkout /\ r.payment = None
  /\ \E p \in Payments : s = [r EXCEPT !.payment = p, !.pay = "PAID"]

\* What a step makes of a deposit that does not submit, approve or offer one.
Becomes(r, s) ==
  \/ s = r
  \/ Adjusted(r, s) \/ Claimed(r, s) \/ GivenBack(r, s) \/ Rejected(r, s)
  \/ Failed(r, s) \/ Opened(r, s) \/ Paid(r, s)

\* What a submission makes of one.
Submitted(r, s) ==
  /\ r.status = "none"
  /\ \E v \in Nat, f \in Refs :
       s = [r EXCEPT !.status = "SUBMITTED", !.amount = v, !.ref = f, !.reserved = TRUE]

Moves(r, s) == Becomes(r, s) \/ Submitted(r, s) \/ Approved(r, s) \/ Offered(r, s)

\* The moves keep the type of a deposit.
LEMMA MovesType ==
  ASSUME NEW r \in DepType, NEW s, Moves(r, s)
  PROVE  s \in DepType
<1> USE DEF DepType, Statuses, Final, Settled, Unpaid
<1>1. CASE s = r \/ Adjusted(r, s) \/ Claimed(r, s)
  BY <1>1 DEF Adjusted, Claimed
<1>2. CASE GivenBack(r, s) \/ Rejected(r, s)
  <2>1. [r EXCEPT !.status = "SUBMITTED"] \in DepType
    OBVIOUS
  <2>2. [r EXCEPT !.status = "PAYMENT_PENDING"] \in DepType
    OBVIOUS
  <2>3. [r EXCEPT !.status = "REJECTED", !.reserved = FALSE] \in DepType
    OBVIOUS
  <2> HIDE DEF DepType
  <2> QED
    BY <1>2, <2>1, <2>2, <2>3 DEF GivenBack, Rejected
<1>3. CASE Approved(r, s)
  BY <1>3 DEF Approved
<1>4. CASE Failed(r, s)
  BY <1>4 DEF Failed
<1>5. CASE Opened(r, s)
  BY <1>5 DEF Opened
<1>6. CASE Offered(r, s)
  BY <1>6 DEF Offered
<1>7. CASE Paid(r, s)
  BY <1>7 DEF Paid
<1>8. CASE Submitted(r, s)
  BY <1>8 DEF Submitted
<1> HIDE DEF DepType, Statuses, Final, Settled, Unpaid
<1> QED
  BY <1>1, <1>2, <1>3, <1>4, <1>5, <1>6, <1>7, <1>8 DEF Moves, Becomes

\* The moves keep what is said about one deposit.
LEMMA MovesSound ==
  ASSUME NEW r \in DepType, NEW s, Sound(r), Moves(r, s)
  PROVE  Sound(s)
<1> USE DEF DepType, Sound, Unpaid, Settled
<1>1. CASE Submitted(r, s)
  BY <1>1, RefsAssumption DEF Submitted
<1>2. CASE s = r \/ Adjusted(r, s) \/ Claimed(r, s)
  BY <1>2 DEF Adjusted, Claimed
<1>3. CASE Approved(r, s)
  BY <1>3 DEF Approved
<1>4. CASE GivenBack(r, s) \/ Rejected(r, s)
  BY <1>4 DEF GivenBack, Rejected
<1>5. CASE Failed(r, s) \/ Opened(r, s) \/ Offered(r, s)
  BY <1>5 DEF Failed, Opened, Offered
<1>6. CASE Paid(r, s)
  BY <1>6 DEF Paid, Payments, None
<1> QED
  BY <1>1, <1>2, <1>3, <1>4, <1>5, <1>6 DEF Moves, Becomes

\* What the moves leave alone: a decision, a payment, the kind of a deposit, and
\* the checkout once it is there.
LEMMA MovesKeep ==
  ASSUME NEW r \in DepType, NEW s, Sound(r), Moves(r, s)
  PROVE  /\ r.status \in Final => s = r
         /\ r.pay = "PAID" => s.pay = "PAID" /\ s.payment = r.payment
         /\ r.pay = "none" /\ r.status # "none" => s.pay = "none" /\ s.status # "none"
         /\ r.checkout => s.checkout
         /\ r.status # "none" => s.status # "none"
BY DEF Moves, Becomes, Adjusted, Claimed, Approved, GivenBack, Rejected, Failed, Opened,
   Offered, Paid, Submitted, DepType, Sound, Unpaid, Settled, Final

\* A deposit whose Razorpay order is being made only fails or gets it.
LEMMA MovesWhileMade ==
  ASSUME NEW r \in DepType, NEW s, Sound(r), Moves(r, s),
         r.status \in Unpaid, r.pay \in {"PENDING", "FAILED"}, ~r.checkout, ~s.checkout
  PROVE  s.status \in Unpaid /\ s.pay \in {"PENDING", "FAILED"}
BY DEF Moves, Becomes, Adjusted, Claimed, Approved, GivenBack, Rejected, Failed, Opened,
   Offered, Paid, Submitted, DepType, Sound, Unpaid, Settled, Final

\* Only a submission reserves a reference, only an approval allocates money, and
\* only an offer is paid.
LEMMA BecomesKeeps ==
  ASSUME NEW r \in DepType, NEW s, Becomes(r, s)
  PROVE  /\ s.ref = r.ref /\ (s.reserved => r.reserved)
         /\ s.allocated = r.allocated /\ s.checkout = r.checkout
         /\ s.status \in Settled => r.status \in Settled
<1> USE DEF DepType, Settled
<1>1. CASE s = r \/ Adjusted(r, s) \/ Claimed(r, s)
  BY <1>1 DEF Adjusted, Claimed
<1>2. CASE GivenBack(r, s) \/ Rejected(r, s)
  BY <1>2 DEF GivenBack, Rejected
<1>3. CASE Failed(r, s) \/ Opened(r, s)
  BY <1>3 DEF Failed, Opened
<1>4. CASE Paid(r, s)
  BY <1>4 DEF Paid
<1> QED
  BY <1>1, <1>2, <1>3, <1>4 DEF Becomes

LEMMA OthersKeep ==
  ASSUME NEW r \in DepType, NEW s, Approved(r, s) \/ Offered(r, s)
  PROVE  /\ s.ref = r.ref /\ s.reserved = r.reserved
         /\ Approved(r, s) => s.checkout = r.checkout
         /\ Offered(r, s) => s.allocated = r.allocated /\ s.status = r.status
BY DEF Approved, Offered, DepType

-----------------------------------------------------------------------------
(* Every step makes one of the moves of every deposit. *)

\* A step that writes one deposit.
LEMMA OneWrite ==
  ASSUME TypeOK, NEW d \in Deposits, NEW s, dep' = [dep EXCEPT ![d] = s], Becomes(dep[d], s)
  PROVE  \A e \in Deposits : Becomes(dep[e], dep'[e])
BY DEF TypeOK, Becomes

\* An approval's amount is a number of rupees.
LEMMA CommitMove ==
  ASSUME TypeInv, NEW w \in Workers, At(w, "allocate"), dep[call[w].dep].status = "APPROVING",
         Commit(w)
  PROVE  \A d \in Deposits : dep'[d] = dep[d] \/ Approved(dep[d], dep'[d])
<1>1. /\ call[w] \in Activations /\ Equipped(call[w]) /\ TypeOK
      /\ dep \in [Deposits -> DepType]
  BY DEF TypeInv, TypeOK, Activations
<1>2. call[w].dep \in Deposits
  BY <1>1 DEF Equipped, At, Working
<1>3. PICK a \in [Orders -> 0..Verified(w)], left \in 0..Verified(w) :
        dep' = [dep EXCEPT ![call[w].dep] =
                 [@ EXCEPT !.status = IF Verified(w) < dep[call[w].dep].amount
                                        THEN "PARTIALLY_APPROVED" ELSE "APPROVED",
                           !.verified = Verified(w), !.excess = left, !.allocated = a]]
  BY DEF Commit
<1>4. Verified(w) \in Nat
  BY <1>1, <1>2 DEF Verified, Activations, DepType
<1>5. left \in Nat /\ a \in [Orders -> Nat]
  BY <1>4
<1> DEFINE t == IF Verified(w) < dep[call[w].dep].amount THEN "PARTIALLY_APPROVED" ELSE "APPROVED"
           s == [dep[call[w].dep] EXCEPT !.status = t, !.verified = Verified(w),
                                         !.excess = left, !.allocated = a]
<1>6. t \in Settled
  BY DEF Settled
<1>7. dep' = [dep EXCEPT ![call[w].dep] = s]
  BY <1>1, <1>2, <1>3
<1> HIDE DEF t
<1>8. Approved(dep[call[w].dep], s)
  BY <1>4, <1>5, <1>6 DEF Approved
<1> HIDE DEF s
<1> QED
  BY <1>1, <1>2, <1>7, <1>8

\* The sweep closes attempts that wait for their payment.
LEMMA SweepMove ==
  ASSUME TypeOK, NEW S \in SUBSET {d \in Deposits : Waiting(d)}, Abandoned(S)
  PROVE  \A d \in Deposits : Becomes(dep[d], dep'[d])
<1> TAKE d \in Deposits
<1>1. CASE d \in S
  <2>1. dep'[d] = [dep[d] EXCEPT !.status = "PAYMENT_FAILED", !.pay = "FAILED"]
    BY <1>1 DEF Abandoned
  <2>2. dep[d].status \in Unpaid /\ dep[d].pay # "PAID"
    BY <1>1 DEF Waiting, Unpaid
  <2> QED
    BY <2>1, <2>2 DEF Becomes, Failed
<1>2. CASE d \notin S
  BY <1>2 DEF Abandoned, Becomes
<1> QED
  BY <1>1, <1>2

\* The step of a handler that approves.
Commits(w) ==
  At(w, "allocate") /\ dep[call[w].dep].status = "APPROVING" /\ Commit(w)

\* The step of a handler that has made the gateway's order.
Offers(w) ==
  /\ At(w, "gateway") /\ Finish(w)
  /\ dep' = [dep EXCEPT ![call[w].dep].checkout = TRUE]

LEMMA OfferMove ==
  ASSUME TypeInv, CallInv, NEW w \in Workers, Offers(w)
  PROVE  /\ Offered(dep[call[w].dep], dep'[call[w].dep])
         /\ \A d \in Deposits : d # call[w].dep => dep'[d] = dep[d]
<1>1. dep \in [Deposits -> DepType] /\ Equipped(call[w]) /\ Rightful(call[w], dep[call[w].dep])
  BY DEF TypeInv, TypeOK, CallInv
<1>2. call[w].dep \in Deposits
  BY <1>1 DEF Offers, At, Equipped, Working
<1>3. dep[call[w].dep].status \in Unpaid /\ dep[call[w].dep].pay # "PAID"
  BY <1>1 DEF Offers, At, Rightful
<1>4. dep' = [dep EXCEPT ![call[w].dep] = [dep[call[w].dep] EXCEPT !.checkout = TRUE]]
  BY <1>1, <1>2 DEF Offers, DepType
<1> QED
  BY <1>1, <1>2, <1>3, <1>4 DEF Offered

\* Every other step makes such a move of every deposit.
LEMMA DepMoves ==
  ASSUME TypeInv, DepInv, CallInv, [Next]_vars
  PROVE  \/ \E w \in Workers : Submit(w) \/ Commits(w) \/ Offers(w)
         \/ \A d \in Deposits : Becomes(dep[d], dep'[d])
<1>0. /\ TypeOK /\ dep \in [Deposits -> DepType]
      /\ \A d \in Deposits : Sound(dep[d])
      /\ Claims \cup Checks \subseteq Nat
  BY AmountAssumption DEF TypeInv, TypeOK, DepInv
<1>1. ASSUME UNCHANGED dep
      PROVE  \A d \in Deposits : Becomes(dep[d], dep'[d])
  BY <1>1 DEF Becomes
<1>2. CASE UNCHANGED vars \/ Collect \/ \E p \in Payments : RiderPays(p)
  BY <1>1, <1>2 DEF vars, Collect, RiderPays
<1>3. CASE JobSweep
  BY <1>0, <1>3, SweepMove DEF JobSweep
<1>4. ASSUME NEW d \in Deposits, Fail(d)
      PROVE  \A e \in Deposits : Becomes(dep[e], dep'[e])
  <2>1. dep' = [dep EXCEPT ![d] = [dep[d] EXCEPT !.status = "PAYMENT_FAILED", !.pay = "FAILED"]]
    BY <1>0, <1>4 DEF Fail, DepType
  <2>2. dep[d].status \in Unpaid /\ dep[d].pay # "PAID"
    BY <1>0, <1>4 DEF Fail, Sound
  <2> QED
    BY <1>0, <2>1, <2>2, OneWrite DEF Becomes, Failed
<1>5. ASSUME NEW w \in Workers, Open(w), ~Submit(w)
      PROVE  \A d \in Deposits : Becomes(dep[d], dep'[d])
  <2>1. CASE Adjust(w)
    <3>1. PICK d \in Deposits, v \in Claims :
            New(d) /\ dep' = [dep EXCEPT ![d].status = "SUBMITTED", ![d].amount = v]
      BY <2>1 DEF Adjust
    <3>2. dep' = [dep EXCEPT ![d] = [dep[d] EXCEPT !.status = "SUBMITTED", !.amount = v]]
      BY <1>0, <3>1 DEF DepType
    <3>3. dep[d].status = "none" /\ v \in Nat
      BY <1>0, <3>1 DEF New
    <3> QED
      BY <1>0, <3>2, <3>3, OneWrite DEF Becomes, Adjusted
  <2>2. CASE Approve(w)
    <3>1. PICK d \in Deposits :
            Claimable(d, "admin") /\ dep' = [dep EXCEPT ![d].status = "APPROVING"]
      BY <2>2 DEF Approve
    <3>2. dep' = [dep EXCEPT ![d] = [dep[d] EXCEPT !.status = "APPROVING"]]
      BY <1>0, <3>1 DEF DepType
    <3> QED
      BY <1>0, <3>1, <3>2, OneWrite DEF Becomes, Claimed, Claimable
  <2>3. CASE Reject(w)
    <3>1. PICK d \in Deposits :
            /\ dep[d].status = "SUBMITTED"
            /\ dep' = [dep EXCEPT ![d].status = "REJECTED", ![d].reserved = FALSE]
      BY <2>3 DEF Reject
    <3>2. dep' = [dep EXCEPT ![d] = [dep[d] EXCEPT !.status = "REJECTED", !.reserved = FALSE]]
      BY <1>0, <3>1 DEF DepType
    <3> QED
      BY <1>0, <3>1, <3>2, OneWrite DEF Becomes, Rejected
  <2>4. CASE StartPay(w)
    BY <1>0, <2>4, SweepMove DEF StartPay
  <2>5. CASE StartVerify(w) \/ StartHand(w) \/ \E p \in Payments, e \in Events : Webhook(w, p, e)
    BY <1>1, <2>5 DEF StartVerify, StartHand, Webhook
  <2> QED
    BY <1>5, <2>1, <2>2, <2>3, <2>4, <2>5 DEF Open
<1>6. ASSUME NEW w \in Workers, Continue(w) \/ Crash(w) \/ Unsure(w), ~Commits(w), ~Offers(w)
      PROVE  \A d \in Deposits : Becomes(dep[d], dep'[d])
  <2> DEFINE d == call[w].dep
  <2>0. Equipped(call[w]) /\ Rightful(call[w], dep[d])
    BY DEF TypeInv, CallInv
  <2>1. CASE Claim(w)
    <3>1. CASE UNCHANGED dep
      BY <1>1, <3>1
    <3>2. CASE Claimable(d, call[w].op) /\ dep' = [dep EXCEPT ![d].status = "APPROVING"]
      <4>1. d \in Deposits
        BY <2>0, <2>1 DEF Claim, At, Equipped, Working
      <4>2. dep' = [dep EXCEPT ![d] = [dep[d] EXCEPT !.status = "APPROVING"]]
        BY <1>0, <3>2, <4>1 DEF DepType
      <4>3. Claimed(dep[d], [dep[d] EXCEPT !.status = "APPROVING"])
        BY <3>2 DEF Claimed, Claimable
      <4> QED
        BY <1>0, <4>1, <4>2, <4>3, OneWrite DEF Becomes
    <3> QED
      BY <2>1, <3>1, <3>2 DEF Claim
  <2>2. CASE Allocate(w)
    BY <1>1, <1>6, <2>2 DEF Allocate, Commits
  <2>3. CASE Unsure(w)
    BY <1>1, <1>6, <2>3 DEF Unsure, Commits
  <2>4. CASE Revert(w)
    <3> DEFINE t == IF dep[d].status # "APPROVING" THEN dep[d].status
                    ELSE IF call[w].op = "admin" THEN "SUBMITTED" ELSE "PAYMENT_PENDING"
               s == [dep[d] EXCEPT !.status = t]
    <3>1. d \in Deposits /\ call[w].pc = "revert"
      BY <2>0, <2>4 DEF Revert, At, Equipped, Working
    <3>2. dep' = [dep EXCEPT ![d] = s]
      BY <1>0, <2>4, <3>1 DEF Revert, DepType
    <3>3. CASE dep[d].status # "APPROVING"
      <4>1. s = dep[d]
        BY <1>0, <3>1, <3>3 DEF DepType
      <4> QED
        BY <1>0, <3>1, <3>2, <4>1, OneWrite DEF Becomes
    <3>4. CASE dep[d].status = "APPROVING"
      <4>1. GivenBack(dep[d], s)
        BY <2>0, <3>1, <3>4 DEF GivenBack, Rightful
      <4> HIDE DEF s
      <4> QED
        BY <1>0, <3>1, <3>2, <4>1, OneWrite DEF Becomes
    <3> QED
      BY <3>3, <3>4
  <2>5. CASE Create(w)
    <3>1. CASE UNCHANGED dep
      BY <1>1, <3>1
    <3>2. CASE \E e \in Deposits :
                 /\ New(e)
                 /\ dep' = [dep EXCEPT ![e].status = "PAYMENT_PENDING", ![e].pay = "PENDING",
                                       ![e].amount = call[w].amount]
      <4>1. PICK e \in Deposits :
              /\ New(e)
              /\ dep' = [dep EXCEPT ![e].status = "PAYMENT_PENDING", ![e].pay = "PENDING",
                                    ![e].amount = call[w].amount]
        BY <3>2
      <4>2. dep' = [dep EXCEPT ![e] = [dep[e] EXCEPT !.status = "PAYMENT_PENDING",
                                         !.pay = "PENDING", !.amount = call[w].amount]]
        BY <1>0, <4>1 DEF DepType
      <4>3. dep[e].status = "none" /\ call[w].amount \in Nat
        BY <1>0, <4>1 DEF New, TypeOK
      <4> QED
        BY <1>0, <4>2, <4>3, OneWrite DEF Becomes, Opened
    <3> QED
      BY <2>5, <3>1, <3>2 DEF Create
  <2>6. CASE Gateway(w)
    <3>1. /\ d \in Deposits /\ dep[d].status \in Unpaid /\ dep[d].pay # "PAID"
      BY <2>0, <2>6 DEF Gateway, At, Equipped, Working, Rightful
    <3>2. CASE dep' = [dep EXCEPT ![d].checkout = TRUE]
      BY <1>6, <2>6, <3>2 DEF Gateway, Offers
    <3>3. CASE dep' = [dep EXCEPT ![d].status = "PAYMENT_FAILED", ![d].pay = "FAILED"]
      <4>1. dep' = [dep EXCEPT ![d] = [dep[d] EXCEPT !.status = "PAYMENT_FAILED", !.pay = "FAILED"]]
        BY <1>0, <3>1, <3>3 DEF DepType
      <4> QED
        BY <1>0, <3>1, <4>1, OneWrite DEF Becomes, Failed
    <3> QED
      BY <2>6, <3>2, <3>3 DEF Gateway
  <2>7. CASE Settle(w)
    <3>1. /\ d \in Deposits /\ call[w].pay \in Payments /\ dep[d].checkout
      BY <2>0, <2>7 DEF Settle, At, Equipped, Working, Rightful
    <3>2. CASE dep[d].payment = None
      <4>1. dep' = [dep EXCEPT ![d] = [dep[d] EXCEPT !.payment = call[w].pay, !.pay = "PAID"]]
        BY <1>0, <2>7, <3>1, <3>2 DEF Settle
      <4>2. dep[d].status \in Unpaid
        BY <1>0, <3>1, <3>2 DEF Sound
      <4> QED
        BY <1>0, <3>1, <3>2, <4>1, <4>2, OneWrite DEF Becomes, Paid
    <3>3. CASE dep[d].payment # None
      <4>1. dep' = dep
        BY <1>0, <2>7, <3>1, <3>3 DEF Settle
      <4> QED
        BY <1>1, <4>1
    <3> QED
      BY <3>2, <3>3
  <2>8. CASE Report(w) \/ Ack(w) \/ Hand(w) \/ Crash(w)
    BY <1>1, <2>8 DEF Report, Ack, Hand, Crash
  <2> QED
    BY <1>6, <2>1, <2>2, <2>3, <2>4, <2>5, <2>6, <2>7, <2>8 DEF Continue
<1> QED
  BY <1>2, <1>3, <1>4, <1>5, <1>6 DEF Next

\* A submission is one move of one deposit, with a reference nobody has reserved.
LEMMA SubmitMove ==
  ASSUME TypeInv, NEW w \in Workers, Submit(w)
  PROVE  \E d \in Deposits, f \in Refs :
           /\ dep[d].status = "none" /\ dep'[d].ref = f
           /\ \A e \in Deposits : ~(dep[e].ref = f /\ dep[e].reserved)
           /\ Submitted(dep[d], dep'[d])
           /\ \A e \in Deposits : e # d => dep'[e] = dep[e]
<1>1. dep \in [Deposits -> DepType] /\ Claims \subseteq Nat
  BY AmountAssumption DEF TypeInv, TypeOK
<1>2. PICK d \in Deposits, v \in Claims, f \in Refs :
        /\ New(d) /\ \A e \in Deposits : ~(dep[e].ref = f /\ dep[e].reserved)
        /\ dep' = [dep EXCEPT ![d].status = "SUBMITTED", ![d].amount = v,
                              ![d].ref = f, ![d].reserved = TRUE]
  BY DEF Submit
<1> DEFINE s == [dep[d] EXCEPT !.status = "SUBMITTED", !.amount = v, !.ref = f, !.reserved = TRUE]
<1>3. dep' = [dep EXCEPT ![d] = s]
  BY <1>1, <1>2 DEF DepType
<1>4. dep[d].status = "none"
  BY <1>2 DEF New
<1>5. Submitted(dep[d], s) /\ s.ref = f
  BY <1>1, <1>2, <1>4 DEF Submitted, DepType
<1> HIDE DEF s
<1>6. dep'[d] = s /\ \A e \in Deposits : e # d => dep'[e] = dep[e]
  BY <1>1, <1>3
<1> QED
  BY <1>2, <1>4, <1>5, <1>6

\* So every step makes a move of every deposit.
LEMMA AllMove ==
  ASSUME TypeInv, DepInv, CallInv, [Next]_vars
  PROVE  \A d \in Deposits : Moves(dep[d], dep'[d])
<1>1. CASE \E w \in Workers : Submit(w)
  BY <1>1, SubmitMove DEF Moves, Becomes
<1>2. CASE \E w \in Workers : Commits(w)
  BY <1>2, CommitMove DEF Moves, Becomes, Commits
<1>3. CASE \E w \in Workers : Offers(w)
  BY <1>3, OfferMove DEF Moves, Becomes
<1>4. CASE \A d \in Deposits : Becomes(dep[d], dep'[d])
  BY <1>4 DEF Moves
<1> QED
  BY <1>1, <1>2, <1>3, <1>4, DepMoves

-----------------------------------------------------------------------------
(* Type correctness. *)

\* The handlers' names, and every call they can be at.
LEMMA Names ==
  /\ \A op \in {"submit", "admin", "pay", "verify", "hook", "hand"} : op \in Ops
  /\ \A pc \in {"idle", "claim", "allocate", "revert", "create", "gateway", "settle",
                "report", "ack", "hand"} : pc \in Pcs
BY DEF Ops, Pcs

\* A handler's slot after it went on to `new'; the other slots stay.
SlotOK(w, new) ==
  /\ call' \in [Workers -> Activations]
  /\ call'[w] = new /\ Equipped(new)
  /\ \A v \in Workers : v # w => call'[v] = call[v]

LEMMA SlotWrite ==
  ASSUME TypeInv, NEW w \in Workers, NEW new \in Activations, Equipped(new),
         call' = [call EXCEPT ![w] = new]
  PROVE  SlotOK(w, new)
<1>1. call \in [Workers -> Activations]
  BY DEF TypeInv, TypeOK, Activations
<1> QED
  BY <1>1 DEF SlotOK

\* An idle slot, and a handler that starts.
LEMMA IdleType == Idle \in Activations /\ Equipped(Idle)
<1>1. Nothing \in [Orders -> Nat]
  BY DEF Nothing
<1> QED
  BY <1>1, Names DEF Idle, Activations, Equipped, Working

LEMMA FinishSlot ==
  ASSUME TypeInv, NEW w \in Workers, Finish(w)
  PROVE  SlotOK(w, Idle)
BY IdleType, SlotWrite DEF Finish

\* A handler that goes on with what it has.
LEMMA GotoSlot ==
  ASSUME TypeInv, NEW w \in Workers, NEW pc \in Pcs, Goto(w, pc),
         pc \in Working => call[w].dep \in Deposits,
         pc \in {"settle", "report"} => call[w].pay \in Payments /\ call[w].op # "admin",
         pc = "ack" => call[w].op = "hook"
  PROVE  SlotOK(w, [call[w] EXCEPT !.pc = pc])
<1> DEFINE new == [call[w] EXCEPT !.pc = pc]
<1>0. call \in [Workers -> Activations] /\ Equipped(call[w])
  BY DEF TypeInv, TypeOK, Activations
<1>1. new \in Activations
  BY <1>0 DEF Activations
<1>2. Equipped(new)
  BY <1>0 DEF Activations, Equipped
<1>3. call' = [call EXCEPT ![w] = new]
  BY <1>0 DEF Goto, Activations
<1> HIDE DEF new
<1>4. SlotOK(w, new)
  BY <1>1, <1>2, <1>3, SlotWrite
<1> QED
  BY <1>4 DEF new

LEMMA DoneSlot ==
  ASSUME TypeInv, NEW w \in Workers, Done(w)
  PROVE  SlotOK(w, Idle) \/ SlotOK(w, [call[w] EXCEPT !.pc = "ack"])
<1>1. CASE call[w].op = "hook"
  BY <1>1, GotoSlot, Names DEF Done, Working
<1>2. CASE call[w].op # "hook"
  BY <1>2, FinishSlot DEF Done
<1> QED
  BY <1>1, <1>2

\* The slot of a handler when it starts.
LEMMA StartType ==
  ASSUME NEW op \in Ops, NEW pc \in Pcs
  PROVE  Start(op, pc) \in Activations /\ Start(op, pc).op = op /\ Start(op, pc).pc = pc
<1> DEFINE s == Idle
<1>1. s \in Activations
  BY IdleType
<1>2. Start(op, pc) = [s EXCEPT !.op = op, !.pc = pc]
  BY DEF Start
<1> HIDE DEF s
<1> QED
  BY <1>1, <1>2 DEF Activations

\* Every step of a handler leaves it what its next call needs.
LEMMA SlotType ==
  ASSUME TypeInv, DepInv, NEW w \in Workers, Acts(w)
  PROVE  call' = call \/ \E new \in Activations : SlotOK(w, new)
<1>0. /\ call[w] \in Activations /\ Equipped(call[w])
      /\ Claims \cup Checks \subseteq Nat
      /\ captured \in [Payments -> Deposits \cup {None}]
  BY AmountAssumption DEF TypeInv, TypeOK, Activations
<1>1. ASSUME NEW a \in Activations, Equipped(a), Enter(w, a)
      PROVE  \E new \in Activations : SlotOK(w, new)
  BY <1>1, SlotWrite DEF Enter
<1>2. ASSUME Done(w) \/ Finish(w)
      PROVE  \E new \in Activations : SlotOK(w, new)
  <2>1. Idle \in Activations /\ [call[w] EXCEPT !.pc = "ack"] \in Activations
    BY <1>0, IdleType, Names DEF Activations
  <2> QED
    BY <1>2, <2>1, DoneSlot, FinishSlot
<1>3. ASSUME NEW pc \in {"claim", "allocate", "revert", "report"}, Goto(w, pc),
             call[w].dep \in Deposits,
             pc = "report" => call[w].pay \in Payments /\ call[w].op # "admin"
      PROVE  \E new \in Activations : SlotOK(w, new)
  <2>1. pc \in Pcs /\ pc # "ack" /\ pc # "settle"
    BY Names
  <2>2. [call[w] EXCEPT !.pc = pc] \in Activations
    BY <1>0, <2>1 DEF Activations
  <2> QED
    BY <1>3, <2>1, <2>2, GotoSlot
<1>4. CASE Open(w)
  <2>1. CASE Submit(w) \/ Reject(w)
    BY <2>1 DEF Submit, Reject
  <2>2. CASE Adjust(w)
    <3> DEFINE s == Start("admin", "claim")
    <3>1. PICK d \in Deposits, v \in Claims : Enter(w, [s EXCEPT !.dep = d, !.amount = v])
      BY <2>2 DEF Adjust
    <3>2. s \in Activations /\ s.pc = "claim" /\ s.op = "admin"
      BY StartType, Names
    <3> HIDE DEF s
    <3> DEFINE a == [s EXCEPT !.dep = d, !.amount = v]
    <3>3. a \in Activations /\ Equipped(a)
      BY <1>0, <3>1, <3>2 DEF Activations, Equipped
    <3> QED
      BY <1>1, <3>1, <3>3
  <2>3. CASE Approve(w)
    <3>1. PICK d \in Deposits, v \in Checks :
            Enter(w, [Start("admin", IF v > dep[d].amount THEN "revert" ELSE "allocate")
                        EXCEPT !.dep = d, !.amount = v])
      BY <2>3 DEF Approve
    <3> DEFINE pc == IF v > dep[d].amount THEN "revert" ELSE "allocate"
               s == Start("admin", pc)
               a == [s EXCEPT !.dep = d, !.amount = v]
    <3>2. pc \in {"revert", "allocate"}
      OBVIOUS
    <3> HIDE DEF pc
    <3>3. s \in Activations /\ s.pc \in {"revert", "allocate"} /\ s.op = "admin"
      BY <3>2, StartType, Names
    <3>4. Enter(w, a)
      BY <3>1 DEF pc
    <3> HIDE DEF s
    <3>5. a \in Activations /\ Equipped(a)
      BY <1>0, <3>1, <3>3 DEF Activations, Equipped
    <3> QED
      BY <1>1, <3>4, <3>5
  <2>4. CASE StartPay(w)
    <3> DEFINE s == Start("pay", "create")
    <3>1. \/ UNCHANGED call
          \/ \E v \in Claims : Enter(w, [s EXCEPT !.amount = v])
      BY <2>4 DEF StartPay
    <3>2. s \in Activations /\ s.pc = "create" /\ s.op = "pay"
      BY StartType, Names
    <3> HIDE DEF s
    <3>3. ASSUME NEW v \in Claims
          PROVE  [s EXCEPT !.amount = v] \in Activations /\ Equipped([s EXCEPT !.amount = v])
      BY <1>0, <3>2 DEF Activations, Equipped, Working
    <3> QED
      BY <1>1, <3>1, <3>3
  <2>5. CASE StartVerify(w)
    <3> DEFINE s == Start("verify", "settle")
    <3>1. PICK p \in Payments :
            captured[p] # None /\ Enter(w, [s EXCEPT !.dep = captured[p], !.pay = p])
      BY <2>5 DEF StartVerify
    <3>2. s \in Activations /\ s.pc = "settle" /\ s.op = "verify"
      BY StartType, Names
    <3> HIDE DEF s
    <3> DEFINE a == [s EXCEPT !.dep = captured[p], !.pay = p]
    <3>3. captured[p] \in Deposits
      BY <1>0, <3>1
    <3>4. a \in Activations /\ Equipped(a)
      BY <3>2, <3>3 DEF Activations, Equipped
    <3> QED
      BY <1>1, <3>1, <3>4
  <2>6. ASSUME NEW p \in Payments, NEW e \in Events, Webhook(w, p, e)
        PROVE  \E new \in Activations : SlotOK(w, new)
    <3> DEFINE s == Start("hook", "settle")
    <3>1. captured[p] # None /\ Enter(w, [s EXCEPT !.dep = captured[p], !.pay = p, !.ev = e])
      BY <2>6 DEF Webhook
    <3>2. s \in Activations /\ s.pc = "settle" /\ s.op = "hook"
      BY StartType, Names
    <3> HIDE DEF s
    <3> DEFINE a == [s EXCEPT !.dep = captured[p], !.pay = p, !.ev = e]
    <3>3. captured[p] \in Deposits
      BY <1>0, <3>1
    <3>4. a \in Activations /\ Equipped(a)
      BY <3>2, <3>3 DEF Activations, Equipped
    <3> QED
      BY <1>1, <3>1, <3>4
  <2>7. CASE StartHand(w)
    <3> DEFINE s == Start("hand", "hand")
    <3>1. \/ \E v \in Claims : \E a \in [Orders -> 0..v] \ {Nothing} :
               Enter(w, [s EXCEPT !.plan = a])
          \/ \E v \in Claims, o \in Orders : Enter(w, [s EXCEPT !.plan[o] = v])
      BY <2>7 DEF StartHand
    <3>2. s \in Activations /\ s.pc = "hand" /\ s.op = "hand"
      BY StartType, Names
    <3> HIDE DEF s
    <3>3. ASSUME NEW v \in Claims, NEW a \in [Orders -> 0..v] \ {Nothing}
          PROVE  [s EXCEPT !.plan = a] \in Activations /\ Equipped([s EXCEPT !.plan = a])
      <4>1. a \in [Orders -> Nat]
        BY <1>0
      <4> QED
        BY <3>2, <4>1 DEF Activations, Equipped, Working
    <3>4. ASSUME NEW v \in Claims, NEW o \in Orders
          PROVE  [s EXCEPT !.plan[o] = v] \in Activations /\ Equipped([s EXCEPT !.plan[o] = v])
      BY <1>0, <3>2 DEF Activations, Equipped, Working
    <3> QED
      BY <1>1, <3>1, <3>3, <3>4
  <2> QED
    BY <1>4, <2>1, <2>2, <2>3, <2>4, <2>5, <2>6, <2>7 DEF Open
<1>5. CASE Continue(w)
  <2>1. CASE Claim(w)
    <3>1. call[w].dep \in Deposits
      BY <1>0, <2>1 DEF Claim, At, Equipped, Working
    <3> QED
      BY <1>2, <1>3, <2>1, <3>1 DEF Claim
  <2>2. CASE Allocate(w)
    <3>1. call[w].dep \in Deposits
      BY <1>0, <2>2 DEF Allocate, At, Equipped, Working
    <3> QED
      BY <1>2, <1>3, <2>2, <3>1 DEF Allocate
  <2>3. CASE Revert(w) \/ Gateway(w) \/ Report(w) \/ Ack(w)
    BY <1>2, <2>3 DEF Revert, Gateway, Report, Ack
  <2>4. CASE Create(w)
    <3>1. CASE Finish(w)
      BY <1>2, <3>1
    <3>2. ASSUME NEW d \in Deposits, Visit(w, d, "gateway")
          PROVE  \E new \in Activations : SlotOK(w, new)
      <4> DEFINE new == [call[w] EXCEPT !.dep = d, !.pc = "gateway"]
      <4>1. new \in Activations
        BY <1>0, Names DEF Activations
      <4>2. Equipped(new)
        BY <1>0 DEF Activations, Equipped
      <4>3. call' = [call EXCEPT ![w] = new]
        BY <1>0, <3>2 DEF Visit, Activations, TypeInv, TypeOK
      <4> HIDE DEF new
      <4> QED
        BY <4>1, <4>2, <4>3, SlotWrite
    <3> QED
      BY <2>4, <3>1, <3>2 DEF Create
  <2>5. CASE Settle(w)
    <3>1. call[w].dep \in Deposits /\ call[w].pay \in Payments /\ call[w].op # "admin"
      BY <1>0, <2>5 DEF Settle, At, Equipped, Working
    <3> QED
      BY <1>2, <1>3, <2>5, <3>1 DEF Settle
  <2>6. CASE Hand(w)
    <3>1. CASE Finish(w)
      BY <1>2, <3>1
    <3>2. ASSUME NEW o \in Orders, call' = [call EXCEPT ![w].plan[o] = 0]
          PROVE  \E new \in Activations : SlotOK(w, new)
      <4> DEFINE new == [call[w] EXCEPT !.plan[o] = 0]
      <4>1. new \in Activations
        BY <1>0 DEF Activations
      <4>2. Equipped(new)
        BY <1>0 DEF Activations, Equipped
      <4>3. call' = [call EXCEPT ![w] = new]
        BY <1>0, <3>2 DEF Activations, TypeInv, TypeOK
      <4> HIDE DEF new
      <4> QED
        BY <4>1, <4>2, <4>3, SlotWrite
    <3> QED
      BY <2>6, <3>1, <3>2 DEF Hand
  <2> QED
    BY <1>5, <2>1, <2>2, <2>3, <2>4, <2>5, <2>6 DEF Continue
<1>6. CASE Crash(w)
  BY <1>2, <1>6 DEF Crash
<1>7. CASE Unsure(w)
  <2>1. call[w].dep \in Deposits
    BY <1>0, <1>7 DEF Unsure, At, Equipped, Working
  <2> QED
    BY <1>3, <1>7, <2>1 DEF Unsure
<1> QED
  BY <1>4, <1>5, <1>6, <1>7 DEF Acts

\* The deposits stay a table of deposits.
LEMMA DepTable ==
  ASSUME TypeOK, [Next]_vars
  PROVE  dep' = [d \in Deposits |-> dep'[d]]
<1>0. dep = [d \in Deposits |-> dep[d]]
  BY DEF TypeOK
<1>1. ASSUME \/ UNCHANGED dep
             \/ \E d, r : dep' = [dep EXCEPT ![d] = r]
             \/ \E S : Abandoned(S)
      PROVE  dep' = [d \in Deposits |-> dep'[d]]
  <2>1. CASE \E S : Abandoned(S)
    BY <2>1 DEF Abandoned
  <2>2. CASE UNCHANGED dep \/ \E d, r : dep' = [dep EXCEPT ![d] = r]
    BY <1>0, <2>2
  <2> QED
    BY <1>1, <2>1, <2>2
<1>2. CASE UNCHANGED vars \/ Collect \/ JobSweep \/ \E p \in Payments : RiderPays(p)
  BY <1>1, <1>2 DEF vars, Collect, JobSweep, RiderPays
<1>3. CASE \E d \in Deposits : Fail(d)
  BY <1>0, <1>3 DEF Fail
<1>4. ASSUME NEW w \in Workers, Open(w)
      PROVE  dep' = [d \in Deposits |-> dep'[d]]
  <2>1. CASE Submit(w) \/ Adjust(w) \/ Approve(w) \/ Reject(w)
    BY <1>0, <2>1 DEF Submit, Adjust, Approve, Reject
  <2>2. CASE \/ StartPay(w) \/ StartVerify(w) \/ StartHand(w)
             \/ \E p \in Payments, e \in Events : Webhook(w, p, e)
    BY <1>1, <2>2 DEF StartPay, StartVerify, StartHand, Webhook
  <2> QED
    BY <1>4, <2>1, <2>2 DEF Open
<1>5. ASSUME NEW w \in Workers, Continue(w) \/ Crash(w) \/ Unsure(w)
      PROVE  dep' = [d \in Deposits |-> dep'[d]]
  <2>1. CASE Claim(w) \/ Revert(w) \/ Create(w) \/ Gateway(w) \/ Settle(w)
    BY <1>0, <2>1 DEF Claim, Revert, Create, Gateway, Settle
  <2>2. CASE Allocate(w) \/ Unsure(w)
    BY <1>0, <2>2 DEF Allocate, Unsure, Commit
  <2>3. CASE Report(w) \/ Ack(w) \/ Hand(w) \/ Crash(w)
    BY <1>1, <2>3 DEF Report, Ack, Hand, Crash
  <2> QED
    BY <1>5, <2>1, <2>2, <2>3 DEF Continue
<1> QED
  BY <1>2, <1>3, <1>4, <1>5 DEF Next

-----------------------------------------------------------------------------
(* The money of the orders. *)

\* What a step does to the money of the orders.
LEMMA MoneyMoves ==
  ASSUME TypeInv, [Next]_vars
  PROVE  \/ UNCHANGED <<remitted, handed>>
         \/ \E w \in Workers : Commits(w) /\ UNCHANGED <<collected, handed>>
         \/ \E w \in Workers, o \in Orders :
              /\ call[w].plan[o] <= Pending[o] /\ call[w].plan[o] > 0
              /\ remitted' = [remitted EXCEPT ![o] = @ + call[w].plan[o]]
              /\ handed' = [handed EXCEPT ![o] = @ + call[w].plan[o]]
              /\ UNCHANGED <<collected, dep>>
<1> USE DEF cash
<1>1. CASE UNCHANGED vars \/ Collect \/ JobSweep
  BY <1>1 DEF vars, Collect, JobSweep
<1>2. CASE (\E p \in Payments : RiderPays(p)) \/ (\E d \in Deposits : Fail(d))
  BY <1>2 DEF RiderPays, Fail
<1>3. ASSUME NEW w \in Workers, Open(w)
      PROVE  UNCHANGED <<remitted, handed>>
  BY <1>3 DEF Open, Submit, Adjust, Approve, Reject, StartPay, StartVerify, StartHand, Webhook
<1>4. ASSUME NEW w \in Workers, Allocate(w) \/ Unsure(w)
      PROVE  UNCHANGED <<remitted, handed>> \/ (Commits(w) /\ UNCHANGED <<collected, handed>>)
  BY <1>4 DEF Allocate, Unsure, Commits
<1>5. ASSUME NEW w \in Workers,
             \/ Claim(w) \/ Revert(w) \/ Create(w) \/ Gateway(w) \/ Settle(w) \/ Report(w)
             \/ Ack(w) \/ Crash(w)
      PROVE  UNCHANGED <<remitted, handed>>
  BY <1>5 DEF Claim, Revert, Create, Gateway, Settle, Report, Ack, Crash
<1>6. ASSUME NEW w \in Workers, Hand(w)
      PROVE  \/ UNCHANGED <<remitted, handed>>
             \/ \E o \in Orders :
                  /\ call[w].plan[o] <= Pending[o] /\ call[w].plan[o] > 0
                  /\ remitted' = [remitted EXCEPT ![o] = @ + call[w].plan[o]]
                  /\ handed' = [handed EXCEPT ![o] = @ + call[w].plan[o]]
                  /\ UNCHANGED <<collected, dep>>
  <2> DEFINE due == {o \in Orders : call[w].plan[o] > 0}
  <2>1. CASE UNCHANGED <<remitted, handed>>
    BY <2>1
  <2>2. CASE \E o \in due : (\A p \in due : o <= p) /\ call[w].plan[o] <= Pending[o]
    <3>1. PICK k \in due : (\A p \in due : k <= p) /\ call[w].plan[k] <= Pending[k]
      BY <2>2
    <3>2. PICK o \in due :
            /\ \A p \in due : o <= p
            /\ remitted' = [remitted EXCEPT ![o] = @ + call[w].plan[o]]
            /\ handed' = [handed EXCEPT ![o] = @ + call[w].plan[o]]
      BY <1>6, <2>2 DEF Hand
    <3>3. k <= o /\ o <= k
      BY <3>1, <3>2
    <3>4. o = k
      BY <3>3 DEF Orders
    <3> QED
      BY <1>6, <3>1, <3>2, <3>4 DEF Hand
  <2> QED
    BY <1>6, <2>1, <2>2 DEF Hand
<1> QED
  BY <1>1, <1>2, <1>3, <1>4, <1>5, <1>6 DEF Next, Continue

MoneyInv == WithinCollected /\ DepositsBalance /\ OldestFirst

\* An approval spreads what it verified over what is pending, the oldest order first.
LEMMA CommitMoney ==
  ASSUME TypeInv, MoneyInv, NEW w \in Workers, Commits(w), UNCHANGED collected
  PROVE  MoneyInv'
<1> DEFINE d == call[w].dep
<1>1. /\ call[w] \in Activations /\ Equipped(call[w])
      /\ dep \in [Deposits -> DepType] /\ remitted \in [Orders -> Nat]
      /\ \A o \in Orders : Amount[o] \in Nat
      /\ \A o \in Orders : o \in Int /\ collected \in Int
  BY AmountAssumption DEF TypeInv, TypeOK, Activations, Orders
<1>2. d \in Deposits
  BY <1>1 DEF Commits, Equipped, At, Working
<1>3. Verified(w) \in Nat
  BY <1>1, <1>2 DEF Verified, Activations, DepType
<1>4. PICK a \in [Orders -> 0..Verified(w)], left \in 0..Verified(w) :
        /\ Fills(a, left, Verified(w))
        /\ remitted' = [o \in Orders |-> remitted[o] + a[o]]
        /\ dep' = [dep EXCEPT ![d] =
             [@ EXCEPT !.status = IF Verified(w) < dep[d].amount
                                    THEN "PARTIALLY_APPROVED" ELSE "APPROVED",
                       !.verified = Verified(w), !.excess = left, !.allocated = a]]
  BY DEF Commits, Commit
<1>5. /\ \A o \in Orders : a[o] \in Nat
      /\ \A o \in Orders : remitted'[o] = remitted[o] + a[o] /\ a[o] <= Pending[o]
      /\ \A o, p \in Orders : o < p /\ a[p] > 0 => a[o] = Pending[o]
      /\ Total(a) + left = Verified(w)
  BY <1>3, <1>4 DEF Fills
<1>6. /\ dep'[d].status \in Settled /\ dep'[d].verified = Verified(w)
      /\ dep'[d].excess = left /\ dep'[d].allocated = a
      /\ \A e \in Deposits : e # d => dep'[e] = dep[e]
  BY <1>1, <1>2, <1>4 DEF DepType, Settled
<1>7. \A o \in Orders :
        Pending[o] = IF o <= collected THEN Amount[o] - remitted[o] ELSE 0
  BY DEF Pending
<1>8. WithinCollected'
  BY <1>1, <1>5, <1>7 DEF MoneyInv, WithinCollected
<1>9. DepositsBalance'
  BY <1>5, <1>6 DEF MoneyInv, DepositsBalance
<1>10. OldestFirst'
  <2> SUFFICES ASSUME NEW e \in Deposits, NEW o \in Orders, NEW p \in Orders,
                      o < p, dep'[e].allocated[p] > 0
               PROVE  remitted'[o] = Amount[o]
    BY DEF OldestFirst
  <2>1. CASE e = d
    <3>1. a[p] > 0 /\ a[o] = Pending[o]
      BY <1>5, <1>6, <2>1
    <3>2. p <= collected /\ o <= collected
      BY <1>1, <1>5, <1>7, <3>1
    <3> QED
      BY <1>1, <1>5, <1>7, <3>1, <3>2
  <2>2. CASE e # d
    <3>1. remitted[o] = Amount[o]
      BY <1>6, <2>2 DEF MoneyInv, OldestFirst
    <3>2. a[o] = 0
      BY <1>1, <1>5, <1>7, <3>1
    <3> QED
      BY <1>1, <1>5, <3>1, <3>2
  <2> QED
    BY <2>1, <2>2
<1> QED
  BY <1>8, <1>9, <1>10 DEF MoneyInv

\* A step that approves nothing leaves what the deposits allocated.
LEMMA BalanceStays ==
  ASSUME TypeInv, DepInv, CallInv, [Next]_vars, \A w \in Workers : ~Commits(w)
  PROVE  \A d \in Deposits :
           /\ dep'[d].allocated = dep[d].allocated
           /\ dep[d].status \in Settled \/ dep'[d].status \in Settled => dep'[d] = dep[d]
<1>0. /\ dep \in [Deposits -> DepType] /\ \A d \in Deposits : Sound(dep[d])
      /\ \A d \in Deposits : dep[d].status \in Settled => dep'[d] = dep[d]
  BY AllMove, MovesKeep DEF TypeInv, TypeOK, DepInv, Final
<1>1. CASE \E w \in Workers : Submit(w)
  <2>1. \A d \in Deposits : dep'[d] = dep[d] \/ Submitted(dep[d], dep'[d])
    BY <1>1, SubmitMove
  <2>2. ASSUME NEW d \in Deposits, Submitted(dep[d], dep'[d])
        PROVE  dep'[d].allocated = dep[d].allocated /\ dep'[d].status \notin Settled
    BY <1>0, <2>2 DEF Submitted, DepType, Settled
  <2> QED
    BY <1>0, <2>1, <2>2
<1>2. CASE \E w \in Workers : Offers(w)
  <2>1. \A d \in Deposits : dep'[d] = dep[d] \/ Offered(dep[d], dep'[d])
    BY <1>2, OfferMove
  <2>2. ASSUME NEW d \in Deposits, Offered(dep[d], dep'[d])
        PROVE  dep'[d].allocated = dep[d].allocated /\ dep'[d].status \notin Settled
    BY <1>0, <2>2, OthersKeep DEF Offered, Unpaid, Settled
  <2> QED
    BY <1>0, <2>1, <2>2
<1>3. CASE \A d \in Deposits : Becomes(dep[d], dep'[d])
  <2> TAKE d \in Deposits
  <2>1. /\ dep'[d].allocated = dep[d].allocated
        /\ dep'[d].status \in Settled => dep[d].status \in Settled
    BY <1>0, <1>3, BecomesKeeps
  <2> QED
    BY <1>0, <2>1
<1> QED
  BY <1>1, <1>2, <1>3, DepMoves

LEMMA CollectedMoves ==
  ASSUME [Next]_vars
  PROVE  UNCHANGED collected \/ (Collect /\ collected' = collected + 1 /\ UNCHANGED <<remitted, dep>>)
BY DEF Next, vars, cash, Collect, JobSweep, RiderPays, Fail, Open, Submit, Adjust, Approve,
   Reject, StartPay, StartVerify, StartHand, Webhook, Continue, Claim, Allocate, Revert,
   Create, Gateway, Settle, Report, Ack, Hand, Crash, Unsure

\* The money of the orders and the deposits, in every step.
LEMMA MoneyStep ==
  ASSUME TypeInv, DepInv, CallInv, MoneyInv, [Next]_vars
  PROVE  MoneyInv'
<1>0. /\ dep \in [Deposits -> DepType] /\ remitted \in [Orders -> Nat]
      /\ \A o \in Orders : Amount[o] \in Nat /\ o \in Int
      /\ collected \in Int
  BY AmountAssumption DEF TypeInv, TypeOK, Orders
<1>1. CASE UNCHANGED <<remitted, dep>> /\ collected' = collected + 1
  <2>1. WithinCollected'
    BY <1>0, <1>1 DEF MoneyInv, WithinCollected
  <2> QED
    BY <1>1, <2>1 DEF MoneyInv, DepositsBalance, OldestFirst
<1>2. CASE UNCHANGED collected /\ \E w \in Workers : Commits(w)
  BY <1>2, CommitMoney
<1>3. CASE UNCHANGED collected /\ \A w \in Workers : ~Commits(w)
  <2>1. DepositsBalance'
    BY <1>3, BalanceStays DEF MoneyInv, DepositsBalance
  <2>2. CASE UNCHANGED <<remitted, handed>>
    BY <1>3, <2>1, <2>2, BalanceStays DEF MoneyInv, WithinCollected, OldestFirst
  <2>3. ASSUME NEW w \in Workers, NEW o \in Orders,
               call[w].plan[o] <= Pending[o], call[w].plan[o] > 0,
               remitted' = [remitted EXCEPT ![o] = @ + call[w].plan[o]]
        PROVE  MoneyInv'
    <3>1. /\ Pending[o] = IF o <= collected THEN Amount[o] - remitted[o] ELSE 0
          /\ call[w].plan[o] \in Nat
      BY DEF Pending, TypeInv, TypeOK
    <3>2. /\ o <= collected /\ remitted[o] < Amount[o]
          /\ remitted'[o] <= Amount[o]
          /\ \A p \in Orders : p # o => remitted'[p] = remitted[p]
      BY <1>0, <2>3, <3>1
    <3>3. WithinCollected'
      BY <1>3, <3>2 DEF MoneyInv, WithinCollected
    <3>4. OldestFirst'
      BY <1>0, <1>3, <3>2, BalanceStays DEF MoneyInv, OldestFirst
    <3> QED
      BY <2>1, <3>3, <3>4 DEF MoneyInv
  <2> QED
    BY <1>3, <2>2, <2>3, MoneyMoves
<1> QED
  BY <1>1, <1>2, <1>3, CollectedMoves

-----------------------------------------------------------------------------
(* Sums.  The community modules define a sum by a recursive function over the subsets
   of its domain; what it computes follows from the least number principle, which
   the well-foundedness of the order of the numbers gives. *)

\* A set of numbers has a least one.
LEMMA LeastNat ==
  ASSUME NEW T, T \subseteq Nat, T # {}
  PROVE  \E n \in T : \A m \in T : ~(m < n)
<1>1. IsWellFoundedOn(OpToRel(<, Nat), Nat)
  BY NatLessThanWellFounded
<1>2. PICK n \in T : \A m \in T : ~(<<m, n>> \in OpToRel(<, Nat))
  BY <1>1, WFMin
<1>3. \A m \in T : ~(m < n)
  BY <1>2 DEF OpToRel
<1> QED
  BY <1>3

\* Induction on numbers, for the members of a set.
LEMMA NumberInduction ==
  ASSUME NEW G, 0 \in G, \A n \in Nat : n \in G => n + 1 \in G
  PROVE  Nat \subseteq G
<1> SUFFICES ASSUME Nat \ G # {}
             PROVE  FALSE
  OBVIOUS
<1>1. PICK n \in Nat \ G : \A m \in Nat \ G : ~(m < n)
  BY LeastNat
<1>2. n - 1 \in Nat /\ n - 1 < n
  BY <1>1
<1>3. n - 1 \in G
  BY <1>1, <1>2
<1>4. (n - 1) + 1 = n
  BY <1>1
<1> QED
  BY <1>1, <1>2, <1>3, <1>4

\* Induction on the size of a subset: a set of subsets that has the empty one, and
\* each one whose subsets with an element less it has, has them all.
LEMMA SubsetInduction ==
  ASSUME NEW S, IsFiniteSet(S), NEW G, {} \in G,
         \A s \in SUBSET S : s # {} /\ (\A x \in s : s \ {x} \in G) => s \in G
  PROVE  SUBSET S \subseteq G
<1> DEFINE Sizes == {Cardinality(s) : s \in (SUBSET S) \ G}
<1> SUFFICES ASSUME (SUBSET S) \ G # {}
             PROVE  FALSE
  OBVIOUS
<1>1. Sizes \subseteq Nat /\ Sizes # {}
  BY FS_Subset, FS_CardinalityType
<1>2. PICK n \in Sizes : \A m \in Sizes : ~(m < n)
  <2> HIDE DEF Sizes
  <2> QED
    BY <1>1, LeastNat
<1>3. PICK s \in (SUBSET S) \ G : Cardinality(s) = n
  BY <1>2
<1>4. \A x \in s : s \ {x} \in G
  <2> SUFFICES ASSUME NEW x \in s, s \ {x} \notin G
               PROVE  FALSE
    OBVIOUS
  <2>1. IsFiniteSet(s) /\ Cardinality(s) \in Nat
    BY <1>3, FS_Subset, FS_CardinalityType
  <2>2. Cardinality(s \ {x}) = n - 1
    BY <1>3, <2>1, FS_RemoveElement
  <2>3. Cardinality(s \ {x}) \in Sizes
    BY <1>3
  <2> QED
    BY <1>2, <1>3, <2>1, <2>2, <2>3
<1> QED
  BY <1>3, <1>4

\* The sum of f over every subset s of S, one element of s at a time.
First(s) == CHOOSE x \in s : TRUE
AddUp(f, h, s) == IF s = {} THEN 0 ELSE f[First(s)] + h[s \ {First(s)}]
Partial(f, S) == CHOOSE h : h = [s \in SUBSET S |-> AddUp(f, h, s)]

\* A total is the last of the partial sums.
LEMMA TotalPartial == ASSUME NEW f PROVE Total(f) = Partial(f, DOMAIN f)[DOMAIN f]
BY DEF Total, SumFunction, SumFunctionOnSet, FoldFunctionOnSet, MapThenFoldSet, Partial, AddUp, First

\* The element that is added last is one of the set.
LEMMA FirstIn == \A s : s # {} => First(s) \in s
BY DEF First

\* The partial sums exist: those of the subsets of n elements at most extend to those
\* of n + 1.
LEMMA PartialDef ==
  ASSUME NEW S, IsFiniteSet(S), NEW f
  PROVE  Partial(f, S) = [s \in SUBSET S |-> AddUp(f, Partial(f, S), s)]
<1> DEFINE Small(n) == {s \in SUBSET S : Cardinality(s) <= n}
           G == {n \in Nat : \E h : h = [s \in Small(n) |-> AddUp(f, h, s)]}
<1>1. \A s \in SUBSET S : IsFiniteSet(s) /\ Cardinality(s) \in Nat
  BY FS_Subset, FS_CardinalityType
<1>2. 0 \in G
  <2> DEFINE h == [s \in Small(0) |-> 0]
  <2>1. \A s \in Small(0) : s = {}
    BY <1>1, FS_EmptySet
  <2>2. h = [s \in Small(0) |-> AddUp(f, h, s)]
    BY <2>1 DEF AddUp
  <2> QED
    BY <2>2
<1>3. ASSUME NEW n \in Nat, n \in G
      PROVE  n + 1 \in G
  <2>1. PICK h : h = [s \in Small(n) |-> AddUp(f, h, s)]
    BY <1>3
  <2> DEFINE g == [s \in Small(n + 1) |-> AddUp(f, h, s)]
  <2>2. \A s \in Small(n) : s \in Small(n + 1) /\ g[s] = h[s]
    <3>1. \A s \in Small(n) : s \in Small(n + 1)
      BY <1>1
    <3>2. \A s \in Small(n) : h[s] = AddUp(f, h, s)
      BY <2>1
    <3> HIDE DEF Small
    <3> QED
      BY <3>1, <3>2
  <2>3. \A s \in Small(n + 1) : AddUp(f, h, s) = AddUp(f, g, s)
    <3> SUFFICES ASSUME NEW s \in Small(n + 1), s # {}
                 PROVE  h[s \ {First(s)}] = g[s \ {First(s)}]
      BY DEF AddUp
    <3>1. First(s) \in s
      BY FirstIn
    <3>2. Cardinality(s \ {First(s)}) = Cardinality(s) - 1
      BY <1>1, <3>1, FS_RemoveElement
    <3>3. s \ {First(s)} \in Small(n)
      BY <1>1, <3>2
    <3> QED
      BY <2>2, <3>3
  <2>4. g = [s \in Small(n + 1) |-> AddUp(f, g, s)]
    <3> HIDE DEF Small
    <3> QED
      BY <2>3
  <2> HIDE DEF g
  <2> QED
    BY <2>4
<1>4. Cardinality(S) \in G
  <2> HIDE DEF G
  <2> QED
    BY <1>1, <1>2, <1>3, NumberInduction
<1>5. Small(Cardinality(S)) = SUBSET S
  BY FS_Subset, <1>1
<1>6. \E h : h = [s \in SUBSET S |-> AddUp(f, h, s)]
  BY <1>4, <1>5
<1> QED
  BY <1>6 DEF Partial

\* The partial sum of one subset.
LEMMA PartialAt ==
  ASSUME NEW S, IsFiniteSet(S), NEW f, NEW s \in SUBSET S
  PROVE  Partial(f, S)[s] = AddUp(f, Partial(f, S), s)
<1> DEFINE h == Partial(f, S)
<1>1. h = [t \in SUBSET S |-> AddUp(f, h, t)]
  BY PartialDef
<1> HIDE DEF h
<1>2. h[s] = AddUp(f, h, s)
  BY <1>1
<1> QED
  BY <1>2 DEF h

\* A sum of naturals is a natural.
LEMMA SumType ==
  ASSUME NEW S, IsFiniteSet(S), NEW f \in [S -> Nat]
  PROVE  \A s \in SUBSET S : Partial(f, S)[s] \in Nat
<1> DEFINE G == {s \in SUBSET S : Partial(f, S)[s] \in Nat}
<1>1. \A s \in SUBSET S : Partial(f, S)[s] = AddUp(f, Partial(f, S), s)
  BY PartialAt
<1>2. {} \in G
  BY <1>1 DEF AddUp
<1>3. ASSUME NEW s \in SUBSET S, s # {}, \A x \in s : s \ {x} \in G
      PROVE  s \in G
  <2>1. First(s) \in s /\ First(s) \in S
    BY <1>3, FirstIn
  <2>2. Partial(f, S)[s \ {First(s)}] \in Nat
    BY <1>3, <2>1
  <2>3. Partial(f, S)[s] = f[First(s)] + Partial(f, S)[s \ {First(s)}]
    BY <1>1, <1>3 DEF AddUp
  <2> QED
    BY <2>1, <2>2, <2>3
<1> HIDE DEF G
<1>4. SUBSET S \subseteq G
  BY <1>2, <1>3, SubsetInduction
<1> QED
  BY <1>4 DEF G

\* A term that changes changes every sum it is in by as much.
LEMMA SumChange ==
  ASSUME NEW S, IsFiniteSet(S), NEW f \in [S -> Nat], NEW g \in [S -> Nat], NEW d \in S,
         \A x \in S : x # d => g[x] = f[x]
  PROVE  \A s \in SUBSET S :
           Partial(g, S)[s] = Partial(f, S)[s] + IF d \in s THEN g[d] - f[d] ELSE 0
<1> DEFINE G == {s \in SUBSET S :
                   Partial(g, S)[s] = Partial(f, S)[s] + IF d \in s THEN g[d] - f[d] ELSE 0}
<1>1. \A s \in SUBSET S : Partial(f, S)[s] = AddUp(f, Partial(f, S), s) /\ Partial(f, S)[s] \in Nat
  BY PartialAt, SumType
<1>2. \A s \in SUBSET S : Partial(g, S)[s] = AddUp(g, Partial(g, S), s) /\ Partial(g, S)[s] \in Nat
  BY PartialAt, SumType
<1>3. {} \in G
  <2>1. Partial(f, S)[{}] = 0
    BY <1>1 DEF AddUp
  <2>2. Partial(g, S)[{}] = 0
    BY <1>2 DEF AddUp
  <2> QED
    BY <2>1, <2>2
<1>4. ASSUME NEW s \in SUBSET S, s # {}, \A x \in s : s \ {x} \in G
      PROVE  s \in G
  <2> DEFINE x == First(s)
             t == s \ {x}
  <2>1. x \in s /\ x \in S /\ t \in SUBSET S /\ t \in G
    BY <1>4, FirstIn
  <2>2. Partial(f, S)[s] = f[x] + Partial(f, S)[t] /\ Partial(g, S)[s] = g[x] + Partial(g, S)[t]
    BY <1>1, <1>2, <1>4 DEF AddUp
  <2>3. Partial(f, S)[t] \in Nat /\ Partial(g, S)[t] \in Nat /\ f[x] \in Nat /\ f[d] \in Nat /\ g[x] \in Nat
    BY <1>1, <1>2, <2>1
  <2>4. d \in t <=> d \in s /\ d # x
    OBVIOUS
  <2>5. Partial(g, S)[t] = Partial(f, S)[t] + IF d \in t THEN g[d] - f[d] ELSE 0
    BY <2>1
  <2> HIDE DEF x, t
  <2>6. CASE d = x
    BY <2>1, <2>2, <2>3, <2>4, <2>5, <2>6
  <2>7. CASE d # x
    BY <2>1, <2>2, <2>3, <2>4, <2>5, <2>7
  <2> QED
    BY <2>6, <2>7
<1> HIDE DEF G
<1>5. SUBSET S \subseteq G
  BY <1>3, <1>4, SubsetInduction
<1> QED
  BY <1>5 DEF G

\* Nothing sums up to zero.
LEMMA SumZero ==
  ASSUME NEW S, IsFiniteSet(S)
  PROVE  Total([x \in S |-> 0]) = 0
<1> DEFINE f == [x \in S |-> 0]
           G == {s \in SUBSET S : Partial(f, S)[s] = 0}
<1>1. \A s \in SUBSET S : Partial(f, S)[s] = AddUp(f, Partial(f, S), s)
  BY PartialAt
<1>2. {} \in G
  BY <1>1 DEF AddUp
<1>3. ASSUME NEW s \in SUBSET S, s # {}, \A x \in s : s \ {x} \in G
      PROVE  s \in G
  <2>1. First(s) \in s /\ First(s) \in S
    BY <1>3, FirstIn
  <2>2. Partial(f, S)[s \ {First(s)}] = 0
    BY <1>3, <2>1
  <2>3. Partial(f, S)[s] = f[First(s)] + Partial(f, S)[s \ {First(s)}]
    BY <1>1, <1>3 DEF AddUp
  <2> QED
    BY <2>1, <2>2, <2>3
<1>4. SUBSET S \subseteq G
  <2> HIDE DEF G
  <2> QED
    BY <1>2, <1>3, SubsetInduction
<1> QED
  BY <1>4, TotalPartial

\* What the total of a table of naturals is.
LEMMA TotalType ==
  ASSUME NEW S, IsFiniteSet(S), NEW f \in [S -> Nat]
  PROVE  Total(f) \in Nat
BY SumType, TotalPartial

\* A new entry changes the total by as much.
LEMMA TotalChange ==
  ASSUME NEW S, IsFiniteSet(S), NEW f \in [S -> Nat], NEW g \in [S -> Nat], NEW d \in S,
         \A x \in S : x # d => g[x] = f[x]
  PROVE  Total(g) = Total(f) + (g[d] - f[d])
<1>1. Total(f) = Partial(f, S)[S] /\ Total(g) = Partial(g, S)[S]
  BY TotalPartial
<1>2. \A s \in SUBSET S :
        Partial(g, S)[s] = Partial(f, S)[s] + IF d \in s THEN g[d] - f[d] ELSE 0
  BY SumChange
<1>3. Partial(g, S)[S] = Partial(f, S)[S] + (g[d] - f[d])
  BY <1>2
<1> QED
  BY <1>1, <1>3

\* Tables that grow entry by entry grow in total.
LEMMA SumGrows ==
  ASSUME NEW S, IsFiniteSet(S), NEW f \in [S -> Nat], NEW g \in [S -> Nat],
         \A x \in S : f[x] <= g[x]
  PROVE  \A s \in SUBSET S : Partial(f, S)[s] <= Partial(g, S)[s]
<1> DEFINE G == {s \in SUBSET S : Partial(f, S)[s] <= Partial(g, S)[s]}
<1>1. \A s \in SUBSET S : Partial(f, S)[s] = AddUp(f, Partial(f, S), s) /\ Partial(f, S)[s] \in Nat
  BY PartialAt, SumType
<1>2. \A s \in SUBSET S : Partial(g, S)[s] = AddUp(g, Partial(g, S), s) /\ Partial(g, S)[s] \in Nat
  BY PartialAt, SumType
<1>3. {} \in G
  <2>1. Partial(f, S)[{}] = 0
    BY <1>1 DEF AddUp
  <2>2. Partial(g, S)[{}] = 0
    BY <1>2 DEF AddUp
  <2> QED
    BY <2>1, <2>2
<1>4. ASSUME NEW s \in SUBSET S, s # {}, \A x \in s : s \ {x} \in G
      PROVE  s \in G
  <2> DEFINE x == First(s)
             t == s \ {x}
  <2>1. x \in s /\ x \in S /\ t \in SUBSET S /\ t \in G
    BY <1>4, FirstIn
  <2>2. Partial(f, S)[s] = f[x] + Partial(f, S)[t] /\ Partial(g, S)[s] = g[x] + Partial(g, S)[t]
    BY <1>1, <1>2, <1>4 DEF AddUp
  <2>3. Partial(f, S)[t] \in Nat /\ Partial(g, S)[t] \in Nat /\ f[x] \in Nat /\ g[x] \in Nat
    BY <1>1, <1>2, <2>1
  <2>4. Partial(f, S)[t] <= Partial(g, S)[t] /\ f[x] <= g[x]
    BY <2>1
  <2> HIDE DEF x, t
  <2>5. Partial(f, S)[s] <= Partial(g, S)[s]
    BY <2>2, <2>3, <2>4
  <2> QED
    BY <2>5
<1> HIDE DEF G
<1>5. SUBSET S \subseteq G
  BY <1>3, <1>4, SubsetInduction
<1> QED
  BY <1>5 DEF G

LEMMA TotalGrows ==
  ASSUME NEW S, IsFiniteSet(S), NEW f \in [S -> Nat], NEW g \in [S -> Nat], NEW d \in S,
         \A x \in S : f[x] <= g[x]
  PROVE  Total(f) <= Total(g) /\ (f[d] < g[d] => Total(f) < Total(g))
<1>1. \A h \in [S -> Nat] : (\A x \in S : h[x] <= g[x]) => Total(h) <= Total(g)
  BY SumGrows, TotalPartial
<1> DEFINE h == [f EXCEPT ![d] = g[d]]
<1>2. /\ h \in [S -> Nat] /\ h[d] = g[d]
      /\ \A x \in S : x # d => h[x] = f[x]
      /\ \A x \in S : h[x] <= g[x]
  OBVIOUS
<1> HIDE DEF h
<1>3. Total(h) = Total(f) + (h[d] - f[d])
  BY <1>2, TotalChange
<1>4. Total(h) <= Total(g) /\ Total(f) <= Total(g)
  BY <1>1, <1>2
<1>5. Total(f) \in Nat /\ Total(g) \in Nat /\ f[d] \in Nat /\ g[d] \in Nat
  BY TotalType
<1> QED
  BY <1>2, <1>3, <1>4, <1>5

\* An entry is at most the total.
LEMMA EntryWithin ==
  ASSUME NEW S, IsFiniteSet(S), NEW f \in [S -> Nat], NEW d \in S
  PROVE  f[d] <= Total(f)
<1> DEFINE h == [f EXCEPT ![d] = 0]
<1>1. h \in [S -> Nat] /\ h[d] = 0 /\ \A x \in S : x # d => h[x] = f[x]
  OBVIOUS
<1> HIDE DEF h
<1>2. Total(h) = Total(f) + (h[d] - f[d]) /\ Total(h) \in Nat /\ Total(f) \in Nat
  BY <1>1, TotalChange, TotalType
<1> QED
  BY <1>1, <1>2

LEMMA TablesFinite == IsFiniteSet(Deposits) /\ IsFiniteSet(Orders)
<1>1. MaxDeposits \in Int /\ MaxOrders \in Int
  BY BoundAssumption
<1>2. IsFiniteSet(1..MaxDeposits) /\ IsFiniteSet(1..MaxOrders)
  BY <1>1, FS_Interval
<1> QED
  BY <1>2 DEF Deposits, Orders

-----------------------------------------------------------------------------
(* The books of one order. *)

\* What the deposits allocated to an order.
Shares(o) == [d \in Deposits |-> dep[d].allocated[o]]

BookInv == \A o \in Orders : remitted[o] = handed[o] + Total(Shares(o))

\* An approval credits an order by what its deposit allocates to it, and the deposit
\* had allocated nothing before.
LEMMA CommitBook ==
  ASSUME TypeInv, MoneyInv, BookInv, NEW w \in Workers, Commits(w), UNCHANGED handed
  PROVE  BookInv'
<1> DEFINE d == call[w].dep
<1>1. /\ call[w] \in Activations /\ Equipped(call[w])
      /\ dep \in [Deposits -> DepType] /\ remitted \in [Orders -> Nat]
      /\ handed \in [Orders -> Nat]
  BY DEF TypeInv, TypeOK, Activations
<1>2. d \in Deposits
  BY <1>1 DEF Commits, Equipped, At, Working
<1>3. Verified(w) \in Nat
  BY <1>1, <1>2 DEF Verified, Activations, DepType
<1>4. PICK a \in [Orders -> 0..Verified(w)], left \in 0..Verified(w) :
        /\ remitted' = [o \in Orders |-> remitted[o] + a[o]]
        /\ dep' = [dep EXCEPT ![d] =
             [@ EXCEPT !.status = IF Verified(w) < dep[d].amount
                                    THEN "PARTIALLY_APPROVED" ELSE "APPROVED",
                       !.verified = Verified(w), !.excess = left, !.allocated = a]]
  BY DEF Commits, Commit
<1>5. \A o \in Orders : a[o] \in Nat /\ remitted'[o] = remitted[o] + a[o]
  BY <1>3, <1>4
<1>6. dep'[d].allocated = a /\ \A e \in Deposits : e # d => dep'[e] = dep[e]
  BY <1>1, <1>2, <1>4 DEF DepType
<1>7. dep[d].allocated = Nothing
  BY <1>2 DEF Commits, MoneyInv, DepositsBalance, Settled
<1> SUFFICES ASSUME NEW o \in Orders
             PROVE  remitted'[o] = handed[o] + Total(Shares(o)')
  BY DEF BookInv
<1>8. Shares(o) \in [Deposits -> Nat] /\ Shares(o)[d] = 0
  BY <1>1, <1>2, <1>7 DEF Shares, DepType, Nothing
<1>9. /\ Shares(o)' \in [Deposits -> Nat] /\ Shares(o)'[d] = a[o]
      /\ \A e \in Deposits : e # d => Shares(o)'[e] = Shares(o)[e]
  BY <1>2, <1>5, <1>6, <1>8 DEF Shares
<1>10. Total(Shares(o)') = Total(Shares(o)) + (a[o] - 0) /\ Total(Shares(o)) \in Nat
  <2> DEFINE f == Shares(o)
             g == Shares(o)'
  <2>1. /\ f \in [Deposits -> Nat] /\ f[d] = 0 /\ g \in [Deposits -> Nat] /\ g[d] = a[o]
        /\ \A e \in Deposits : e # d => g[e] = f[e]
    BY <1>8, <1>9
  <2> HIDE DEF f, g, d
  <2>2. Total(g) = Total(f) + (g[d] - f[d])
    BY <1>2, <2>1, TablesFinite, TotalChange
  <2>3. Total(f) \in Nat
    BY <2>1, TablesFinite, TotalType
  <2>4. Total(g) = Total(f) + (a[o] - 0)
    BY <2>1, <2>2
  <2> QED
    BY <2>3, <2>4 DEF f, g
<1>11. remitted[o] = handed[o] + Total(Shares(o)) /\ handed[o] \in Nat
  BY <1>1 DEF BookInv
<1> QED
  BY <1>5, <1>10, <1>11

\* Every other step credits an order by what was handed in without a deposit.
LEMMA BookStep ==
  ASSUME TypeInv, DepInv, CallInv, MoneyInv, BookInv, [Next]_vars
  PROVE  BookInv'
<1>0. /\ dep \in [Deposits -> DepType] /\ remitted \in [Orders -> Nat]
      /\ handed \in [Orders -> Nat]
  BY DEF TypeInv, TypeOK
<1>1. ASSUME NEW w \in Workers, NEW o \in Orders, UNCHANGED dep,
             remitted' = [remitted EXCEPT ![o] = @ + call[w].plan[o]],
             handed' = [handed EXCEPT ![o] = @ + call[w].plan[o]]
      PROVE  BookInv'
  <2> SUFFICES ASSUME NEW p \in Orders
               PROVE  remitted'[p] = handed'[p] + Total(Shares(p))
    BY <1>1 DEF BookInv, Shares
  <2>1. remitted[p] = handed[p] + Total(Shares(p)) /\ handed[p] \in Nat
    BY <1>0 DEF BookInv
  <2>2. Shares(p) \in [Deposits -> Nat]
    BY <1>0 DEF Shares, DepType
  <2>3. Total(Shares(p)) \in Nat
    BY <2>2, TablesFinite, TotalType
  <2>4. call[w].plan[o] \in Nat
    BY DEF TypeInv, TypeOK
  <2> QED
    BY <1>0, <1>1, <2>1, <2>3, <2>4
<1>2. CASE UNCHANGED handed /\ \E w \in Workers : Commits(w)
  BY <1>2, CommitBook
<1>3. CASE UNCHANGED <<remitted, handed>> /\ \A w \in Workers : ~Commits(w)
  <2>1. \A o \in Orders : Shares(o)' = Shares(o)
    BY <1>3, BalanceStays DEF Shares
  <2> QED
    BY <1>3, <2>1 DEF BookInv
<1> QED
  BY <1>1, <1>2, <1>3, MoneyMoves

-----------------------------------------------------------------------------
(* The allocation of an amount. *)

\* Of two allocations of one amount, none gives less to the first order they differ in.
LEMMA FillsOrdered ==
  ASSUME Pending \in [Orders -> Nat], NEW v \in Nat,
         NEW a \in [Orders -> Nat], NEW b \in [Orders -> Nat],
         NEW l \in Nat, NEW m \in Nat, Fills(a, l, v), Fills(b, m, v),
         NEW o \in Orders, \A p \in Orders : p < o => a[p] = b[p]
  PROVE  ~(a[o] < b[o])
<1> SUFFICES ASSUME a[o] < b[o]
             PROVE  FALSE
  OBVIOUS
<1>1. \A p \in Orders : a[p] \in Nat /\ b[p] \in Nat /\ p \in Int /\ Pending[p] \in Nat
  BY DEF Orders
<1>2. a[o] < Pending[o]
  BY <1>1 DEF Fills
<1>3. l = 0
  BY <1>1, <1>2 DEF Fills
<1>4. \A p \in Orders : o < p => a[p] = 0
  BY <1>1, <1>2 DEF Fills
<1>5. \A p \in Orders : a[p] <= b[p]
  BY <1>1, <1>4
<1>6. Total(a) < Total(b)
  BY <1>5, TablesFinite, TotalGrows
<1>7. Total(a) \in Nat /\ Total(b) \in Nat
  BY TablesFinite, TotalType
<1>8. Total(a) + l = v /\ Total(b) + m = v
  BY DEF Fills
<1> QED
  BY <1>3, <1>6, <1>7, <1>8

\* An amount is allocated in one way at most,
LEMMA FillsUnique ==
  ASSUME Pending \in [Orders -> Nat], NEW v \in Nat,
         NEW a \in [Orders -> Nat], NEW b \in [Orders -> Nat],
         NEW l \in Nat, NEW m \in Nat, Fills(a, l, v), Fills(b, m, v)
  PROVE  a = b /\ l = m
<1> DEFINE Apart == {o \in Orders : a[o] # b[o]}
<1>1. Apart = {}
  <2> SUFFICES ASSUME Apart # {}
               PROVE  FALSE
    OBVIOUS
  <2>1. Apart \subseteq Nat
    BY DEF Orders
  <2>2. PICK o \in Apart : \A p \in Apart : ~(p < o)
    <3> HIDE DEF Apart
    <3> QED
      BY <2>1, LeastNat
  <2>3. \A p \in Orders : p < o => a[p] = b[p]
    BY <2>2
  <2>4. ~(a[o] < b[o]) /\ ~(b[o] < a[o])
    BY <2>3, FillsOrdered
  <2>5. a[o] \in Nat /\ b[o] \in Nat
    OBVIOUS
  <2> QED
    BY <2>2, <2>4, <2>5
<1>2. a = b
  BY <1>1
<1>3. Total(a) + l = v /\ Total(b) + m = v /\ Total(a) \in Nat
  BY TablesFinite, TotalType DEF Fills
<1> QED
  BY <1>2, <1>3

\* and in one way at least: the next rupee goes to the oldest order that is not filled.
LEMMA FillsExist ==
  ASSUME Pending \in [Orders -> Nat]
  PROVE  \A v \in Nat : \E a \in [Orders -> Nat], l \in Nat : Fills(a, l, v)
<1> DEFINE G == {v \in Nat : \E a \in [Orders -> Nat], l \in Nat : Fills(a, l, v)}
<1>1. 0 \in G
  <2>1. Nothing \in [Orders -> Nat] /\ \A o \in Orders : Nothing[o] = 0 /\ Nothing[o] <= Pending[o]
    BY DEF Nothing
  <2>2. Total(Nothing) = 0
    BY TablesFinite, SumZero DEF Nothing
  <2>3. Fills(Nothing, 0, 0)
    BY <2>1, <2>2 DEF Fills
  <2> QED
    BY <2>1, <2>3
<1>2. ASSUME NEW v \in Nat, v \in G
      PROVE  v + 1 \in G
  <2>1. PICK a \in [Orders -> Nat], l \in Nat : Fills(a, l, v)
    BY <1>2
  <2>2. /\ \A o \in Orders : a[o] \in Nat /\ Pending[o] \in Nat /\ a[o] <= Pending[o] /\ o \in Int
        /\ \A o, p \in Orders : o < p /\ a[p] > 0 => a[o] = Pending[o]
        /\ l > 0 => a = Pending
        /\ Total(a) + l = v /\ Total(a) \in Nat
    <3>1. Total(a) \in Nat
      BY TablesFinite, TotalType
    <3>2. \A o \in Orders : o \in Int
      BY DEF Orders
    <3> QED
      BY <2>1, <3>1, <3>2 DEF Fills
  <2>3. CASE a = Pending
    <3>1. Total(a) + (l + 1) = v + 1
      BY <2>2
    <3>2. Fills(a, l + 1, v + 1)
      BY <2>2, <2>3, <3>1 DEF Fills
    <3>3. l + 1 \in Nat
      OBVIOUS
    <3> QED
      BY <3>2, <3>3
  <2>4. CASE a # Pending
    <3> DEFINE Short == {o \in Orders : a[o] < Pending[o]}
    <3>1. Short \subseteq Nat
      BY DEF Orders
    <3>2. Short # {}
      BY <2>2, <2>4
    <3>3. PICK o \in Short : \A p \in Short : ~(p < o)
      <4> HIDE DEF Short
      <4> QED
        BY <3>1, <3>2, LeastNat
    <3>4. /\ \A p \in Orders : p < o => a[p] = Pending[p]
          /\ \A p \in Orders : o < p => a[p] = 0
      BY <2>2, <3>3
    <3> DEFINE b == [a EXCEPT ![o] = a[o] + 1]
    <3>5. /\ b \in [Orders -> Nat] /\ b[o] = a[o] + 1
          /\ \A p \in Orders : p # o => b[p] = a[p]
      BY <2>2
    <3> HIDE DEF b
    <3>6. Total(b) = Total(a) + (b[o] - a[o])
      BY <3>3, <3>5, TablesFinite, TotalChange
    <3>7. Total(b) + 0 = v + 1
      BY <2>2, <2>4, <3>3, <3>5, <3>6
    <3>8. \A p \in Orders : b[p] <= Pending[p]
      BY <2>2, <3>3, <3>5
    <3>9. ASSUME NEW p \in Orders, NEW q \in Orders, p < q, b[q] > 0
          PROVE  b[p] = Pending[p]
      <4>1. ~(o < q)
        BY <2>2, <3>4, <3>5, <3>9
      <4>2. p < o
        BY <2>2, <3>3, <3>9, <4>1
      <4> QED
        BY <2>2, <3>4, <3>5, <4>2
    <3>10. Fills(b, 0, v + 1)
      BY <3>7, <3>8, <3>9 DEF Fills
    <3> QED
      BY <3>5, <3>10
  <2> QED
    BY <2>3, <2>4
<1> HIDE DEF G
<1>3. Nat \subseteq G
  BY <1>1, <1>2, NumberInduction
<1> QED
  BY <1>3 DEF G

\* The allocation of v is one of those that Commit and StartHand choose from, and the
\* only one.
Determined(v) ==
  \E a \in [Orders -> 0..v], left \in 0..v :
    /\ Fills(a, left, v)
    /\ \A b \in [Orders -> 0..v], m \in 0..v : Fills(b, m, v) => b = a /\ m = left

LEMMA FillsDetermined ==
  ASSUME Pending \in [Orders -> Nat], NEW v \in Nat
  PROVE  Determined(v)
<1>1. PICK a \in [Orders -> Nat], l \in Nat : Fills(a, l, v)
  BY FillsExist
<1>2. Total(a) + l = v /\ Total(a) \in Nat
  BY <1>1, TablesFinite, TotalType DEF Fills
<1>3. \A o \in Orders : a[o] <= Total(a) /\ a[o] \in Nat
  BY TablesFinite, EntryWithin
<1>4. a \in [Orders -> 0..v] /\ l \in 0..v
  BY <1>2, <1>3
<1>5. ASSUME NEW b \in [Orders -> 0..v], NEW m \in 0..v, Fills(b, m, v)
      PROVE  b = a /\ m = l
  <2>1. b \in [Orders -> Nat] /\ m \in Nat
    OBVIOUS
  <2> QED
    BY <1>1, <1>5, <2>1, FillsUnique
<1> QED
  BY <1>1, <1>4, <1>5 DEF Determined

-----------------------------------------------------------------------------
(* The type invariant, and what is said of the deposits, in every step. *)

LEMMA TypeStep ==
  ASSUME TypeInv, DepInv, CallInv, MoneyInv, [Next]_vars
  PROVE  TypeInv'
<1>0. TypeOK /\ \A w \in Workers : Equipped(call[w]) /\ call[w] \in Activations
  BY DEF TypeInv, TypeOK, Activations
<1>1. collected' \in 0..MaxOrders /\ crashes' \in 0..MaxCrash
  <2>1. UNCHANGED crashes \/ (crashes < MaxCrash /\ crashes' = crashes + 1)
    BY DEF Next, vars, Collect, JobSweep, RiderPays, Fail, Open, Submit, Adjust, Approve,
       Reject, StartPay, StartVerify, StartHand, Webhook, Continue, Claim, Allocate, Revert,
       Create, Gateway, Settle, Report, Ack, Hand, Crash, Unsure
  <2>2. crashes' \in 0..MaxCrash
    BY <1>0, <2>1, BoundAssumption DEF TypeOK
  <2>3. collected' \in 0..MaxOrders
    BY <1>0, CollectedMoves, BoundAssumption DEF TypeOK, Collect
  <2> QED
    BY <2>2, <2>3
<1>2. dep' \in [Deposits -> DepType]
  <2>1. \A d \in Deposits : dep[d] \in DepType
    BY <1>0 DEF TypeOK
  <2>2. \A d \in Deposits : dep'[d] \in DepType
    BY <2>1, AllMove, MovesType
  <2> QED
    BY <1>0, <2>2, DepTable
<1>3. remitted' \in [Orders -> Nat] /\ handed' \in [Orders -> Nat]
  <2>1. CASE UNCHANGED <<remitted, handed>>
    BY <1>0, <2>1 DEF TypeOK
  <2>2. ASSUME NEW w \in Workers, Commits(w), UNCHANGED handed
        PROVE  remitted' \in [Orders -> Nat] /\ handed' \in [Orders -> Nat]
    <3>1. PICK a \in [Orders -> 0..Verified(w)] :
            remitted' = [o \in Orders |-> remitted[o] + a[o]]
      BY <2>2 DEF Commits, Commit
    <3>2. Verified(w) \in Nat
      <4>1. call[w].dep \in Deposits
        BY <1>0, <2>2 DEF Commits, Equipped, At, Working
      <4> QED
        BY <1>0, <4>1 DEF Verified, Activations, TypeOK, DepType
    <3> QED
      BY <1>0, <2>2, <3>1, <3>2 DEF TypeOK
  <2>3. ASSUME NEW w \in Workers, NEW o \in Orders,
               remitted' = [remitted EXCEPT ![o] = @ + call[w].plan[o]],
               handed' = [handed EXCEPT ![o] = @ + call[w].plan[o]]
        PROVE  remitted' \in [Orders -> Nat] /\ handed' \in [Orders -> Nat]
    <3>1. call[w].plan[o] \in Nat
      BY <1>0 DEF Activations
    <3> QED
      BY <1>0, <2>3, <3>1 DEF TypeOK
  <2> QED
    BY <2>1, <2>2, <2>3, MoneyMoves
<1>4. captured' \in [Payments -> Deposits \cup {None}]
  <2>1. UNCHANGED captured \/ \E p \in Payments : RiderPays(p)
    BY DEF Next, vars, gateway, Collect, JobSweep, Fail, Open, Submit, Adjust, Approve,
       Reject, StartPay, StartVerify, StartHand, Webhook, Continue, Claim, Allocate, Revert,
       Create, Gateway, Settle, Report, Ack, Hand, Crash, Unsure, Abandon
  <2> QED
    BY <1>0, <2>1 DEF TypeOK, RiderPays
<1>5. reported' \subseteq Payments /\ acked' \subseteq Payments \X Events /\ lost' \subseteq Deposits
  <2>1. \/ UNCHANGED <<reported, acked, lost>>
        \/ \E w \in Workers : Report(w) \/ Ack(w) \/ Revert(w) \/ Crash(w)
    <3>1. CASE ~\E w \in Workers : Acts(w)
      BY <3>1 DEF Next, vars, gateway, Collect, JobSweep, RiderPays, Fail, Acts
    <3>2. ASSUME NEW w \in Workers, Open(w)
          PROVE  UNCHANGED gateway
      BY <3>2 DEF Open, Submit, Adjust, Approve, Reject, StartPay, StartVerify, StartHand,
         Webhook
    <3>3. ASSUME NEW w \in Workers,
                 \/ Claim(w) \/ Allocate(w) \/ Create(w) \/ Gateway(w) \/ Settle(w)
                 \/ Hand(w) \/ Unsure(w)
          PROVE  UNCHANGED gateway
      BY <3>3 DEF Claim, Allocate, Create, Gateway, Settle, Hand, Unsure, gateway
    <3> QED
      BY <3>1, <3>2, <3>3 DEF Acts, Continue, gateway
  <2>2. ASSUME NEW w \in Workers, Report(w) \/ Ack(w)
        PROVE  reported' \subseteq Payments /\ acked' \subseteq Payments \X Events /\ lost' \subseteq Deposits
    BY <1>0, <2>2 DEF Report, Ack, At, Equipped, TypeOK
  <2>3. ASSUME NEW w \in Workers, Revert(w) \/ Crash(w)
        PROVE  reported' \subseteq Payments /\ acked' \subseteq Payments \X Events /\ lost' \subseteq Deposits
    <3>1. UNCHANGED lost \/ (call[w].dep \in Deposits /\ lost' = lost \cup {call[w].dep})
      BY <1>0, <2>3 DEF Revert, Crash, Abandon, At, Equipped, Working, Approving
    <3> QED
      BY <1>0, <2>3, <3>1 DEF Revert, Crash, TypeOK
  <2> QED
    BY <1>0, <2>1, <2>2, <2>3 DEF TypeOK
<1>6. /\ call' \in [Workers -> Activations]
      /\ \A w \in Workers : Equipped(call[w])'
  <2>1. CASE UNCHANGED call
    BY <1>0, <2>1 DEF TypeOK, Activations, Equipped
  <2>2. ASSUME NEW w \in Workers, Acts(w), ~UNCHANGED call
        PROVE  /\ call' \in [Workers -> Activations]
               /\ \A v \in Workers : Equipped(call'[v])
    BY <1>0, <2>2, SlotType DEF SlotOK
  <2>3. \A w \in Workers : Equipped(call[w])' <=> Equipped(call'[w])
    BY DEF Equipped
  <2>4. UNCHANGED call \/ \E w \in Workers : Acts(w)
    BY DEF Next, vars, Acts, Collect, JobSweep, RiderPays, Fail
  <2> QED
    BY <2>1, <2>2, <2>3, <2>4
<1> QED
  BY <1>1, <1>2, <1>3, <1>4, <1>5, <1>6 DEF TypeInv, TypeOK, Activations

\* Every deposit stays sound, and a captured payment is of an order that was given.
LEMMA DepStep ==
  ASSUME TypeInv, DepInv, CallInv, [Next]_vars
  PROVE  DepInv'
<1>0. \A d \in Deposits : dep[d] \in DepType /\ Sound(dep[d]) /\ Moves(dep[d], dep'[d])
  BY AllMove DEF TypeInv, TypeOK, DepInv
<1>1. \A d \in Deposits : Sound(dep'[d]) /\ (dep[d].checkout => dep'[d].checkout)
  BY <1>0, MovesSound, MovesKeep
<1>2. \A d \in Deposits : Sound(dep[d])' <=> Sound(dep'[d])
  BY DEF Sound
<1>3. \A p \in Payments : captured'[p] # None =>
        /\ captured'[p] \in Deposits
        /\ dep[captured'[p]].checkout
  <2>1. UNCHANGED captured \/ \E p \in Payments : RiderPays(p)
    BY DEF Next, vars, gateway, Collect, JobSweep, Fail, Open, Submit, Adjust, Approve,
       Reject, StartPay, StartVerify, StartHand, Webhook, Continue, Claim, Allocate, Revert,
       Create, Gateway, Settle, Report, Ack, Hand, Crash, Unsure, Abandon
  <2> QED
    BY <2>1 DEF TypeInv, TypeOK, DepInv, RiderPays
<1> QED
  BY <1>1, <1>2, <1>3 DEF DepInv

-----------------------------------------------------------------------------
(* The handlers, and the references, in every step. *)

\* A handler that waits keeps its right to its deposit.
LEMMA RightStays ==
  ASSUME NEW c \in Activations, NEW r \in DepType, NEW s, Sound(r), Moves(r, s),
         Rightful(c, r), c.pc = "gateway" => ~s.checkout
  PROVE  Rightful(c, s)
<1>1. CASE c.pc = "gateway"
  BY <1>1, MovesWhileMade DEF Rightful
<1>2. CASE c.pc # "gateway"
  BY <1>2, MovesKeep DEF Rightful
<1> QED
  BY <1>1, <1>2

\* Only the handler that makes a Razorpay order offers it.
LEMMA GatewayWaits ==
  ASSUME TypeInv, DepInv, CallInv, [Next]_vars, NEW v \in Workers, At(v, "gateway"),
         call'[v] = call[v]
  PROVE  ~dep'[call[v].dep].checkout
<1> DEFINE d == call[v].dep
<1>1. /\ d \in Deposits /\ dep[d].status \in Unpaid /\ ~dep[d].checkout
      /\ dep \in [Deposits -> DepType]
  BY DEF TypeInv, TypeOK, CallInv, Equipped, At, Working, Rightful
<1>2. CASE \E w \in Workers : Submit(w)
  <2>1. dep'[d] = dep[d]
    BY <1>1, <1>2, SubmitMove DEF Unpaid
  <2> QED
    BY <1>1, <2>1
<1>3. CASE \E w \in Workers : Commits(w)
  <2>1. dep'[d] = dep[d] \/ Approved(dep[d], dep'[d])
    BY <1>1, <1>3, CommitMove DEF Commits
  <2> QED
    BY <1>1, <2>1, OthersKeep
<1>4. ASSUME NEW w \in Workers, Offers(w)
      PROVE  ~dep'[d].checkout
  <2>1. CASE call[w].dep = d
    <3>1. w = v
      BY <1>4, <2>1 DEF Offers, CallInv
    <3>2. call'[w].pc = "idle"
      BY <1>4, FinishSlot DEF Offers, SlotOK, Idle
    <3> QED
      BY <3>1, <3>2 DEF At
  <2>2. CASE call[w].dep # d
    BY <1>1, <1>4, <2>2, OfferMove
  <2> QED
    BY <2>1, <2>2
<1>5. CASE \A e \in Deposits : Becomes(dep[e], dep'[e])
  BY <1>1, <1>5, BecomesKeeps
<1> QED
  BY <1>2, <1>3, <1>4, <1>5, DepMoves

\* The calls that need no right to a deposit.
Free == Pcs \ {"claim", "allocate", "revert", "settle", "gateway"}

\* A handler that goes on or starts has a right to its deposit, and makes a Razorpay
\* order only for a new one.
NewRight(w) ==
  /\ Rightful(call'[w], dep'[call'[w].dep])
  /\ call'[w].pc = "gateway" => dep[call'[w].dep].status = "none"

LEMMA FreeRight ==
  ASSUME NEW w, call'[w].pc \in Free
  PROVE  NewRight(w)
BY DEF Free, NewRight, Rightful

LEMMA LeaveRight ==
  ASSUME TypeInv, NEW w \in Workers, Finish(w) \/ Done(w)
  PROVE  NewRight(w)
<1>1. "idle" \in Free /\ "ack" \in Free
  BY Names DEF Free
<1>2. call \in [Workers -> Activations]
  BY DEF TypeInv, TypeOK, Activations
<1>3. SlotOK(w, Idle) \/ SlotOK(w, [call[w] EXCEPT !.pc = "ack"])
  BY DoneSlot, FinishSlot
<1>4. call'[w].pc \in {"idle", "ack"}
  BY <1>2, <1>3 DEF SlotOK, Idle, Activations
<1> QED
  BY <1>1, <1>4, FreeRight

\* A handler that goes on with a deposit it had a right to.
LEMMA ApproveRight ==
  ASSUME TypeInv, DepInv, CallInv, [Next]_vars, NEW w \in Workers,
         call[w].pc \in {"claim", "allocate"},
         NEW pc \in {"allocate", "revert"}, Goto(w, pc)
  PROVE  NewRight(w)
<1> DEFINE d == call[w].dep
<1>1. /\ d \in Deposits /\ dep[d] \in DepType /\ Sound(dep[d]) /\ Moves(dep[d], dep'[d])
      /\ Rightful(call[w], dep[d])
  BY AllMove DEF TypeInv, TypeOK, DepInv, CallInv, Equipped, Working
<1>2. call'[w].pc = pc /\ call'[w].dep = d /\ call'[w].op = call[w].op
  BY DEF TypeInv, TypeOK, Goto
<1>3. Rightful(call'[w], dep'[d])
  BY <1>1, <1>2, MovesKeep DEF Rightful
<1> QED
  BY <1>2, <1>3 DEF NewRight

\* A handler that starts.
LEMMA EnterRight ==
  ASSUME TypeInv, NEW w \in Workers, NEW a, Enter(w, a)
  PROVE  call'[w] = a
BY DEF TypeInv, TypeOK, Enter

LEMMA OpenRight ==
  ASSUME TypeInv, DepInv, CallInv, [Next]_vars, NEW w \in Workers, Open(w)
  PROVE  UNCHANGED call \/ NewRight(w)
<1>0. /\ dep \in [Deposits -> DepType] /\ captured \in [Payments -> Deposits \cup {None}]
      /\ \A d \in Deposits : Sound(dep[d])
      /\ \A pc \in {"create", "hand"} : pc \in Free
  BY Names DEF TypeInv, TypeOK, DepInv, Free
<1>1. CASE Submit(w) \/ Reject(w)
  BY <1>1 DEF Submit, Reject
<1>2. CASE Adjust(w)
  <2> DEFINE s == Start("admin", "claim")
  <2>1. PICK d \in Deposits, v \in Claims :
          /\ New(d)
          /\ dep' = [dep EXCEPT ![d].status = "SUBMITTED", ![d].amount = v]
          /\ Enter(w, [s EXCEPT !.dep = d, !.amount = v])
    BY <1>2 DEF Adjust
  <2>2. s \in Activations /\ s.pc = "claim" /\ s.op = "admin"
    BY StartType, Names
  <2> HIDE DEF s
  <2>3. call'[w].pc = "claim" /\ call'[w].op = "admin" /\ call'[w].dep = d
    BY <2>1, <2>2, EnterRight DEF Activations
  <2>4. dep'[d].pay = "none" /\ dep'[d].status # "none"
    BY <1>0, <2>1 DEF New, Sound, DepType
  <2> QED
    BY <2>3, <2>4 DEF NewRight, Rightful
<1>3. CASE Approve(w)
  <2>1. PICK d \in Deposits, v \in Checks :
          /\ Claimable(d, "admin")
          /\ dep' = [dep EXCEPT ![d].status = "APPROVING"]
          /\ Enter(w, [Start("admin", IF v > dep[d].amount THEN "revert" ELSE "allocate")
                         EXCEPT !.dep = d, !.amount = v])
    BY <1>3 DEF Approve
  <2> DEFINE pc == IF v > dep[d].amount THEN "revert" ELSE "allocate"
             s == Start("admin", pc)
  <2>2. pc \in {"revert", "allocate"}
    OBVIOUS
  <2> HIDE DEF pc
  <2>3. s \in Activations /\ s.pc \in {"revert", "allocate"} /\ s.op = "admin"
    BY <2>2, StartType, Names
  <2>4. Enter(w, [s EXCEPT !.dep = d, !.amount = v])
    BY <2>1 DEF pc
  <2> HIDE DEF s
  <2>5. /\ call'[w].pc \in {"revert", "allocate"} /\ call'[w].op = "admin"
        /\ call'[w].dep = d
    BY <2>3, <2>4, EnterRight DEF Activations
  <2>6. dep'[d].pay = "none" /\ dep'[d].status # "none"
    BY <1>0, <2>1 DEF Claimable, Sound, DepType, Unpaid, Settled
  <2> QED
    BY <2>5, <2>6 DEF NewRight, Rightful
<1>4. CASE StartPay(w)
  <2> DEFINE s == Start("pay", "create")
  <2>1. UNCHANGED call \/ \E v \in Claims : Enter(w, [s EXCEPT !.amount = v])
    BY <1>4 DEF StartPay
  <2>2. s \in Activations /\ s.pc = "create"
    BY StartType, Names
  <2> HIDE DEF s
  <2>3. UNCHANGED call \/ call'[w].pc = "create"
    BY <2>1, <2>2, EnterRight DEF Activations
  <2> QED
    BY <1>0, <2>3, FreeRight
<1>5. CASE StartHand(w)
  <2> DEFINE s == Start("hand", "hand")
  <2>1. \/ \E a : Enter(w, [s EXCEPT !.plan = a])
        \/ \E v, o : Enter(w, [s EXCEPT !.plan[o] = v])
    BY <1>5 DEF StartHand
  <2>2. s \in Activations /\ s.pc = "hand"
    BY StartType, Names
  <2> HIDE DEF s
  <2>3. call'[w].pc = "hand"
    BY <2>1, <2>2, EnterRight DEF Activations
  <2> QED
    BY <1>0, <2>3, FreeRight
<1>6. CASE StartVerify(w)
  <2> DEFINE s == Start("verify", "settle")
  <2>1. PICK p \in Payments :
          captured[p] # None /\ Enter(w, [s EXCEPT !.dep = captured[p], !.pay = p])
    BY <1>6 DEF StartVerify
  <2>2. s \in Activations /\ s.pc = "settle"
    BY StartType, Names
  <2> HIDE DEF s
  <2>3. call'[w].pc = "settle" /\ call'[w].dep = captured[p]
    BY <2>1, <2>2, EnterRight DEF Activations
  <2>4. dep'[captured[p]].checkout
    BY <1>6, <2>1 DEF StartVerify, DepInv
  <2> QED
    BY <2>3, <2>4 DEF NewRight, Rightful
<1>7. ASSUME NEW p \in Payments, NEW e \in Events, Webhook(w, p, e)
      PROVE  NewRight(w)
  <2> DEFINE s == Start("hook", "settle")
  <2>1. captured[p] # None /\ Enter(w, [s EXCEPT !.dep = captured[p], !.pay = p, !.ev = e])
    BY <1>7 DEF Webhook
  <2>2. s \in Activations /\ s.pc = "settle"
    BY StartType, Names
  <2> HIDE DEF s
  <2>3. call'[w].pc = "settle" /\ call'[w].dep = captured[p]
    BY <2>1, <2>2, EnterRight DEF Activations
  <2>4. dep'[captured[p]].checkout
    BY <1>7, <2>1 DEF Webhook, DepInv
  <2> QED
    BY <2>3, <2>4 DEF NewRight, Rightful
<1> QED
  BY <1>1, <1>2, <1>3, <1>4, <1>5, <1>6, <1>7 DEF Open

LEMMA ContinueRight ==
  ASSUME TypeInv, DepInv, CallInv, [Next]_vars, NEW w \in Workers,
         Continue(w) \/ Crash(w) \/ Unsure(w)
  PROVE  NewRight(w)
<1> DEFINE d == call[w].dep
<1>0. /\ dep \in [Deposits -> DepType] /\ call \in [Workers -> Activations]
      /\ Equipped(call[w]) /\ Rightful(call[w], dep[d])
      /\ \A e \in Deposits : Sound(dep[e])
      /\ "report" \in Free /\ "hand" \in Free
  BY Names DEF TypeInv, TypeOK, DepInv, CallInv, Activations, Free
<1>1. CASE Claim(w)
  <2>1. Goto(w, "allocate") \/ Done(w)
    BY <1>1 DEF Claim
  <2>2. call[w].pc = "claim"
    BY <1>1 DEF Claim, At
  <2> QED
    BY <2>1, <2>2, LeaveRight, ApproveRight
<1>2. CASE Allocate(w) \/ Unsure(w)
  <2>1. Goto(w, "revert") \/ Done(w)
    BY <1>2 DEF Allocate, Unsure
  <2>2. call[w].pc = "allocate"
    BY <1>2 DEF Allocate, Unsure, At
  <2> QED
    BY <2>1, <2>2, LeaveRight, ApproveRight
<1>3. CASE Revert(w) \/ Gateway(w) \/ Report(w) \/ Ack(w) \/ Crash(w)
  BY <1>3, LeaveRight DEF Revert, Gateway, Report, Ack, Crash
<1>4. CASE Create(w)
  <2>1. CASE Finish(w)
    BY <2>1, LeaveRight
  <2>2. ASSUME NEW e \in Deposits, New(e), Visit(w, e, "gateway"),
               dep' = [dep EXCEPT ![e].status = "PAYMENT_PENDING", ![e].pay = "PENDING",
                                  ![e].amount = call[w].amount]
        PROVE  NewRight(w)
    <3>1. call'[w].pc = "gateway" /\ call'[w].dep = e
      BY <1>0, <2>2 DEF Visit, Activations
    <3>2. dep'[e].status \in Unpaid /\ dep'[e].pay = "PENDING" /\ dep'[e].checkout = dep[e].checkout
      BY <1>0, <2>2 DEF DepType, Unpaid
    <3>3. dep[e].status = "none" /\ ~dep[e].checkout
      BY <1>0, <2>2 DEF New, Sound
    <3> QED
      BY <3>1, <3>2, <3>3 DEF NewRight, Rightful
  <2> QED
    BY <1>4, <2>1, <2>2 DEF Create
<1>5. CASE Settle(w)
  <2>1. /\ call[w].pc = "settle" /\ d \in Deposits /\ call[w].pay \in Payments
        /\ call[w].op # "admin"
    BY <1>0, <1>5 DEF Settle, At, Equipped, Working
  <2>2. CASE Done(w)
    BY <2>2, LeaveRight
  <2>3. CASE Goto(w, "report")
    BY <1>0, <2>3, FreeRight DEF Goto, Activations
  <2>4. CASE dep[d].payment \in {None, call[w].pay} /\ Goto(w, "claim")
    <3>1. call'[w].pc = "claim" /\ call'[w].dep = d /\ call'[w].op = call[w].op
      BY <1>0, <2>4 DEF Goto, Activations
    <3>2. dep'[d].pay = "PAID"
      <4>1. CASE dep[d].payment = None
        BY <1>0, <1>5, <2>1, <4>1 DEF Settle, DepType
      <4>2. CASE dep[d].payment # None
        BY <1>0, <1>5, <2>1, <4>2 DEF Settle, DepType, Sound
      <4> QED
        BY <4>1, <4>2
    <3> QED
      BY <2>1, <3>1, <3>2 DEF NewRight, Rightful
  <2> QED
    BY <1>5, <2>2, <2>3, <2>4 DEF Settle
<1>6. CASE Hand(w)
  <2>1. CASE Finish(w)
    BY <2>1, LeaveRight
  <2>2. ASSUME NEW o \in Orders, call' = [call EXCEPT ![w].plan[o] = 0]
        PROVE  NewRight(w)
    <3>1. call'[w].pc = "hand"
      BY <1>0, <1>6, <2>2 DEF Hand, At, Activations
    <3> QED
      BY <1>0, <3>1, FreeRight
  <2> QED
    BY <1>6, <2>1, <2>2 DEF Hand
<1> QED
  BY <1>1, <1>2, <1>3, <1>4, <1>5, <1>6 DEF Continue

LEMMA CallStep ==
  ASSUME TypeInv, DepInv, CallInv, [Next]_vars
  PROVE  CallInv'
<1>0. /\ dep \in [Deposits -> DepType]
      /\ \A w \in Workers : /\ call[w] \in Activations /\ Equipped(call[w])
                            /\ Rightful(call[w], dep[call[w].dep])
      /\ \A d \in Deposits : Sound(dep[d]) /\ Moves(dep[d], dep'[d])
  BY AllMove DEF TypeInv, TypeOK, Activations, DepInv, CallInv
<1>1. ASSUME NEW v \in Workers, call'[v] = call[v]
      PROVE  Rightful(call'[v], dep'[call'[v].dep])
  <2>1. CASE call[v].pc \in Working
    <3>1. call[v].dep \in Deposits
      BY <1>0, <2>1 DEF Equipped
    <3>2. call[v].pc = "gateway" => ~dep'[call[v].dep].checkout
      BY <1>1, GatewayWaits DEF At
    <3>3. Rightful(call[v], dep'[call[v].dep])
      BY <1>0, <3>1, <3>2, RightStays
    <3> QED
      BY <1>1, <3>3
  <2>2. CASE call[v].pc \notin Working
    BY <1>1, <2>2 DEF Rightful, Working
  <2> QED
    BY <2>1, <2>2
<1>2. ASSUME NEW v \in Workers, NEW w \in Workers, v # w,
             At(v, "gateway"), call'[v] = call[v], NewRight(w), call'[w].pc = "gateway"
      PROVE  call'[v].dep # call'[w].dep
  <2>1. dep[call[v].dep].status \in Unpaid
    BY <1>0, <1>2 DEF At, Rightful
  <2>2. dep[call'[w].dep].status = "none"
    BY <1>2 DEF NewRight
  <2> QED
    BY <1>2, <2>1, <2>2 DEF Unpaid
<1>3. CASE UNCHANGED call
  <2>1. \A w \in Workers : Rightful(call'[w], dep'[call'[w].dep])
    BY <1>1, <1>3
  <2>2. \A w \in Workers : Rightful(call[w], dep[call[w].dep])'
          <=> Rightful(call'[w], dep'[call'[w].dep])
    BY DEF Rightful
  <2> QED
    BY <1>3, <2>1, <2>2 DEF CallInv, At
<1>4. ASSUME NEW w \in Workers, Acts(w), ~UNCHANGED call
      PROVE  CallInv'
  <2>1. NewRight(w)
    BY <1>4, OpenRight, ContinueRight DEF Acts
  <2>2. \A v \in Workers : v # w => call'[v] = call[v]
    BY <1>4, SlotType DEF SlotOK
  <2>3. \A v \in Workers : Rightful(call'[v], dep'[call'[v].dep])
    BY <1>1, <2>1, <2>2 DEF NewRight
  <2>4. \A v \in Workers : Rightful(call[v], dep[call[v].dep])'
          <=> Rightful(call'[v], dep'[call'[v].dep])
    BY DEF Rightful
  <2>5. ASSUME NEW u \in Workers, NEW v \in Workers,
               call'[u].pc = "gateway", call'[v].pc = "gateway", call'[u].dep = call'[v].dep
        PROVE  u = v
    BY <1>2, <2>1, <2>2, <2>5 DEF At, CallInv
  <2> QED
    BY <2>3, <2>4, <2>5 DEF CallInv, At
<1>5. UNCHANGED call \/ \E w \in Workers : Acts(w)
  BY DEF Next, vars, Acts, Collect, JobSweep, RiderPays, Fail
<1> QED
  BY <1>3, <1>4, <1>5

\* A reference is reserved once, in every step.
LEMMA RefStep ==
  ASSUME TypeInv, DepInv, CallInv, RefInv, [Next]_vars
  PROVE  RefInv'
<1>0. dep \in [Deposits -> DepType]
  BY DEF TypeInv, TypeOK
<1>1. CASE \E w \in Workers : Submit(w)
  <2>1. PICK d \in Deposits, f \in Refs :
          /\ dep'[d].ref = f
          /\ \A e \in Deposits : ~(dep[e].ref = f /\ dep[e].reserved)
          /\ \A e \in Deposits : e # d => dep'[e] = dep[e]
    BY <1>1, SubmitMove
  <2> QED
    BY <2>1 DEF RefInv
<1>2. ASSUME \A d \in Deposits : dep'[d].ref = dep[d].ref /\ (dep'[d].reserved => dep[d].reserved)
      PROVE  RefInv'
  BY <1>2 DEF RefInv
<1>3. CASE \E w \in Workers : Commits(w)
  <2>1. \A d \in Deposits : dep'[d] = dep[d] \/ Approved(dep[d], dep'[d])
    BY <1>3, CommitMove DEF Commits
  <2> QED
    BY <1>0, <1>2, <2>1, OthersKeep
<1>4. CASE \E w \in Workers : Offers(w)
  <2>1. \A d \in Deposits : dep'[d] = dep[d] \/ Offered(dep[d], dep'[d])
    BY <1>4, OfferMove
  <2> QED
    BY <1>0, <1>2, <2>1, OthersKeep
<1>5. CASE \A d \in Deposits : Becomes(dep[d], dep'[d])
  BY <1>0, <1>2, <1>5, BecomesKeeps
<1> QED
  BY <1>1, <1>3, <1>4, <1>5, DepMoves

-----------------------------------------------------------------------------
(* Theorems. *)

DepositInv == TypeInv /\ DepInv /\ CallInv /\ MoneyInv /\ BookInv /\ RefInv

LEMMA DepositInit == Init => DepositInv
<1> SUFFICES ASSUME Init PROVE DepositInv
  OBVIOUS
<1>1. /\ Nothing \in [Orders -> Nat]
      /\ \A o \in Orders : Nothing[o] = 0
  BY DEF Nothing
<1>2. Blank \in DepType /\ Sound(Blank)
  BY <1>1 DEF Blank, DepType, Statuses, Sound, Unpaid, Settled, Final
<1>3. \A d \in Deposits : dep[d] = Blank
  BY DEF Init
<1>4. \A w \in Workers : call[w] = Idle
  BY DEF Init
<1>5. TypeInv
  <2>1. dep \in [Deposits -> DepType]
    BY <1>2 DEF Init
  <2>2. call \in [Workers -> Activations] /\ \A w \in Workers : Equipped(call[w])
    BY <1>4, IdleType DEF Init
  <2>3. collected \in 0..MaxOrders /\ crashes \in 0..MaxCrash
    BY BoundAssumption DEF Init
  <2>4. captured \in [Payments -> Deposits \cup {None}]
    BY DEF Init
  <2> QED
    BY <1>1, <2>1, <2>2, <2>3, <2>4 DEF Init, TypeInv, TypeOK, Activations
<1>6. DepInv
  BY <1>2, <1>3 DEF Init, DepInv
<1>7. CallInv
  BY <1>4 DEF CallInv, Rightful, At, Idle
<1>8. MoneyInv
  <2>1. \A d \in Deposits : dep[d].status = "none" /\ dep[d].allocated = Nothing
    BY <1>3 DEF Blank
  <2>2. \A o \in Orders : remitted[o] = 0
    BY <1>1 DEF Init
  <2>3. \A o \in Orders : Amount[o] \in Nat
    BY AmountAssumption
  <2>4. WithinCollected
    BY <2>2, <2>3 DEF WithinCollected
  <2>5. DepositsBalance
    BY <2>1 DEF DepositsBalance, Settled
  <2>6. OldestFirst
    BY <1>1, <2>1 DEF OldestFirst
  <2> QED
    BY <2>4, <2>5, <2>6 DEF MoneyInv
<1>9. RefInv
  BY <1>3 DEF RefInv, Blank
<1>10. BookInv
  <2> SUFFICES ASSUME NEW o \in Orders
               PROVE  remitted[o] = handed[o] + Total(Shares(o))
    BY DEF BookInv
  <2>1. Shares(o) = [d \in Deposits |-> 0]
    BY <1>1, <1>3 DEF Shares, Blank
  <2>2. Total(Shares(o)) = 0
    BY <2>1, TablesFinite, SumZero
  <2>3. remitted[o] = 0 /\ handed[o] = 0
    BY <1>1 DEF Init
  <2> QED
    BY <2>2, <2>3
<1> QED
  BY <1>5, <1>6, <1>7, <1>8, <1>9, <1>10 DEF DepositInv

\* The invariant of the settlement: what each step of the argument relies on.
THEOREM DepositInvariant == Spec => []DepositInv
<1>1. DepositInv /\ [Next]_vars => DepositInv'
  BY TypeStep, DepStep, CallStep, MoneyStep, BookStep, RefStep DEF DepositInv
<1> QED
  BY DepositInit, <1>1, PTL DEF Spec

\* Every order, deposit and handler is well-typed (cashDeposit.js:1-86).
THEOREM TypeCorrect == Spec => []TypeOK
<1>1. DepositInv => TypeOK
  BY DEF DepositInv, TypeInv
<1> QED
  BY <1>1, DepositInvariant, PTL

\* No rupee is counted twice or lost between the orders and the deposits: an order is
\* remitted what the approved deposits and the remittances without one gave it, at most
\* what was collected, what a deposit verified is allocated or an excess, and it went to
\* the oldest orders, whoever approves and remits at the same time
\* (depositService.js:216-258, orderFinanceService.js:633-735).
THEOREM BooksCorrect == Spec => []BooksBalance
<1>1. DepositInv => BooksBalance
  BY DEF DepositInv, MoneyInv, BookInv, Shares, BooksBalance
<1> QED
  BY <1>1, DepositInvariant, PTL

\* Whatever has been remitted by then, any amount is allocated, and in one way: an
\* approval never finds money it cannot place, and never has a choice of where to put it
\* (depositService.js:216-234).
THEOREM AllocationDetermined == Spec => [](\A v \in Nat : Determined(v))
<1>1. DepositInv => \A v \in Nat : Determined(v)
  <2> SUFFICES ASSUME DepositInv
               PROVE  \A v \in Nat : Determined(v)
    OBVIOUS
  <2>1. \A o \in Orders : remitted[o] \in Nat /\ Amount[o] \in Nat
    BY AmountAssumption DEF DepositInv, TypeInv, TypeOK
  <2>2. Pending \in [Orders -> Nat]
    BY <2>1 DEF DepositInv, MoneyInv, WithinCollected, Pending
  <2> QED
    BY <2>2, FillsDetermined
<1> QED
  BY <1>1, DepositInvariant, PTL

\* Of the deposits with one reference all but one are rejected
\* (depositService.js:111-147, 364-379).
THEOREM CreditCorrect == Spec => []OneCreditPerTransfer
<1>1. DepositInv => OneCreditPerTransfer
  BY DEF DepositInv, DepInv, Sound, RefInv, OneCreditPerTransfer
<1> QED
  BY <1>1, DepositInvariant, PTL

\* A decision and a recorded payment stay
\* (depositService.js:199-208, razorpayDepositService.js:58-72, 253-275).
THEOREM DecisionCorrect == Spec => DecisionStands
<1>1. DepositInv /\ [Next]_vars =>
        [\A d \in Deposits :
           /\ dep[d].status \in Final => dep'[d] = dep[d]
           /\ dep[d].pay = "PAID" => dep'[d].pay = "PAID" /\ dep'[d].payment = dep[d].payment]_vars
  <2>1. ASSUME DepositInv, [Next]_vars, NEW d \in Deposits
        PROVE  /\ dep[d].status \in Final => dep'[d] = dep[d]
               /\ dep[d].pay = "PAID" => dep'[d].pay = "PAID" /\ dep'[d].payment = dep[d].payment
    <3>1. dep[d] \in DepType /\ Sound(dep[d]) /\ Moves(dep[d], dep'[d])
      BY <2>1, AllMove DEF DepositInv, TypeInv, TypeOK, DepInv
    <3> QED
      BY <3>1, MovesKeep
  <2> QED
    BY <2>1
<1> QED
  BY <1>1, DepositInvariant, PTL DEF Spec, DecisionStands

-----------------------------------------------------------------------------
(***************************************************************************)
(* The settlement implements DepositPromise: every step is a step of the   *)
(* promise or leaves the books and the verdicts alone.                     *)
(***************************************************************************)

\* The refinement mapping: the cash of each order, and a verdict for each status.
CashOf == [o \in Orders |-> IF o <= collected THEN Amount[o] ELSE 0]
VerdictOf(status) ==
  IF status \in Settled THEN "approved" ELSE IF status = "REJECTED" THEN "rejected" ELSE "open"

\* The verdicts before a step ...
LEMMA VerdictNow ==
  [d \in Deposits |-> Verdict(d)] = [d \in Deposits |-> VerdictOf(dep[d].status)]
BY DEF Verdict, VerdictOf, Settled

\* ... and after it.
LEMMA VerdictThen ==
  [d \in Deposits |-> Verdict(d)]' = [d \in Deposits |-> VerdictOf(dep'[d].status)]
BY DEF Verdict, VerdictOf, Settled

\* No cash, no deposit and no verdict to begin with.
LEMMA PromiseInit == Init => Promise!Init
<1> SUFFICES ASSUME Init PROVE Promise!Init
  OBVIOUS
<1>1. [o \in Orders |-> IF o <= collected THEN Amount[o] ELSE 0] = Nothing
  BY DEF Init, Nothing, Orders
<1>2. \A d \in Deposits : dep[d].status = "none" /\ dep[d].allocated = Nothing
  BY DEF Init, Blank
<1>3. [d \in Deposits |-> Verdict(d)] = [d \in Deposits |-> "open"]
  BY <1>2, VerdictNow DEF VerdictOf, Settled
<1>4. [d \in Deposits |-> dep[d].allocated] = [d \in Deposits |-> Nothing]
  BY <1>2
<1> QED
  BY <1>1, <1>3, <1>4 DEF Init, Promise!Init, Promise!None, Nothing

\* A step writes one deposit, or closes attempts that wait for their payment.
LEMMA OneChanges ==
  ASSUME TypeOK, [Next]_vars
  PROVE  \/ \E S \in SUBSET {d \in Deposits : Waiting(d)} : Abandoned(S)
         \/ \E d : \A e \in Deposits : e # d => dep'[e] = dep[e]
<1>0. dep = [d \in Deposits |-> dep[d]]
  BY DEF TypeOK
<1>1. CASE UNCHANGED vars \/ Collect \/ \E p \in Payments : RiderPays(p)
  BY <1>1 DEF vars, Collect, RiderPays
<1>2. CASE JobSweep
  BY <1>2 DEF JobSweep
<1>3. CASE \E d \in Deposits : Fail(d)
  BY <1>0, <1>3 DEF Fail
<1>4. ASSUME NEW w \in Workers, Submit(w) \/ Adjust(w) \/ Approve(w) \/ Reject(w)
      PROVE  \E d : \A e \in Deposits : e # d => dep'[e] = dep[e]
  BY <1>0, <1>4 DEF Submit, Adjust, Approve, Reject
<1>5. ASSUME NEW w \in Workers, Claim(w) \/ Revert(w) \/ Create(w) \/ Gateway(w) \/ Settle(w)
      PROVE  \E d : \A e \in Deposits : e # d => dep'[e] = dep[e]
  BY <1>0, <1>5 DEF Claim, Revert, Create, Gateway, Settle
<1>6. ASSUME NEW w \in Workers, Allocate(w) \/ Unsure(w)
      PROVE  \E d : \A e \in Deposits : e # d => dep'[e] = dep[e]
  BY <1>0, <1>6 DEF Allocate, Unsure, Commit
<1>7. ASSUME NEW w \in Workers, StartPay(w)
      PROVE  \E S \in SUBSET {d \in Deposits : Waiting(d)} : Abandoned(S)
  BY <1>7 DEF StartPay
<1>8. ASSUME NEW w \in Workers,
             \/ StartVerify(w) \/ StartHand(w) \/ Report(w) \/ Ack(w) \/ Hand(w) \/ Crash(w)
             \/ \E p \in Payments, e \in Events : Webhook(w, p, e)
      PROVE  dep' = dep
  BY <1>8 DEF StartVerify, StartHand, Report, Ack, Hand, Crash, Webhook
<1> QED
  BY <1>1, <1>2, <1>3, <1>4, <1>5, <1>6, <1>7, <1>8 DEF Next, Open, Continue

\* An approval, in one step with its money.
LEMMA ApproveStep ==
  ASSUME DepositInv, NEW w \in Workers, Commits(w), UNCHANGED <<collected, handed>>
  PROVE  Promise!Next
<1> DEFINE d == call[w].dep
<1>1. /\ call[w] \in Activations /\ Equipped(call[w])
      /\ dep \in [Deposits -> DepType] /\ remitted \in [Orders -> Nat]
      /\ \A o \in Orders : Amount[o] \in Nat
      /\ \A o \in Orders : o \in Int /\ collected \in Int
  <2>1. TypeOK /\ Equipped(call[w])
    BY DEF DepositInv, TypeInv
  <2>2. call[w] \in Activations /\ dep \in [Deposits -> DepType] /\ remitted \in [Orders -> Nat]
    BY <2>1 DEF TypeOK, Activations
  <2>3. /\ \A o \in Orders : Amount[o] \in Nat
        /\ \A o \in Orders : o \in Int /\ collected \in Int
    BY <2>1, AmountAssumption DEF TypeOK, Orders
  <2> QED
    BY <2>1, <2>2, <2>3
<1>2. d \in Deposits /\ dep[d].status = "APPROVING"
  BY <1>1 DEF Commits, Equipped, At, Working
<1>3. Verified(w) \in Nat
  BY <1>1, <1>2 DEF Verified, Activations, DepType
<1>4. PICK a \in [Orders -> 0..Verified(w)], left \in 0..Verified(w) :
        /\ Fills(a, left, Verified(w))
        /\ remitted' = [o \in Orders |-> remitted[o] + a[o]]
        /\ dep' = [dep EXCEPT ![d] =
             [@ EXCEPT !.status = IF Verified(w) < dep[d].amount
                                    THEN "PARTIALLY_APPROVED" ELSE "APPROVED",
                       !.verified = Verified(w), !.excess = left, !.allocated = a]]
  BY DEF Commits, Commit
<1>5. /\ \A o \in Orders : a[o] \in Nat /\ a[o] <= Pending[o]
      /\ \A o, p \in Orders : o < p /\ a[p] > 0 => a[o] = Pending[o]
  BY <1>3, <1>4 DEF Fills
<1>6. /\ dep'[d].status \in Settled /\ dep'[d].allocated = a
      /\ \A e \in Deposits : e # d => dep'[e] = dep[e]
  BY <1>1, <1>2, <1>4 DEF DepType, Settled
<1>7. /\ \A o \in Orders : Pending[o] = CashOf[o] - remitted[o]
      /\ \A o \in Orders : CashOf[o] \in Nat /\ remitted[o] <= CashOf[o]
  <2>1. WithinCollected
    BY DEF DepositInv, MoneyInv
  <2> QED
    BY <1>1, <2>1 DEF Pending, CashOf, WithinCollected
<1>8. a \in [Orders -> UNION {0..CashOf[o] : o \in Orders}]
  <2>1. \A o \in Orders : a[o] \in 0..CashOf[o]
    BY <1>1, <1>5, <1>7
  <2> QED
    BY <1>4, <2>1
<1>9. [e \in Deposits |-> dep[e].allocated]' =
        [[e \in Deposits |-> dep[e].allocated] EXCEPT ![d] = a]
  BY <1>2, <1>6
<1>10. /\ [e \in Deposits |-> Verdict(e)][d] = "open"
       /\ [e \in Deposits |-> Verdict(e)]' =
            [[e \in Deposits |-> Verdict(e)] EXCEPT ![d] = "approved"]
  BY <1>2, <1>6, VerdictNow, VerdictThen DEF VerdictOf, Settled
<1>11. Promise!Approve(d, a)
  BY <1>4, <1>5, <1>7, <1>9, <1>10 DEF Promise!Approve, Promise!Left, CashOf
<1> QED
  BY <1>2, <1>8, <1>11 DEF Promise!Next, CashOf

\* The delivery of an order.
LEMMA CollectStep ==
  ASSUME DepositInv, Collect
  PROVE  Promise!Next
<1>0. collected \in 0..MaxOrders /\ collected + 1 \in Orders
  BY BoundAssumption DEF DepositInv, TypeInv, TypeOK, Collect, Orders
<1> PICK n \in Orders : n = collected + 1
  BY <1>0
<1>1. /\ collected \in 0..MaxOrders /\ collected' = n
      /\ UNCHANGED <<remitted, handed, dep>>
  BY <1>0 DEF Collect
<1>2. CashOf[n] = 0 /\ CashOf' = [CashOf EXCEPT ![n] = Amount[n]]
  <2>1. CashOf' = [o \in Orders |-> IF o <= n THEN Amount[o] ELSE 0]
    BY <1>1 DEF CashOf
  <2>2. \A o \in Orders : o <= n <=> o <= collected \/ o = n
    BY <1>1, BoundAssumption DEF Orders
  <2>3. ~(n <= collected)
    BY <1>1, BoundAssumption
  <2> QED
    BY <1>1, <2>1, <2>2, <2>3 DEF CashOf
<1>3. UNCHANGED [d \in Deposits |-> Verdict(d)]
  BY <1>1, VerdictNow, VerdictThen
<1>4. Promise!Collect(n)
  BY <1>1, <1>2, <1>3 DEF Promise!Collect, CashOf
<1> QED
  BY <1>4 DEF Promise!Next

\* Cash that is handed in for one order.
LEMMA RemitStep ==
  ASSUME DepositInv, NEW o \in Orders, NEW v \in Nat, v > 0, v <= Pending[o],
         remitted' = [remitted EXCEPT ![o] = @ + v], handed' = [handed EXCEPT ![o] = @ + v],
         UNCHANGED <<collected, dep>>
  PROVE  Promise!Next
<1>1. /\ Pending[o] = CashOf[o] - remitted[o]
      /\ Amount[o] \in Nat /\ remitted[o] \in Nat
      /\ CashOf[o] = Amount[o] \/ CashOf[o] = 0
  <2>1. TypeOK /\ WithinCollected
    BY DEF DepositInv, TypeInv, MoneyInv
  <2>2. Amount[o] \in Nat /\ remitted[o] \in Nat /\ collected \in Int
    BY <2>1, AmountAssumption DEF TypeOK
  <2> QED
    BY <2>1, <2>2 DEF Pending, CashOf, WithinCollected
<1>2. v \in 1..Amount[o]
  BY <1>1
<1>3. UNCHANGED [d \in Deposits |-> Verdict(d)]
  BY VerdictNow, VerdictThen
<1>4. Promise!Remit(o, v)
  BY <1>1, <1>3 DEF Promise!Remit, Promise!Left, CashOf
<1> QED
  BY <1>2, <1>4 DEF Promise!Next

\* The other steps reject a deposit or leave every verdict.
LEMMA RejectStep ==
  ASSUME DepositInv, [Next]_vars, \A w \in Workers : ~Commits(w),
         UNCHANGED <<collected, remitted, handed>>
  PROVE  [Promise!Next]_(Promise!vars)
<1>1. /\ \A d \in Deposits : dep[d] \in DepType /\ Sound(dep[d]) /\ Moves(dep[d], dep'[d])
      /\ \A d \in Deposits :
           /\ dep'[d].allocated = dep[d].allocated
           /\ dep[d].status \in Settled \/ dep'[d].status \in Settled => dep'[d] = dep[d]
  BY AllMove, BalanceStays DEF DepositInv, TypeInv, TypeOK, DepInv
<1>2. \A d \in Deposits : dep[d].status = "REJECTED" => dep'[d] = dep[d]
  BY <1>1, MovesKeep DEF Final
<1>3. [d \in Deposits |-> dep[d].allocated]' = [d \in Deposits |-> dep[d].allocated]
  BY <1>1
<1>4. UNCHANGED CashOf
  BY DEF CashOf
<1>5. CASE \A d \in Deposits : dep'[d].status = "REJECTED" => dep[d].status = "REJECTED"
  <2>1. \A d \in Deposits : VerdictOf(dep'[d].status) = VerdictOf(dep[d].status)
    BY <1>1, <1>2, <1>5 DEF VerdictOf
  <2>2. UNCHANGED [d \in Deposits |-> Verdict(d)]
    BY <2>1, VerdictNow, VerdictThen
  <2> QED
    BY <1>3, <1>4, <2>2 DEF Promise!vars, CashOf
<1>6. ASSUME NEW d \in Deposits, dep'[d].status = "REJECTED", dep[d].status # "REJECTED"
      PROVE  Promise!Next
  <2>1. \A e \in Deposits : e # d => dep'[e] = dep[e]
    <3>1. ASSUME NEW S \in SUBSET {e \in Deposits : Waiting(e)}, Abandoned(S)
          PROVE  FALSE
      <4>1. \/ dep'[d] = dep[d]
            \/ dep'[d] = [dep[d] EXCEPT !.status = "PAYMENT_FAILED", !.pay = "FAILED"]
        BY <3>1 DEF Abandoned
      <4> QED
        BY <1>1, <1>6, <4>1 DEF DepType
    <3> QED
      BY <1>6, <3>1, OneChanges DEF DepositInv, TypeInv
  <2>2. VerdictOf(dep[d].status) = "open" /\ VerdictOf(dep'[d].status) = "rejected"
    BY <1>1, <1>6 DEF VerdictOf, Settled
  <2>3. /\ [e \in Deposits |-> Verdict(e)][d] = "open"
        /\ [e \in Deposits |-> Verdict(e)]' =
             [[e \in Deposits |-> Verdict(e)] EXCEPT ![d] = "rejected"]
    <3> DEFINE f == [e \in Deposits |-> VerdictOf(dep[e].status)]
               g == [e \in Deposits |-> VerdictOf(dep'[e].status)]
    <3>1. f[d] = "open" /\ g[d] = "rejected" /\ \A e \in Deposits : e # d => g[e] = f[e]
      BY <2>1, <2>2
    <3>2. g = [f EXCEPT ![d] = "rejected"]
      BY <3>1
    <3> HIDE DEF f, g
    <3>3. [e \in Deposits |-> Verdict(e)] = f /\ [e \in Deposits |-> Verdict(e)]' = g
      BY VerdictNow, VerdictThen DEF f, g
    <3> QED
      BY <3>1, <3>2, <3>3
  <2>4. Promise!Reject(d)
    BY <1>3, <1>4, <2>3 DEF Promise!Reject, CashOf
  <2> QED
    BY <2>4 DEF Promise!Next
<1> QED
  BY <1>5, <1>6

\* So every step is one of the promise or none.
LEMMA PromiseStep ==
  ASSUME DepositInv, [Next]_vars
  PROVE  [Promise!Next]_(Promise!vars)
<1>0. TypeInv /\ DepInv /\ CallInv
  BY DEF DepositInv
<1>1. ASSUME NEW w \in Workers, Commits(w)
      PROVE  Promise!Next
  <2>1. dep' # dep
    <3>1. call[w].dep \in Deposits /\ dep[call[w].dep].status = "APPROVING"
      BY <1>0, <1>1 DEF TypeInv, Equipped, Commits, At, Working
    <3>2. dep'[call[w].dep].status \in Settled
      BY <1>0, <1>1, <3>1 DEF TypeInv, TypeOK, Commits, Commit, DepType, Settled
    <3> QED
      BY <3>1, <3>2 DEF Settled
  <2>2. UNCHANGED <<collected, handed>>
    BY <1>0, <2>1, CollectedMoves, MoneyMoves
  <2> QED
    BY <1>1, <2>2, ApproveStep
<1>2. CASE Collect
  BY <1>2, CollectStep
<1>3. CASE (\A w \in Workers : ~Commits(w)) /\ UNCHANGED collected
  <2>1. CASE UNCHANGED <<remitted, handed>>
    BY <1>3, <2>1, RejectStep
  <2>2. ASSUME NEW w \in Workers, NEW o \in Orders,
               call[w].plan[o] <= Pending[o], call[w].plan[o] > 0,
               remitted' = [remitted EXCEPT ![o] = @ + call[w].plan[o]],
               handed' = [handed EXCEPT ![o] = @ + call[w].plan[o]],
               UNCHANGED <<collected, dep>>
        PROVE  Promise!Next
    <3>1. call[w].plan[o] \in Nat
      BY <1>0 DEF TypeInv, TypeOK
    <3> QED
      BY <2>2, <3>1, RemitStep
  <2> QED
    BY <1>0, <1>3, <2>1, <2>2, MoneyMoves
<1> QED
  BY <1>1, <1>2, <1>3, CollectedMoves

\* The settlement keeps its promise: whatever the claims, transactions, failures and
\* repetitions of its handlers, every deposit is decided in one step, which moves all of
\* its money to the oldest orders, and the books change in no other way
\* (depositService.js:199-258, 364-379, orderFinanceService.js:633-735).
THEOREM SettlementKeepsPromise == Spec => PromiseKept
<1>1. DepositInv /\ [Next]_vars => [Promise!Next]_(Promise!vars)
  BY PromiseStep
<1> QED
  BY PromiseInit, <1>1, DepositInvariant, PTL DEF Spec, PromiseKept, Promise!Spec
=============================================================================

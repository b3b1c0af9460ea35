---------------------- MODULE ReturnSettlement_proofs ----------------------
(***************************************************************************)
(* Theorems about ReturnSettlement: for every number of riders and of      *)
(* handlers, whatever part of the order comes back, with and without the   *)
(* automatic release, whoever dies.                                        *)
(*                                                                         *)
(* The argument.  What a handler is about to save is harmless because of   *)
(* what the order must look like while the handler runs (Current): a       *)
(* settlement that will commit is the first, a request that will be saved  *)
(* finds no return, the job runs after the window.  Hence a held payout is *)
(* pending (OrderInv) and the refund finds one of two states: a held       *)
(* payout, which it cancels, or one that is not held, whose share it takes *)
(* back (MoneyInv).                                                        *)
(***************************************************************************)
EXTENDS ReturnSettlement, TLAPS

Activations ==
  [op : Ops \cup {"none"}, pc : Pcs, ret : Statuses \cup {Same},
   rider : Riders \cup {None, Same}, share : Shares \cup {0},
   due : BOOLEAN, hold : BOOLEAN, stale : BOOLEAN]

Returning == Ops \ {"settle", "request", "job"}

\* What a handler's slot holds at each call.
Shaped(c) ==
  /\ c.pc \in {"queue", "commit"} <=> c.op = "settle"
  /\ c.pc = "code" => c.op \in Codes
  /\ c.pc = "save" => c.op \in Returning \cup {"request"}
  /\ c.pc \in {"refund", "credit"} => c.op \in Returning
  /\ c.pc = "release" => c.op \in {"job", "qc"}
  /\ c.op = "request" => c.ret = "return_requested" /\ c.share \in Shares
  /\ c.ret \notin {None, "refund_completed"}

TypeInv == TypeOK /\ \A w \in Workers : Shaped(call[w])

\* What the order o, its payout p and the end of the window t are like while a handler
\* runs.
Current(c, o, p, t) ==
  /\ c.op = "settle" /\ ~c.stale => ~o.settled
  /\ c.pc = "queue" => p # "CANCELLED"
  /\ c.pc = "commit" => p # "none"
  /\ c.op = "settle" /\ ~t => c.hold
  /\ c.op = "job" => t
  /\ c.op = "request" /\ ~c.stale => o.ret = None
  /\ c.op \in Returning => o.ret # None

CallInv == \A w \in Workers : Current(call[w], order, payout, over)

OrderInv ==
  /\ order.ret = None =>
       /\ order.rider = None /\ ~offered /\ books.refunds = 0
       /\ \A k \in Codes : ~code[k]
  /\ order.settled => payout # "none"
  /\ payout = "CANCELLED" => order.settled
  /\ order.pay = "HOLD" => order.settled /\ (reheld \/ payout = "PENDING")
  /\ order.settled /\ ~over /\ order.ret = None /\ payout = "PENDING" => OnHold

\* A refund cancelled the payout or took the share back.
MoneyInv ==
  /\ SellerBooks /\ RefundOnce
  /\ books.refunds > 0 => reheld \/ payout = "CANCELLED" \/ books.back = order.share

ReturnInv == TypeInv /\ CallInv /\ OrderInv /\ MoneyInv

-----------------------------------------------------------------------------
(* The slots. *)

Good(c) == c \in Activations /\ Shaped(c)

\* A slot that a write of the order may have made stale.
Aged(c, d) == d = c \/ d = [c EXCEPT !.stale = TRUE]

LEMMA IdleGood == Good(Idle)
BY DEF Good, Activations, Shaped, Idle, Ops, Pcs, Codes, Returning, None, Same, Statuses

\* What Outdated makes of a slot.
LEMMA OutdatedAges ==
  ASSUME TypeInv, NEW op
  PROVE  /\ Outdated(op) \in [Workers -> Activations]
         /\ \A v \in Workers :
              /\ Aged(call[v], Outdated(op)[v]) /\ Good(Outdated(op)[v])
              /\ call[v].op = "settle" => Outdated(op)[v].stale
              /\ op \in Changers /\ call[v].op \in Lists => Outdated(op)[v].stale
<1>1. ASSUME NEW v \in Workers
      PROVE  /\ Aged(call[v], Outdated(op)[v]) /\ Good(Outdated(op)[v])
             /\ call[v].op = "settle" => Outdated(op)[v].stale
             /\ op \in Changers /\ call[v].op \in Lists => Outdated(op)[v].stale
  <2>1. call[v] \in Activations /\ Shaped(call[v])
    BY DEF TypeInv, TypeOK, Activations
  <2>2. Good([call[v] EXCEPT !.stale = TRUE])
    BY <2>1 DEF Good, Activations, Shaped
  <2>3. [call[v] EXCEPT !.stale = TRUE].stale
    BY <2>1 DEF Activations
  <2>4. Outdated(op)[v] =
          IF call[v].op = "settle" \/ (op \in Changers /\ call[v].op \in Lists)
            THEN [call[v] EXCEPT !.stale = TRUE] ELSE call[v]
    BY DEF Outdated
  <2> QED
    BY <2>1, <2>2, <2>3, <2>4 DEF Aged, Good
<1> QED
  BY <1>1 DEF Outdated, Good

\* A slot's new content.
LEMMA SlotType ==
  ASSUME NEW f \in [Workers -> Activations], \A v \in Workers : Good(f[v]),
         NEW w \in Workers, NEW a, Good(a)
  PROVE  /\ [f EXCEPT ![w] = a] \in [Workers -> Activations]
         /\ \A v \in Workers : Good([f EXCEPT ![w] = a][v])
BY DEF Good

\* What a handler that does not act relies on.
LEMMA Kept ==
  ASSUME NEW c \in Activations, NEW d, Aged(c, d),
         NEW o, NEW p, NEW t, NEW q, NEW r, NEW u, Current(c, o, p, t),
         t => u, p # "none" => r # "none", o.ret # None => q.ret # None,
         c.pc = "queue" /\ r = "CANCELLED" => p = "CANCELLED",
         c.op = "settle" => d.stale \/ q.settled = o.settled,
         c.op = "request" => d.stale \/ o.ret # None \/ q.ret = o.ret
  PROVE  Current(d, q, r, u)
BY DEF Current, Aged, Activations
-----------------------------------------------------------------------------
(* Type correctness. *)

CallType == call \in [Workers -> Activations] /\ \A v \in Workers : Good(call[v])

LEMMA CallsTyped == TypeInv => CallType
BY DEF TypeInv, TypeOK, CallType, Good, Activations

\* Handlers begin well.
LEMMA OpenCalls ==
  ASSUME TypeInv, NEW w \in Workers, Open(w)
  PROVE  CallType'
<1>0. CallType /\ order \in OrderType
  BY CallsTyped DEF TypeInv, TypeOK
<1>1. ASSUME NEW a, Good(a), Enter(w, a)
      PROVE  CallType'
  BY <1>0, <1>1, SlotType DEF CallType, Enter
<1> USE DEF Good, Activations, Shaped, Idle, Saving, Change, Begin, Ops, Pcs, Codes, Returning,
            Statuses, None, Same
<1>2. CASE StartSettle(w)
  BY <1>1, <1>2 DEF StartSettle
<1>3. CASE Request(w)
  <2>1. PICK s \in Shares :
          Enter(w, [Saving("request", "return_requested") EXCEPT !.share = s])
    BY <1>3 DEF Request
  <2>2. order.ret = "none"
    BY <1>3 DEF Request
  <2> QED
    BY <1>1, <2>1, <2>2
<1>4. CASE Approve(w)
  BY <1>1, <1>4 DEF Approve
<1>5. CASE Reject(w)
  BY <1>1, <1>5 DEF Reject
<1>6. CASE Assign(w)
  <2>1. PICK r \in Riders \cup {None} :
          Enter(w, [Saving("assign", "return_pickup_assigned") EXCEPT !.rider = Change("rider", r)])
    BY <1>6 DEF Assign
  <2> QED
    BY <1>1, <2>1
<1>7. CASE Accept(w)
  <2>1. PICK r \in Riders :
          Enter(w, [Saving("accept", "return_pickup_assigned") EXCEPT !.rider = r])
    BY <1>7 DEF Accept
  <2> QED
    BY <1>1, <2>1
<1>8. CASE Decline(w)
  BY <1>1, <1>8 DEF Decline
<1>9. CASE Status(w)
  <2>1. PICK s \in {"return_pickup_assigned", "return_in_transit", "returned"} :
          Enter(w, Saving("status", s))
    BY <1>9 DEF Status
  <2> QED
    BY <1>1, <2>1
<1>10. CASE Qc(w)
  <2>1. PICK s \in {"qc_passed", "qc_failed"} : Enter(w, Saving("qc", s))
    BY <1>10 DEF Qc
  <2> QED
    BY <1>1, <2>1
<1>11. CASE Arrive(w)
  BY <1>1, <1>11 DEF Arrive
<1>12. CASE Pickup(w)
  BY <1>1, <1>12 DEF Pickup
<1>13. CASE Drop(w)
  <2>1. (order.commission /\ ~order.commissionPaid) \in BOOLEAN
    BY <1>0 DEF OrderType
  <2> QED
    BY <1>0, <1>1, <1>13, <2>1 DEF Drop
<1>14. CASE StartJob(w)
  BY <1>1, <1>14 DEF StartJob
<1> QED
  BY <1>2, <1>3, <1>4, <1>5, <1>6, <1>7, <1>8, <1>9, <1>10, <1>11, <1>12, <1>13, <1>14 DEF Open

\* Handlers go on well.
LEMMA ContinueCalls ==
  ASSUME TypeInv, NEW w \in Workers, Continue(w) \/ Crash(w)
  PROVE  CallType'
<1>0. CallType /\ order \in OrderType /\ Good(call[w])
  BY CallsTyped DEF TypeInv, TypeOK, CallType
<1>1. ASSUME NEW a, Good(a), call' = [call EXCEPT ![w] = a]
      PROVE  CallType'
  BY <1>0, <1>1, SlotType DEF CallType
<1>2. ASSUME NEW a, Good(a), NEW op, call' = [Outdated(op) EXCEPT ![w] = a]
      PROVE  CallType'
  <2>1. /\ Outdated(op) \in [Workers -> Activations]
        /\ \A v \in Workers : Good(Outdated(op)[v])
    BY OutdatedAges
  <2> QED
    BY <1>2, <2>1, SlotType DEF CallType
<1>3. CASE Finish(w)
  BY <1>1, <1>3, IdleGood DEF Finish
<1>4. ASSUME NEW pc, Goto(w, pc), Good([call[w] EXCEPT !.pc = pc])
      PROVE  CallType'
  <2>1. call' = [call EXCEPT ![w] = [call[w] EXCEPT !.pc = pc]]
    BY <1>4 DEF Goto
  <2> QED
    BY <1>1, <1>4, <2>1
<1> USE DEF At
<1>5. CASE Queue(w)
  <2>1. Good([call[w] EXCEPT !.pc = "commit"])
    BY <1>0, <1>5 DEF Queue, Good, Activations, Shaped, Pcs
  <2> QED
    BY <1>4, <1>5, <2>1 DEF Queue
<1>6. CASE Commit(w)
  BY <1>2, <1>3, <1>6, IdleGood DEF Commit
<1>7. CASE Consume(w)
  <2> DEFINE t == IF call[w].op = "pickup" THEN Change("ret", "return_in_transit") ELSE call[w].ret
             a == [call[w] EXCEPT !.pc = "save", !.ret = t]
  <2>1. call' = [call EXCEPT ![w] = a]
    BY <1>7 DEF Consume
  <2>2. call[w].op \in Codes
    BY <1>0, <1>7 DEF Consume, Good, Shaped
  <2>3. t \in Statuses \cup {Same} /\ t \notin {None, "refund_completed"}
    BY <1>0 DEF Change, Good, Activations, Shaped, Statuses, None, Same
  <2> HIDE DEF t
  <2>4. Good(a)
    BY <1>0, <2>2, <2>3 DEF Good, Activations, Shaped, Pcs, Codes, Returning, Ops
  <2> QED
    BY <1>1, <2>1, <2>4
<1>8. CASE Save(w)
  <2>1. Good(After(w))
    BY <1>0, <1>8, IdleGood DEF Save, After, Good, Activations, Shaped, Pcs, Returning, Ops
  <2> QED
    BY <1>2, <1>3, <1>8, <2>1 DEF Save
<1>9. CASE Refund(w)
  <2>1. Good([call[w] EXCEPT !.pc = "credit"])
    BY <1>0, <1>9 DEF Refund, Good, Activations, Shaped, Pcs, Returning
  <2> QED
    BY <1>2, <1>3, <1>4, <1>9, <2>1, IdleGood DEF Refund
<1>10. CASE Credit(w)
  BY <1>2, <1>3, <1>10, IdleGood DEF Credit
<1>11. CASE Release(w)
  BY <1>1, <1>2, <1>11, IdleGood DEF Release
<1>12. CASE Crash(w)
  BY <1>3, <1>12 DEF Crash
<1> QED
  BY <1>5, <1>6, <1>7, <1>8, <1>9, <1>10, <1>11, <1>12 DEF Continue

Plain == /\ order \in OrderType
         /\ payout \in {"none", "PENDING", "COMPLETED", "CANCELLED"}
         /\ books \in BooksType
         /\ code \in [Codes -> BOOLEAN]
         /\ over \in BOOLEAN /\ offered \in BOOLEAN /\ reheld \in BOOLEAN
         /\ crashes \in 0..MaxCrash

LEMMA TypeParts == TypeInv <=> Plain /\ CallType
BY DEF TypeInv, TypeOK, Plain, CallType, Good, Activations

LEMMA PaidType ==
  ASSUME Plain, Pay
  PROVE  order' \in OrderType /\ books' \in BooksType /\ payout' = "COMPLETED"
BY DEF Plain, Pay, OrderType, BooksType

LEMMA TwiceType == \A n \in 0..2 : Twice(n) \in 0..2
BY DEF Twice

LEMMA RefundedType ==
  ASSUME Plain, Refunded
  PROVE  /\ order' \in OrderType /\ books' \in BooksType
         /\ payout' \in {"none", "PENDING", "COMPLETED", "CANCELLED"}
<1>1. order.share \in Nat /\ books.back \in Nat
  <2>1. Shares \cup {0} \subseteq Nat
    BY EarningAssumption
  <2>2. order.share \in Shares \cup {0} /\ books.back \in Nat
    BY DEF Plain, OrderType, BooksType
  <2> QED
    BY <2>1, <2>2
<1>2. books' \in BooksType
  <2> DEFINE b == IF order.pay = "HOLD" THEN books.back ELSE books.back + order.share
             r == IF order.rider # None /\ order.commission /\ ~order.commissionPaid
                    THEN Twice(books.rides) ELSE books.rides
  <2>1. books' = [books EXCEPT !.refunds = Twice(books.refunds), !.back = b, !.rides = r]
    BY DEF Refunded
  <2>2. b \in Nat
    BY <1>1
  <2>3. Twice(books.refunds) \in 0..2 /\ r \in 0..2
    BY TwiceType DEF Plain, BooksType
  <2> HIDE DEF b, r
  <2> QED
    BY <2>1, <2>2, <2>3 DEF Plain, BooksType
<1>3. order' \in OrderType
  BY DEF Plain, Refunded, OrderType, Statuses
<1> QED
  BY <1>2, <1>3 DEF Plain, Refunded

\* A step keeps the types of what is stored.
LEMMA PlainStep ==
  ASSUME TypeInv, [Next]_vars
  PROVE  Plain'
<1>0. Plain /\ CallType
  BY TypeParts
<1>1. CASE UNCHANGED vars
  BY <1>0, <1>1 DEF Plain, vars
<1>2. CASE Process
  BY <1>0, <1>2, PaidType DEF Process, Plain
<1>3. CASE PickupTimeout
  BY <1>0, <1>3 DEF PickupTimeout, Plain, OrderType, Statuses
<1>4. CASE PickupCode \/ WindowEnds
  BY <1>0, <1>4 DEF PickupCode, WindowEnds, Plain
<1>5. ASSUME NEW w \in Workers, Open(w)
      PROVE  Plain'
  <2>1. CASE Arrive(w)
    BY <1>0, <2>1 DEF Arrive, Plain
  <2>2. CASE Request(w) \/ Approve(w) \/ Reject(w) \/ Assign(w) \/ Accept(w) \/ Decline(w)
    BY <1>0, <2>2 DEF Request, Approve, Reject, Assign, Accept, Decline, Begin, Plain
  <2>3. CASE Status(w) \/ Qc(w) \/ Pickup(w) \/ Drop(w) \/ StartSettle(w) \/ StartJob(w)
    BY <1>0, <2>3 DEF Status, Qc, Pickup, Drop, StartSettle, StartJob, Begin, Plain
  <2> QED
    BY <1>5, <2>1, <2>2, <2>3 DEF Open
<1>6. ASSUME NEW w \in Workers, Continue(w) \/ Crash(w)
      PROVE  Plain'
  <2>0. call[w] \in Activations /\ Shaped(call[w])
    BY <1>0 DEF CallType, Good
  <2>1. CASE Queue(w)
    BY <1>0, <2>1 DEF Queue, Plain
  <2>2. CASE Commit(w)
    <3>1. order' \in OrderType
      <4>1. order' \in {order, [order EXCEPT !.settled = TRUE, !.window = TRUE,
                                 !.pay = IF call[w].hold THEN "HOLD" ELSE @]}
        BY <2>2 DEF Commit
      <4> QED
        BY <1>0, <4>1 DEF Plain, OrderType
    <3>2. reheld' \in BOOLEAN
      BY <1>0, <2>0, <2>2 DEF Commit, Plain, Activations
    <3> QED
      BY <1>0, <2>2, <3>1, <3>2 DEF Commit, Plain
  <2>3. CASE Consume(w)
    BY <1>0, <2>3 DEF Consume, Plain
  <2>4. CASE Save(w)
    <3>1. CASE call[w].stale
      BY <1>0, <2>4, <3>1 DEF Save, Plain
    <3>2. CASE ~call[w].stale
      <4>1. Written("ret", call[w].ret) \in Statuses
        BY <1>0, <2>0 DEF Written, Plain, OrderType, Activations
      <4>2. Written("rider", call[w].rider) \in Riders \cup {None}
        BY <1>0, <2>0 DEF Written, Plain, OrderType, Activations
      <4>3. order' \in OrderType
        <5>1. call[w].share \in Shares \cup {0} /\ order \in OrderType
          BY <1>0, <2>0 DEF Plain, Activations
        <5> DEFINE ret == Written("ret", call[w].ret)
                   rider == Written("rider", call[w].rider)
                   window == order.window /\ call[w].op # "request"
                   share == IF call[w].op = "request" THEN call[w].share ELSE order.share
                   commission == order.commission \/ call[w].op = "approve"
        <5>2. order' = [order EXCEPT !.ret = ret, !.rider = rider, !.window = window,
                                     !.share = share, !.commission = commission]
          BY <2>4, <3>2 DEF Save
        <5>3. window \in BOOLEAN /\ commission \in BOOLEAN
          OBVIOUS
        <5>4. share \in Shares \cup {0}
          BY <5>1 DEF OrderType
        <5>5. ret \in Statuses /\ rider \in Riders \cup {None}
          BY <4>1, <4>2
        <5> HIDE DEF ret, rider, window, share, commission
        <5> QED
          BY <5>1, <5>2, <5>3, <5>4, <5>5 DEF OrderType
      <4>4. offered' \in BOOLEAN
        BY <1>0, <2>4, <3>2 DEF Save, Plain
      <4> QED
        BY <1>0, <2>4, <4>3, <4>4 DEF Save, Plain
    <3> QED
      BY <3>1, <3>2
  <2>5. CASE Refund(w)
    BY <1>0, <2>5, RefundedType DEF Refund, Plain
  <2>6. CASE Credit(w)
    <3>1. Twice(books.rides) \in 0..2
      BY <1>0, TwiceType DEF Plain, BooksType
    <3>2. order' \in OrderType
      <4>1. order' \in {order, [order EXCEPT !.commissionPaid = TRUE]}
        BY <2>6 DEF Credit
      <4> QED
        BY <1>0, <4>1 DEF Plain, OrderType
    <3>3. books' \in BooksType
      <4>1. books' \in {books, [books EXCEPT !.rides = Twice(@)]}
        BY <2>6 DEF Credit
      <4> QED
        BY <1>0, <3>1, <4>1 DEF Plain, BooksType
    <3> QED
      BY <1>0, <2>6, <3>2, <3>3 DEF Credit, Plain
  <2>7. CASE Release(w)
    <3>1. order' \in OrderType
      BY <1>0, <2>7, PaidType DEF Release, Plain, OrderType
    <3> QED
      BY <1>0, <2>7, <3>1, PaidType DEF Release, Plain
  <2>8. CASE Crash(w)
    BY <1>0, <2>8, SettingAssumption DEF Crash, Plain
  <2> QED
    BY <1>6, <2>1, <2>2, <2>3, <2>4, <2>5, <2>6, <2>7, <2>8 DEF Continue
<1> QED
  BY <1>1, <1>2, <1>3, <1>4, <1>5, <1>6 DEF Next

\* A step keeps the handlers' slots.
LEMMA CallTypeStep ==
  ASSUME TypeInv, [Next]_vars
  PROVE  CallType'
<1>0. CallType
  BY CallsTyped
<1>1. CASE UNCHANGED call
  BY <1>0, <1>1 DEF CallType
<1>2. ASSUME NEW op, call' = Outdated(op)
      PROVE  CallType'
  BY <1>2, OutdatedAges DEF CallType
<1>3. CASE Process \/ PickupTimeout
  BY <1>2, <1>3 DEF Process, PickupTimeout
<1>4. CASE UNCHANGED vars \/ PickupCode \/ WindowEnds
  BY <1>1, <1>4 DEF vars, PickupCode, WindowEnds
<1> QED
  BY <1>3, <1>4, OpenCalls, ContinueCalls DEF Next

LEMMA TypeStep == TypeInv /\ [Next]_vars => TypeInv'
<1> SUFFICES ASSUME TypeInv, [Next]_vars
             PROVE  TypeInv'
  OBVIOUS
<1>1. Plain' /\ CallType'
  BY PlainStep, CallTypeStep
<1> QED
  BY <1>1 DEF TypeInv, TypeOK, Plain, CallType, Good, Activations

-----------------------------------------------------------------------------
(* What a handler relies on while others run. *)

\* What a save writes.
LEMMA SavedReturn ==
  ASSUME TypeInv, CallInv, NEW w \in Workers, Save(w), ~call[w].stale
  PROVE  /\ order'.ret # None
         /\ order'.ret = "refund_completed" => order.ret = "refund_completed"
         /\ order'.settled = order.settled /\ order'.pay = order.pay
         /\ order.ret = None => call[w].op = "request"
         /\ order'.window = (order.window /\ call[w].op # "request")
         /\ order'.share = IF call[w].op = "request" THEN call[w].share ELSE order.share
<1>1. /\ order \in OrderType /\ call[w] \in Activations /\ Shaped(call[w])
      /\ Current(call[w], order, payout, over)
  BY TypeParts DEF Plain, CallType, Good, CallInv
<1>2. call[w].op \in Returning \cup {"request"}
  BY <1>1 DEF Save, At, Shaped
<1>3. /\ order'.ret = Written("ret", call[w].ret)
      /\ order'.settled = order.settled /\ order'.pay = order.pay
      /\ order'.window = (order.window /\ call[w].op # "request")
      /\ order'.share = IF call[w].op = "request" THEN call[w].share ELSE order.share
  BY <1>1 DEF Save, OrderType
<1>4. order.ret = None => call[w].op = "request"
  BY <1>1, <1>2 DEF Current
<1>5. order'.ret # None
  BY <1>1, <1>2, <1>3 DEF Written, Shaped, Current, None, Same
<1> QED
  BY <1>1, <1>3, <1>4, <1>5 DEF Written, Shaped

\* What a step never undoes, and a payout that is being queued is not cancelled.
LEMMA StepKeeps ==
  ASSUME TypeInv, CallInv, OrderInv, [Next]_vars
  PROVE  /\ over => over'
         /\ payout # "none" => payout' # "none"
         /\ order.ret # None => order'.ret # None
         /\ payout' = "CANCELLED" =>
              payout = "CANCELLED" \/ (\A v \in Workers : ~At(v, "queue"))
<1>0. Plain /\ order \in OrderType
  BY TypeParts DEF Plain
<1>1. ASSUME Pay
      PROVE  payout' = "COMPLETED" /\ order'.ret = order.ret
  BY <1>0, <1>1 DEF Pay, OrderType
<1>2. CASE Process \/ PickupTimeout \/ PickupCode \/ WindowEnds \/ UNCHANGED vars
  BY <1>0, <1>1, <1>2
     DEF Process, PickupTimeout, PickupCode, WindowEnds, vars, OrderType, None
<1>3. ASSUME NEW w \in Workers, Open(w)
      PROVE  UNCHANGED <<order, payout, over>>
  BY <1>3 DEF Open, StartSettle, Request, Approve, Reject, Assign, Accept, Decline, Status, Qc,
              Arrive, Pickup, Drop, StartJob, Begin
<1>4. ASSUME NEW w \in Workers, Queue(w) \/ Consume(w) \/ Crash(w)
      PROVE  UNCHANGED <<order, over>> /\ (payout' = payout \/ payout' = "PENDING")
  BY <1>4 DEF Queue, Consume, Crash
<1>5. ASSUME NEW w \in Workers, Commit(w) \/ Credit(w)
      PROVE  UNCHANGED <<payout, over>> /\ order'.ret = order.ret
  BY <1>0, <1>5 DEF Commit, Credit, OrderType
<1>6. ASSUME NEW w \in Workers, Save(w)
      PROVE  UNCHANGED <<payout, over>> /\ (order.ret # None => order'.ret # None)
  <2>1. CASE call[w].stale
    BY <1>6, <2>1 DEF Save
  <2> QED
    BY <1>6, <2>1, SavedReturn DEF Save
<1>7. ASSUME NEW w \in Workers, Refund(w)
      PROVE  /\ over' = over /\ (payout # "none" => payout' # "none")
             /\ order.ret # None => order'.ret # None
             /\ payout' = "CANCELLED" =>
                  payout = "CANCELLED" \/ (\A v \in Workers : ~At(v, "queue"))
  <2>1. CASE UNCHANGED <<order, payout>>
    BY <1>7, <2>1 DEF Refund
  <2>2. CASE Refunded
    <3>1. order'.ret = "refund_completed" /\ (payout' = payout \/ order.settled)
      BY <1>0, <2>2 DEF Refunded, OrderType, OrderInv
    <3> QED
      BY <1>7, <2>2, <3>1 DEF Refund, Settling, Refunded, None
  <2> QED
    BY <1>7, <2>1, <2>2 DEF Refund
<1>8. ASSUME NEW w \in Workers, Release(w)
      PROVE  over' = over /\ order'.ret = order.ret /\ (payout' = payout \/ payout' = "COMPLETED")
  BY <1>0, <1>1, <1>8 DEF Release, OrderType
<1> QED
  BY <1>2, <1>3, <1>4, <1>5, <1>6, <1>7, <1>8 DEF Next, Continue

\* What the handlers rely on stays true.
LEMMA CallStep ==
  ASSUME TypeInv, CallInv, OrderInv, [Next]_vars
  PROVE  CallInv'
<1>0. /\ CallType /\ order \in OrderType
      /\ over => over'
      /\ payout # "none" => payout' # "none"
      /\ order.ret # None => order'.ret # None
      /\ payout' = "CANCELLED" =>
           payout = "CANCELLED" \/ (\A v \in Workers : ~At(v, "queue"))
  BY TypeParts, StepKeeps DEF Plain
<1>i. Current(Idle, order', payout', over')
  BY DEF Current, Idle, Returning, Ops
\* A handler that does not act.
<1>1. ASSUME NEW v \in Workers, Aged(call[v], call'[v]),
             call[v].op = "settle" => call'[v].stale \/ order'.settled = order.settled,
             call[v].op = "request" =>
               call'[v].stale \/ order.ret # None \/ order'.ret = order.ret
      PROVE  Current(call'[v], order', payout', over')
  <2>1. call[v] \in Activations /\ Current(call[v], order, payout, over)
    BY <1>0 DEF CallType, CallInv
  <2>2. call[v].pc = "queue" /\ payout' = "CANCELLED" => payout = "CANCELLED"
    BY <1>0 DEF At
  <2> QED
    BY <1>0, <1>1, <2>1, <2>2, Kept
<1>2. ASSUME NEW v \in Workers, call'[v] = call[v],
             order'.settled = order.settled, order'.ret = order.ret
      PROVE  Current(call'[v], order', payout', over')
  BY <1>1, <1>2 DEF Aged
\* A write of the order after which handler w goes on with a.
<1>3. ASSUME NEW op, NEW w \in Workers, NEW a,
             call' = [Outdated(op) EXCEPT ![w] = a], Current(a, order', payout', over'),
             op \in Changers \/ order.ret # None \/ order'.ret = order.ret
      PROVE  CallInv'
  <2> SUFFICES ASSUME NEW v \in Workers
               PROVE  Current(call'[v], order', payout', over')
    BY DEF CallInv
  <2>1. CASE v = w
    BY <1>3, <2>1, OutdatedAges
  <2>2. CASE v # w
    <3>1. call'[v] = Outdated(op)[v]
      BY <1>3, <2>2, OutdatedAges
    <3>2. /\ Aged(call[v], call'[v])
          /\ call[v].op = "settle" => call'[v].stale
          /\ op \in Changers /\ call[v].op \in Lists => call'[v].stale
      BY <3>1, OutdatedAges
    <3>3. call[v].op = "request" => call'[v].stale \/ order.ret # None \/ order'.ret = order.ret
      BY <1>3, <3>2 DEF Lists
    <3> QED
      BY <1>1, <3>2, <3>3
  <2> QED
    BY <2>1, <2>2
\* A step of handler w that writes no status.
<1>4. ASSUME NEW w \in Workers, NEW a,
             call' = [call EXCEPT ![w] = a], Current(a, order', payout', over'),
             order'.settled = order.settled, order'.ret = order.ret
      PROVE  CallInv'
  <2> SUFFICES ASSUME NEW v \in Workers
               PROVE  Current(call'[v], order', payout', over')
    BY DEF CallInv
  <2>1. CASE v = w
    BY <1>0, <1>4, <2>1 DEF CallType
  <2>2. CASE v # w
    <3>1. call'[v] = call[v]
      BY <1>0, <1>4, <2>2 DEF CallType
    <3> QED
      BY <1>2, <1>4, <3>1
  <2> QED
    BY <2>1, <2>2
<1>5. ASSUME UNCHANGED <<call, order>>
      PROVE  CallInv'
  BY <1>2, <1>5 DEF CallInv
<1>6. ASSUME NEW op, call' = Outdated(op), order.ret # None \/ order'.ret = order.ret
      PROVE  CallInv'
  BY <1>1, <1>6, OutdatedAges DEF CallInv
<1>7. CASE UNCHANGED vars \/ PickupCode \/ WindowEnds
  BY <1>5, <1>7 DEF vars, PickupCode, WindowEnds
<1>8. CASE PickupTimeout
  BY <1>6, <1>8 DEF PickupTimeout, None
<1>9. CASE Process
  <2>1. order'.ret = order.ret
    BY <1>0, <1>9 DEF Process, Pay, OrderType
  <2> QED
    BY <1>6, <1>9, <2>1 DEF Process
<1>10. ASSUME NEW w \in Workers, Open(w)
       PROVE  CallInv'
  <2>0. UNCHANGED <<order, payout, over>>
    BY <1>10 DEF Open, StartSettle, Request, Approve, Reject, Assign, Accept, Decline, Status, Qc,
                 Arrive, Pickup, Drop, StartJob, Begin
  <2>1. ASSUME NEW a, Enter(w, a), Current(a, order, payout, over)
        PROVE  CallInv'
    BY <1>4, <2>0, <2>1 DEF Enter
  <2>2. ASSUME NEW a, Enter(w, a), a.op \in Returning, a.pc \notin {"queue", "commit"},
               order.ret # None
        PROVE  CallInv'
    BY <2>1, <2>2 DEF Current, Returning
  <2> USE DEF Saving, Idle, Returning, Ops, Begin, Codes
  <2>3. CASE StartSettle(w)
    <3> DEFINE a == [Idle EXCEPT !.op = "settle", !.pc = "queue", !.hold = ~over]
    <3>1. Current(a, order, payout, over)
      BY <2>3 DEF StartSettle, Current, OrderInv
    <3> HIDE DEF a
    <3>2. Enter(w, a)
      BY <2>3 DEF StartSettle, a
    <3> QED
      BY <2>1, <3>1, <3>2
  <2>4. CASE Request(w)
    <3>1. PICK s \in Shares :
            Enter(w, [Saving("request", "return_requested") EXCEPT !.share = s])
      BY <2>4 DEF Request
    <3>2. Current([Saving("request", "return_requested") EXCEPT !.share = s], order, payout, over)
      BY <2>4 DEF Request, Current
    <3> QED
      BY <2>1, <3>1, <3>2
  <2>5. CASE StartJob(w)
    BY <2>1, <2>5 DEF StartJob, Current
  <2>6. CASE Approve(w) \/ Reject(w) \/ Decline(w)
    BY <2>2, <2>6 DEF Approve, Reject, Decline, None
  <2>7. CASE Assign(w)
    <3>1. PICK r \in Riders \cup {None} :
            Enter(w, [Saving("assign", "return_pickup_assigned")
                        EXCEPT !.rider = Change("rider", r)])
      BY <2>7 DEF Assign
    <3>2. order.ret # None
      BY <2>7 DEF Assign, None
    <3> QED
      BY <2>2, <3>1, <3>2
  <2>8. CASE Accept(w)
    <3>1. PICK r \in Riders :
            Enter(w, [Saving("accept", "return_pickup_assigned") EXCEPT !.rider = r])
      BY <2>8 DEF Accept
    <3>2. order.ret # None
      BY <2>8 DEF Accept, OrderInv
    <3> QED
      BY <2>2, <3>1, <3>2
  <2>9. CASE Status(w)
    <3>1. PICK s \in {"return_pickup_assigned", "return_in_transit", "returned"} :
            Enter(w, Saving("status", s))
      BY <2>9 DEF Status
    <3>2. order.ret # None
      BY <2>9 DEF Status
    <3> QED
      BY <2>2, <3>1, <3>2
  <2>10. CASE Qc(w)
    <3>1. PICK s \in {"qc_passed", "qc_failed"} : Enter(w, Saving("qc", s))
      BY <2>10 DEF Qc
    <3>2. order.ret # None
      BY <2>10 DEF Qc, None
    <3> QED
      BY <2>2, <3>1, <3>2
  <2>11. CASE Arrive(w)
    BY <2>2, <2>11 DEF Arrive, None
  <2>12. CASE Pickup(w)
    <3>1. order.ret # None
      BY <2>12 DEF Pickup, OrderInv
    <3> QED
      BY <2>2, <2>12, <3>1 DEF Pickup
  <2>13. CASE Drop(w)
    <3>1. order.ret # None
      BY <2>13 DEF Drop, OrderInv
    <3> QED
      BY <2>2, <2>13, <3>1 DEF Drop
  <2> QED
    BY <1>10, <2>3, <2>4, <2>5, <2>6, <2>7, <2>8, <2>9, <2>10, <2>11, <2>12, <2>13 DEF Open
<1>11. ASSUME NEW w \in Workers, Continue(w) \/ Crash(w)
       PROVE  CallInv'
  <2>0. /\ call[w] \in Activations /\ Shaped(call[w]) /\ Current(call[w], order, payout, over)
    BY <1>0 DEF CallType, Good, CallInv
  <2>1. ASSUME Finish(w), UNCHANGED order
        PROVE  CallInv'
    BY <1>4, <1>i, <2>1 DEF Finish
  <2>2. CASE Queue(w)
    <3> DEFINE a == [call[w] EXCEPT !.pc = "commit"]
    <3>1. Current(a, order', payout', over')
      BY <2>0, <2>2 DEF Queue, Current, Activations
    <3> HIDE DEF a
    <3>2. call' = [call EXCEPT ![w] = a]
      BY <2>2 DEF Queue, Goto, a
    <3> QED
      BY <1>4, <2>2, <3>1, <3>2 DEF Queue
  <2>3. CASE Commit(w)
    <3>1. CASE call[w].stale
      BY <2>1, <2>3, <3>1 DEF Commit
    <3>2. CASE ~call[w].stale
      <4>1. order'.ret = order.ret
        BY <1>0, <2>3, <3>2 DEF Commit, OrderType
      <4>2. call' = [Outdated("settle") EXCEPT ![w] = Idle]
        BY <2>3, <3>2 DEF Commit
      <4> QED
        BY <1>3, <1>i, <4>1, <4>2
    <3> QED
      BY <3>1, <3>2
  <2>4. CASE Consume(w)
    <3> DEFINE t == IF call[w].op = "pickup" THEN Change("ret", "return_in_transit")
                      ELSE call[w].ret
               a == [call[w] EXCEPT !.pc = "save", !.ret = t]
    <3>1. call' = [call EXCEPT ![w] = a] /\ UNCHANGED order /\ call[w].pc = "code"
      BY <2>4 DEF Consume, At
    <3>2. call[w].op \in Codes
      BY <2>0, <3>1 DEF Shaped
    <3> HIDE DEF t
    <3>3. Current(a, order', payout', over')
      BY <2>0, <3>1, <3>2 DEF Current, Activations, Codes
    <3> QED
      BY <1>4, <3>1, <3>3
  <2>5. CASE Save(w)
    <3>1. CASE call[w].stale
      BY <2>1, <2>5, <3>1 DEF Save
    <3>2. CASE ~call[w].stale
      <4>1. call' = [Outdated(call[w].op) EXCEPT ![w] = After(w)]
        BY <2>5, <3>2 DEF Save
      <4>2. call[w].op \in Changers \/ order.ret # None
        BY <2>5, <3>2, SavedReturn DEF Changers, Lists
      <4>3. order'.ret # None
        BY <2>5, <3>2, SavedReturn
      <4>4. Current(After(w), order', payout', over')
        <5>1. CASE After(w) = Idle
          BY <1>i, <5>1
        <5>2. CASE After(w) # Idle
          <6>1. call[w].op \in {"drop", "qc"}
            BY <5>2 DEF After
          <6>2. \E pc \in {"refund", "release"} : After(w) = [call[w] EXCEPT !.pc = pc]
            BY <5>2, <6>1 DEF After
          <6> QED
            BY <2>0, <4>3, <6>1, <6>2 DEF Current, Activations
        <5> QED
          BY <5>1, <5>2
      <4> QED
        BY <1>3, <4>1, <4>2, <4>4
    <3> QED
      BY <3>1, <3>2
  <2>6. CASE Refund(w)
    <3> DEFINE a == [call[w] EXCEPT !.pc = "credit"]
    <3>1. call[w].op = "drop" /\ call[w].pc = "refund" /\ order'.ret # None
            => Current(a, order', payout', over')
      BY <2>0 DEF Current, Activations
    <3> HIDE DEF a
    <3>2. call[w].pc = "refund" /\ call[w].op \in Returning
      BY <2>0, <2>6 DEF Refund, At, Shaped
    <3>3. order.ret # None /\ order'.ret # None
      BY <1>0, <2>0, <3>2 DEF Current
    <3>4. CASE order.ret = "qc_passed" /\ books.refunds = 0
      <4>1. call' = [Outdated("refund") EXCEPT ![w] = IF call[w].op = "drop" THEN a ELSE Idle]
        BY <2>6, <3>4 DEF Refund, a
      <4>2. Current(IF call[w].op = "drop" THEN a ELSE Idle, order', payout', over')
        BY <1>i, <3>1, <3>2, <3>3
      <4> QED
        BY <1>3, <3>3, <4>1, <4>2
    <3>5. CASE ~(order.ret = "qc_passed" /\ books.refunds = 0)
      <4>1. UNCHANGED <<order, payout, books>>
        BY <2>6, <3>5 DEF Refund
      <4>2. CASE call[w].op = "drop" /\ order.ret # "qc_passed"
        <5>1. call' = [call EXCEPT ![w] = a]
          BY <2>6, <3>5, <4>2 DEF Refund, Goto, a
        <5> QED
          BY <1>4, <3>1, <3>2, <3>3, <4>1, <4>2, <5>1
      <4>3. CASE ~(call[w].op = "drop" /\ order.ret # "qc_passed")
        BY <2>1, <2>6, <3>5, <4>1, <4>3 DEF Refund
      <4> QED
        BY <4>2, <4>3
    <3> QED
      BY <3>4, <3>5
  <2>7. CASE Credit(w)
    <3>1. CASE call[w].due
      <4>1. order'.ret = order.ret
        BY <1>0, <2>7, <3>1 DEF Credit, OrderType
      <4> QED
        BY <1>3, <1>i, <2>7, <3>1, <4>1 DEF Credit
    <3>2. CASE ~call[w].due
      BY <2>1, <2>7, <3>2 DEF Credit
    <3> QED
      BY <3>1, <3>2
  <2>8. CASE Release(w)
    <3>1. order'.ret = order.ret /\ order'.settled = order.settled
      BY <1>0, <2>8 DEF Release, Pay, OrderType
    <3>2. CASE order' = order
      <4>1. call' = [call EXCEPT ![w] = Idle]
        BY <2>8, <3>2 DEF Release
      <4> QED
        BY <1>4, <1>i, <3>1, <4>1
    <3>3. CASE order' # order
      <4>1. call' = [Outdated("release") EXCEPT ![w] = Idle]
        BY <2>8, <3>3 DEF Release
      <4> QED
        BY <1>3, <1>i, <3>1, <4>1
    <3> QED
      BY <3>2, <3>3
  <2>9. CASE Crash(w)
    BY <2>1, <2>9 DEF Crash
  <2> QED
    BY <1>11, <2>2, <2>3, <2>4, <2>5, <2>6, <2>7, <2>8, <2>9 DEF Continue
<1> QED
  BY <1>7, <1>8, <1>9, <1>10, <1>11 DEF Next

-----------------------------------------------------------------------------
(* The order and its payout. *)

\* Handlers that only begin leave the order and the books alone.
LEMMA OpenKeeps ==
  ASSUME NEW w \in Workers, Open(w)
  PROVE  /\ UNCHANGED <<order, payout, books, over, offered, reheld>>
         /\ code' = code \/ (order.ret # None /\ code' = [code EXCEPT !["drop"] = TRUE])
BY DEF Open, StartSettle, Request, Approve, Reject, Assign, Accept, Decline, Status, Qc,
       Arrive, Pickup, Drop, StartJob, Begin, None

LEMMA OrderStep ==
  ASSUME TypeInv, CallInv, OrderInv, [Next]_vars
  PROVE  OrderInv'
<1>0. Plain /\ CallType /\ order \in OrderType /\ books \in BooksType
  BY TypeParts DEF Plain
<1>1. ASSUME UNCHANGED <<order, payout, books, over, offered, reheld>>,
             code' = code \/ order.ret # None
      PROVE  OrderInv'
  BY <1>1 DEF OrderInv, OnHold
<1>2. CASE UNCHANGED vars \/ PickupCode
  BY <1>1, <1>2 DEF vars, PickupCode, None
<1>3. CASE WindowEnds
  BY <1>3 DEF WindowEnds, OrderInv, OnHold
<1>4. CASE Process
  BY <1>0, <1>4 DEF Process, Pay, OrderInv, OnHold, OrderType, BooksType
<1>5. CASE PickupTimeout
  BY <1>0, <1>5 DEF PickupTimeout, OrderInv, OnHold, OrderType, None
<1>6. ASSUME NEW w \in Workers, Open(w)
      PROVE  OrderInv'
  BY <1>1, <1>6, OpenKeeps
<1>7. ASSUME NEW w \in Workers, Continue(w) \/ Crash(w)
      PROVE  OrderInv'
  <2>0. /\ call[w] \in Activations /\ Shaped(call[w]) /\ Current(call[w], order, payout, over)
    BY <1>0 DEF CallType, Good, CallInv
  <2>1. CASE Queue(w)
    <3>1. payout # "CANCELLED" /\ (payout' = payout \/ (payout = "none" /\ payout' = "PENDING"))
      BY <2>0, <2>1 DEF Queue, At, Current
    <3> QED
      BY <2>1, <3>1 DEF Queue, OrderInv, OnHold
  <2>2. CASE Commit(w)
    <3>1. CASE call[w].stale
      BY <1>1, <2>2, <3>1 DEF Commit
    <3>2. CASE ~call[w].stale
      <4>1. /\ order' = [order EXCEPT !.settled = TRUE, !.window = TRUE,
                                      !.pay = IF call[w].hold THEN "HOLD" ELSE order.pay]
            /\ reheld' = (reheld \/ (call[w].hold /\ payout = "COMPLETED"))
            /\ UNCHANGED <<payout, books, code, over, offered>>
        BY <2>2, <3>2 DEF Commit
      <4>2. call[w].op = "settle" /\ call[w].pc = "commit"
        BY <2>0, <2>2 DEF Commit, At, Shaped
      <4>3. ~order.settled /\ payout \in {"PENDING", "COMPLETED"} /\ (~over => call[w].hold)
        BY <1>0, <2>0, <3>2, <4>2 DEF Current, OrderInv, Plain
      <4>4. /\ order'.ret = order.ret /\ order'.rider = order.rider
            /\ order'.settled /\ order'.window
            /\ order'.pay = IF call[w].hold THEN "HOLD" ELSE order.pay
        BY <1>0, <4>1 DEF OrderType
      <4> QED
        BY <4>1, <4>3, <4>4 DEF OrderInv, OnHold
    <3> QED
      BY <3>1, <3>2
  <2>3. CASE Consume(w)
    <3>1. call[w].op \in Codes
      BY <2>0, <2>3 DEF Consume, At, Shaped
    <3>2. order.ret # None
      BY <2>0, <3>1 DEF Current, Codes, Returning, Ops
    <3> QED
      BY <1>1, <2>3, <3>2 DEF Consume
  <2>4. CASE Save(w)
    <3>1. CASE call[w].stale
      BY <1>1, <2>4, <3>1 DEF Save
    <3>2. CASE ~call[w].stale
      <4>1. /\ order'.ret # None /\ order'.settled = order.settled /\ order'.pay = order.pay
            /\ UNCHANGED <<payout, reheld>>
        BY <2>4, <3>2, SavedReturn DEF Save
      <4> QED
        BY <4>1 DEF OrderInv
    <3> QED
      BY <3>1, <3>2
  <2>5. CASE Refund(w)
    <3>1. CASE UNCHANGED <<order, payout, books>>
      BY <1>1, <2>5, <3>1 DEF Refund
    <3>2. CASE Refunded
      <4>1. /\ order'.ret = "refund_completed" /\ order'.settled = order.settled
            /\ order'.pay = IF order.pay = "HOLD" /\ payout = "PENDING" THEN "CANCELLED"
                              ELSE order.pay
            /\ payout' = IF order.pay = "HOLD" /\ payout = "PENDING" THEN "CANCELLED"
                           ELSE payout
        BY <1>0, <3>2 DEF Refunded, OrderType
      <4>2. UNCHANGED <<over, reheld>>
        BY <2>5 DEF Refund
      <4> QED
        BY <4>1, <4>2 DEF OrderInv, None
    <3> QED
      BY <2>5, <3>1, <3>2 DEF Refund
  <2>6. CASE Credit(w)
    <3>1. /\ order'.ret = order.ret /\ order'.rider = order.rider /\ order'.pay = order.pay
          /\ order'.settled = order.settled /\ order'.window = order.window
          /\ books'.refunds = books.refunds
      BY <1>0, <2>6 DEF Credit, OrderType, BooksType
    <3> QED
      BY <2>6, <3>1 DEF Credit, OrderInv, OnHold
  <2>7. CASE Release(w)
    <3>1. order'.ret = order.ret /\ order'.rider = order.rider /\ order'.settled = order.settled
      BY <1>0, <2>7 DEF Release, Pay, OrderType
    <3>2. over \/ order.ret # None
      BY <2>0, <2>7 DEF Release, At, Shaped, Current, Returning, Ops
    <3>3. \/ UNCHANGED <<order, payout, books>>
          \/ /\ order'.pay = "COMPLETED" /\ payout' = "COMPLETED"
             /\ books'.refunds = books.refunds
          \/ order'.pay = "PENDING" /\ UNCHANGED <<payout, books>>
      BY <1>0, <2>7 DEF Release, Pay, OrderType, BooksType
    <3> QED
      BY <2>7, <3>1, <3>2, <3>3 DEF Release, OrderInv
  <2>8. CASE Crash(w)
    BY <1>1, <2>8 DEF Crash
  <2> QED
    BY <1>7, <2>1, <2>2, <2>3, <2>4, <2>5, <2>6, <2>7, <2>8 DEF Continue
<1> QED
  BY <1>2, <1>3, <1>4, <1>5, <1>6, <1>7 DEF Next

-----------------------------------------------------------------------------
(* The money. *)

\* A payout that is processed adds to the books what the seller was to have.
LEMMA PayMoney ==
  ASSUME Plain, MoneyInv, payout = "PENDING", Pay, UNCHANGED reheld
  PROVE  MoneyInv'
<1>1. /\ payout' = "COMPLETED" /\ books'.paid /\ books'.back = books.back
      /\ books'.refunds = books.refunds
      /\ order'.ret = order.ret /\ order'.share = order.share
  BY DEF Plain, Pay, OrderType, BooksType
<1> QED
  BY <1>1 DEF MoneyInv, SellerBooks, RefundOnce, SellerGivesBack, SellerKeeps

\* The refund cancels a payout on hold or takes the share back.
LEMMA RefundMoney ==
  ASSUME Plain, OrderInv, MoneyInv, Refunded, books.refunds = 0, UNCHANGED reheld
  PROVE  MoneyInv'
<1> DEFINE held == order.pay = "HOLD"
<1>1. /\ order.share \in Nat /\ books.back = 0 /\ payout # "CANCELLED"
      /\ order.share <= Earning /\ Earning \in Nat
  <2>1. Shares \cup {0} \subseteq 0..Earning /\ Earning \in Nat
    BY EarningAssumption
  <2>2. order.share \in Shares \cup {0}
    BY DEF Plain, OrderType
  <2>3. order.share \in 0..Earning
    BY <2>1, <2>2
  <2> QED
    BY <2>1, <2>3 DEF MoneyInv, SellerBooks
<1>2. /\ payout' = IF held /\ payout = "PENDING" THEN "CANCELLED" ELSE payout
      /\ books'.paid = books.paid /\ books'.refunds = 1
      /\ books'.back = IF held THEN books.back ELSE books.back + order.share
      /\ order'.share = order.share
  BY DEF Plain, Refunded, OrderType, BooksType, Twice
<1>3. held => reheld \/ payout = "PENDING"
  BY DEF OrderInv
<1>4. CASE held
  BY <1>1, <1>2, <1>3, <1>4 DEF MoneyInv, SellerBooks, RefundOnce, SellerGivesBack, SellerKeeps
<1>5. CASE ~held
  BY <1>1, <1>2, <1>5 DEF MoneyInv, SellerBooks, RefundOnce, SellerGivesBack, SellerKeeps
<1> QED
  BY <1>4, <1>5

LEMMA MoneyStep ==
  ASSUME TypeInv, CallInv, OrderInv, MoneyInv, [Next]_vars
  PROVE  MoneyInv'
<1> USE DEF MoneyInv, SellerBooks, RefundOnce, SellerGivesBack, SellerKeeps
<1>0. /\ Plain /\ CallType /\ order \in OrderType /\ books \in BooksType
      /\ Earning \in Nat /\ books.back \in Nat /\ order.share \in Nat
      /\ order.share <= Earning
  <2>1. Plain /\ CallType /\ order \in OrderType /\ books \in BooksType
    BY TypeParts DEF Plain
  <2>2. Shares \cup {0} \subseteq 0..Earning /\ Earning \in Nat
    BY EarningAssumption
  <2>3. order.share \in Shares \cup {0} /\ books.back \in Nat
    BY <2>1 DEF OrderType, BooksType
  <2>4. order.share \in 0..Earning
    BY <2>2, <2>3
  <2> QED
    BY <2>1, <2>2, <2>3, <2>4
<1>1. ASSUME order'.ret = order.ret, order'.share = order.share, books'.paid = books.paid,
             books'.back = books.back, books'.refunds = books.refunds, payout' = payout,
             reheld => reheld'
      PROVE  MoneyInv'
  BY <1>1
<1>2. CASE UNCHANGED vars \/ PickupCode \/ WindowEnds
  BY <1>1, <1>2 DEF vars, PickupCode, WindowEnds
<1>3. CASE Process
  BY <1>0, <1>3, PayMoney DEF Process
<1>4. CASE PickupTimeout
  BY <1>0, <1>4 DEF PickupTimeout, OrderType
<1>5. ASSUME NEW w \in Workers, Open(w)
      PROVE  MoneyInv'
  BY <1>1, <1>5, OpenKeeps
<1>6. ASSUME NEW w \in Workers, Continue(w) \/ Crash(w)
      PROVE  MoneyInv'
  <2>0. /\ call[w] \in Activations /\ Shaped(call[w]) /\ Current(call[w], order, payout, over)
    BY <1>0 DEF CallType, Good, CallInv
  <2>1. CASE Queue(w)
    <3>1. payout # "CANCELLED" /\ (payout' = payout \/ (payout = "none" /\ payout' = "PENDING"))
      BY <2>0, <2>1 DEF Queue, At, Current
    <3>2. UNCHANGED <<order, books, reheld>>
      BY <2>1 DEF Queue
    <3> QED
      BY <1>0, <3>1, <3>2
  <2>2. CASE Commit(w)
    <3>1. order'.ret = order.ret /\ order'.share = order.share
      BY <1>0, <2>2 DEF Commit, OrderType
    <3> QED
      BY <1>1, <2>2, <3>1 DEF Commit
  <2>3. CASE Consume(w) \/ Crash(w)
    BY <1>1, <2>3 DEF Consume, Crash
  <2>4. CASE Save(w)
    <3>1. CASE call[w].stale
      BY <1>1, <2>4, <3>1 DEF Save
    <3>2. CASE ~call[w].stale
      <4>1. UNCHANGED <<payout, books, reheld>>
        BY <2>4 DEF Save
      <4>2. order'.ret = "refund_completed" => order.ret = "refund_completed"
        BY <2>4, <3>2, SavedReturn
      <4>3. order'.share = order.share \/ call[w].op = "request"
        BY <2>4, <3>2, SavedReturn
      <4>4. call[w].op = "request" => books.refunds = 0 /\ books.back = 0
        BY <2>0, <3>2 DEF Current, OrderInv
      <4> QED
        BY <4>1, <4>2, <4>3, <4>4
    <3> QED
      BY <3>1, <3>2
  <2>5. CASE Refund(w)
    <3>1. CASE UNCHANGED <<order, payout, books>>
      BY <1>1, <2>5, <3>1 DEF Refund
    <3>2. CASE Refunded /\ books.refunds = 0
      BY <1>0, <2>5, <3>2, RefundMoney DEF Refund
    <3> QED
      BY <2>5, <3>1, <3>2 DEF Refund
  <2>6. CASE Credit(w)
    <3>1. /\ order'.ret = order.ret /\ order'.share = order.share
          /\ books'.paid = books.paid /\ books'.back = books.back
          /\ books'.refunds = books.refunds
      BY <1>0, <2>6 DEF Credit, OrderType, BooksType
    <3> QED
      BY <1>1, <2>6, <3>1 DEF Credit
  <2>7. CASE Release(w)
    <3>1. CASE payout = "PENDING" /\ Pay
      BY <1>0, <2>7, <3>1, PayMoney DEF Release
    <3>2. CASE UNCHANGED <<order, payout, books>>
      BY <1>1, <2>7, <3>2 DEF Release
    <3>3. CASE order' = [order EXCEPT !.pay = "PENDING"] /\ UNCHANGED <<payout, books>>
      BY <1>0, <1>1, <2>7, <3>3 DEF Release, OrderType
    <3> QED
      BY <2>7, <3>1, <3>2, <3>3 DEF Release
  <2> QED
    BY <1>6, <2>1, <2>2, <2>3, <2>4, <2>5, <2>6, <2>7 DEF Continue
<1> QED
  BY <1>2, <1>3, <1>4, <1>5, <1>6 DEF Next

-----------------------------------------------------------------------------
(* The theorems. *)

LEMMA ReturnInit == Init => ReturnInv
<1> SUFFICES ASSUME Init
             PROVE  ReturnInv
  OBVIOUS
<1>1. Plain
  <2>1. order \in OrderType
    BY DEF Init, NewOrder, OrderType, Statuses
  <2>2. books \in BooksType
    BY DEF Init, NoBooks, BooksType
  <2>3. crashes \in 0..MaxCrash
    BY SettingAssumption DEF Init
  <2> QED
    BY <2>1, <2>2, <2>3 DEF Init, Plain
<1>2. CallType
  BY IdleGood DEF Init, CallType, Good
<1>3. CallInv
  BY DEF Init, CallInv, Current, Idle, Returning, Ops
<1>4. OrderInv
  BY DEF Init, OrderInv, NewOrder, NoBooks
<1>5. MoneyInv
  <2>1. /\ books.paid = FALSE /\ books.refunds = 0 /\ books.back = 0 /\ payout = "none"
        /\ order.ret = "none"
    BY DEF Init, NewOrder, NoBooks, None
  <2>2. books.paid = (payout = "COMPLETED")
    BY <2>1
  <2>3. ~(books.refunds > 0) /\ ~(books.back > 0) /\ books.refunds <= 1
    BY <2>1
  <2> QED
    BY <2>1, <2>2, <2>3 DEF MoneyInv, SellerBooks, RefundOnce, SellerGivesBack
<1> QED
  BY <1>1, <1>2, <1>3, <1>4, <1>5, TypeParts DEF ReturnInv

\* The inductive invariant: what a handler is about to save fits the order it is saved
\* in, a held payout is pending, and a refund that was given was settled with the seller.
THEOREM ReturnInvariant == Spec => []ReturnInv
<1>1. ReturnInv /\ [Next]_vars => ReturnInv'
  BY TypeStep, CallStep, OrderStep, MoneyStep DEF ReturnInv
<1> QED
  BY <1>1, ReturnInit, PTL DEF Spec

\* Every value has its type in every state.
THEOREM TypeCorrect == Spec => []TypeOK
<1>1. ReturnInv => TypeOK
  BY DEF ReturnInv, TypeInv
<1> QED
  BY <1>1, ReturnInvariant, PTL

\* Whatever handlers, jobs and administrators do at the same time, a payout and a return
\* never touch the same money twice, and the customer's refund is the seller's loss
\* (orderReturnService.js:541-628, payoutService.js:105-291).
THEOREM SellerCorrect == Spec => []SellerBooks
<1>1. ReturnInv => SellerBooks
  BY DEF ReturnInv, MoneyInv
<1> QED
  BY <1>1, ReturnInvariant, PTL

\* A return is refunded at most once, and one that reads as refunded was
\* (orderReturnService.js:477-487, 519).
THEOREM RefundCorrect == Spec => []RefundOnce
<1>1. ReturnInv => RefundOnce
  BY DEF ReturnInv, MoneyInv
<1> QED
  BY <1>1, ReturnInvariant, PTL

\* After the settlement the payout of an order that did not come back is processed only
\* when the return window is over, by whatever path (payoutService.js:139-141).
THEOREM HoldCorrect == Spec => HoldHonoured
<1>1. ReturnInv /\ [Next]_vars =>
        (payout # "COMPLETED" /\ payout' = "COMPLETED" /\ order.ret = None
           => over \/ ~order.settled)
  <2> SUFFICES ASSUME ReturnInv, [Next]_vars, payout # "COMPLETED", payout' = "COMPLETED"
               PROVE  order.ret = None => over \/ ~order.settled
    OBVIOUS
  <2>0. TypeInv /\ CallInv /\ OrderInv /\ CallType
    BY CallsTyped DEF ReturnInv
  <2>1. ASSUME payout = "PENDING", ~OnHold
        PROVE  order.ret = None => over \/ ~order.settled
    BY <2>0, <2>1 DEF OrderInv
  <2>2. CASE Process
    BY <2>1, <2>2 DEF Process
  <2>3. CASE UNCHANGED vars \/ PickupTimeout \/ PickupCode \/ WindowEnds
    BY <2>3 DEF vars, PickupTimeout, PickupCode, WindowEnds
  <2>4. ASSUME NEW w \in Workers, Open(w)
        PROVE  FALSE
    BY <2>4, OpenKeeps
  <2>5. ASSUME NEW w \in Workers, Continue(w) \/ Crash(w)
        PROVE  payout = "PENDING" /\ ~OnHold
    <3>1. ~Queue(w) /\ ~Commit(w) /\ ~Consume(w) /\ ~Save(w) /\ ~Credit(w) /\ ~Crash(w)
      BY DEF Queue, Commit, Consume, Save, Credit, Crash
    <3>2. ~Refund(w)
      BY DEF Refund, Refunded
    <3>3. Release(w)
      BY <2>5, <3>1, <3>2 DEF Continue
    <3> QED
      BY <3>3 DEF Release
  <2> QED
    BY <2>1, <2>2, <2>3, <2>4, <2>5 DEF Next
<1> QED
  BY <1>1, ReturnInvariant, PTL DEF Spec, HoldHonoured

-----------------------------------------------------------------------------
(***************************************************************************)
(* The handlers implement ReturnPromise: every step is a step of the       *)
(* promise or leaves the stage of the return and the money alone.          *)
(***************************************************************************)
\* The stage of each status.
StageOfReturn ==
  /\ order.ret = None => Stage = "kept"
  /\ order.ret = "refund_completed" => Stage = "closed"
  /\ order.ret \notin {None, "refund_completed"} => Stage = "returning"

\* The refinement mapping, before a step ...
LEMMA StageNow == StageOfReturn
BY DEF StageOfReturn, Stage, None

\* ... and after it.
LEMMA StageThen == StageOfReturn'
BY DEF StageOfReturn, Stage, None

\* A delivered order is a promised one.
LEMMA PromiseInit == Init => Promise!Init
BY StageNow DEF StageOfReturn, Init, NewOrder, NoBooks, Promise!Init

Kind == Promise!Next \/ UNCHANGED Promise!vars

\* What the promise does not see.
LEMMA HiddenStep ==
  ASSUME UNCHANGED <<over, reheld, payout>>, order'.settled = order.settled,
         order'.share = order.share, books'.paid = books.paid, books'.back = books.back,
         books'.refunds = books.refunds,
         \/ order'.ret = order.ret
         \/ /\ order.ret \notin {None, "refund_completed"}
            /\ order'.ret \notin {None, "refund_completed"}
  PROVE  Kind
<1>1. Stage' = Stage
  BY StageNow, StageThen DEF StageOfReturn
<1> QED
  BY <1>1 DEF Kind, Promise!vars, Promise!return, Promise!money

\* A payout is processed in its time.
LEMMA PayStep ==
  ASSUME TypeInv, OrderInv, Pay, payout = "PENDING", ~OnHold, UNCHANGED <<over, reheld>>
  PROVE  Kind
<1>1. /\ order'.ret = order.ret /\ order'.settled = order.settled
      /\ order'.share = order.share
      /\ payout' = "COMPLETED" /\ books'.paid /\ books'.paid \in BOOLEAN
      /\ books'.back = books.back /\ books'.refunds = books.refunds
  BY TypeParts DEF Plain, Pay, OrderType, BooksType
<1>2. Stage' = Stage /\ (order.settled /\ Stage = "kept" => over)
  BY <1>1, StageNow, StageThen DEF StageOfReturn, OrderInv
<1>3. Promise!Pay
  BY <1>1, <1>2 DEF Promise!Pay, Promise!return
<1> QED
  BY <1>3 DEF Kind, Promise!Next

\* The payout is queued once.
LEMMA QueueStep ==
  ASSUME TypeInv, CallInv, NEW w \in Workers, Queue(w)
  PROVE  Kind
<1>1. payout # "CANCELLED" /\ UNCHANGED <<order, books, over, reheld>>
  BY DEF Queue, CallInv, Current, At
<1>2. CASE payout = "none"
  <2>1. Stage' = Stage
    BY <1>1, StageNow, StageThen DEF StageOfReturn
  <2>2. Promise!Queue
    BY <1>1, <1>2, <2>1 DEF Queue, Promise!Queue, Promise!return
  <2> QED
    BY <2>2 DEF Kind, Promise!Next
<1>3. CASE payout # "none"
  <2>1. payout' = payout
    BY <1>1, <1>3 DEF Queue
  <2> QED
    BY <1>1, <2>1, HiddenStep
<1> QED
  BY <1>2, <1>3

\* The settlement that commits is the first.
LEMMA CommitStep ==
  ASSUME TypeInv, CallInv, OrderInv, NEW w \in Workers, Commit(w)
  PROVE  Kind
<1>0. /\ order \in OrderType /\ reheld \in BOOLEAN /\ call[w] \in Activations
      /\ Shaped(call[w]) /\ Current(call[w], order, payout, over)
      /\ payout \in {"none", "PENDING", "COMPLETED", "CANCELLED"}
  BY TypeParts DEF Plain, CallType, Good, CallInv
<1>1. CASE call[w].stale
  BY <1>1, HiddenStep DEF Commit
<1>2. CASE ~call[w].stale
  <2>1. ~order.settled /\ payout \in {"PENDING", "COMPLETED"}
    BY <1>0, <1>2 DEF Commit, At, Shaped, Current, OrderInv
  <2>2. /\ order' = [order EXCEPT !.settled = TRUE, !.window = TRUE,
                                  !.pay = IF call[w].hold THEN "HOLD" ELSE order.pay]
        /\ reheld' = (reheld \/ (call[w].hold /\ payout = "COMPLETED"))
        /\ UNCHANGED <<payout, books, over>>
    BY <1>2 DEF Commit
  <2>3. order'.settled = TRUE /\ order'.ret = order.ret /\ order'.share = order.share
    BY <1>0, <2>2 DEF OrderType
  <2>4. reheld' = reheld \/ (payout = "COMPLETED" /\ reheld' = TRUE)
    BY <1>0, <2>2 DEF Activations
  <2>5. Stage' = Stage
    BY <2>3, StageNow, StageThen DEF StageOfReturn
  <2>6. Promise!Settle
    BY <2>1, <2>2, <2>3, <2>4, <2>5 DEF Promise!Settle, Promise!return, Promise!money
  <2> QED
    BY <2>6 DEF Kind, Promise!Next
<1> QED
  BY <1>1, <1>2

\* A save requests the return, opens it again or moves it along.
LEMMA SaveStep ==
  ASSUME TypeInv, CallInv, OrderInv, NEW w \in Workers, Save(w)
  PROVE  Kind
<1>0. /\ call[w] \in Activations /\ Shaped(call[w])
      /\ Current(call[w], order, payout, over)
      /\ UNCHANGED <<payout, books, over, reheld>>
  BY TypeParts DEF CallType, Good, CallInv, Save
<1>1. CASE call[w].stale
  BY <1>0, <1>1, HiddenStep DEF Save
<1>2. CASE ~call[w].stale
  <2>1. /\ order'.ret # None
        /\ order'.ret = "refund_completed" => order.ret = "refund_completed"
        /\ order'.settled = order.settled
        /\ order.ret = None => call[w].op = "request"
        /\ order'.share = IF call[w].op = "request" THEN call[w].share ELSE order.share
    BY <1>2, SavedReturn
  <2>2. CASE call[w].op = "request"
    <3>1. order.ret = None /\ call[w].share \in Shares
      BY <1>0, <1>2, <2>2 DEF Current, Shaped
    <3>2. Stage = "kept" /\ Stage' = "returning"
      BY <2>1, <3>1, StageNow, StageThen DEF StageOfReturn, None
    <3>3. Promise!Request(call[w].share)
      BY <1>0, <2>1, <2>2, <3>2 DEF Promise!Request, Promise!money
    <3> QED
      BY <3>1, <3>3 DEF Kind, Promise!Next
  <2>3. CASE call[w].op # "request" /\ order.ret = "refund_completed"
                                   /\ order'.ret # "refund_completed"
    <3>1. Stage = "closed" /\ Stage' = "returning"
      BY <2>1, <2>3, StageNow, StageThen DEF StageOfReturn
    <3>2. Promise!Reopen
      BY <1>0, <2>1, <2>3, <3>1 DEF Promise!Reopen, Promise!money
    <3> QED
      BY <3>2 DEF Kind, Promise!Next
  <2>4. CASE call[w].op # "request" /\ (order.ret = "refund_completed"
                                           => order'.ret = "refund_completed")
    <3>1. \/ order'.ret = order.ret
          \/ /\ order.ret \notin {None, "refund_completed"}
             /\ order'.ret \notin {None, "refund_completed"}
      BY <2>1, <2>4
    <3> QED
      BY <1>0, <2>1, <2>4, <3>1, HiddenStep
  <2> QED
    BY <2>2, <2>3, <2>4
<1> QED
  BY <1>1, <1>2

\* The refund takes from the seller what it gives to the customer.
LEMMA RefundStep ==
  ASSUME ReturnInv, NEW w \in Workers, Refund(w)
  PROVE  Kind
<1>0. /\ order \in OrderType /\ books \in BooksType /\ UNCHANGED <<over, reheld>>
      /\ OrderInv /\ MoneyInv
  BY TypeParts DEF ReturnInv, Plain, Refund
<1>1. CASE UNCHANGED <<order, payout, books>>
  BY <1>0, <1>1, HiddenStep
<1>2. CASE Refunded /\ order.ret = "qc_passed" /\ books.refunds = 0
  <2> DEFINE held == order.pay = "HOLD"
             cancel == held /\ payout = "PENDING"
  <2>1. /\ order'.ret = "refund_completed" /\ order'.settled = order.settled
        /\ order'.share = order.share
    BY <1>0, <1>2 DEF Refunded, OrderType
  <2>2. /\ books'.refunds = 1 /\ books'.paid = books.paid
        /\ books'.back = IF held THEN books.back ELSE books.back + order.share
        /\ payout' = IF cancel THEN "CANCELLED" ELSE payout
    BY <1>0, <1>2 DEF Refunded, BooksType, Twice
  <2>3. books.back = 0 /\ payout # "CANCELLED"
    BY <1>0, <1>2 DEF MoneyInv, SellerBooks
  <2>4. Stage = "returning" /\ Stage' = "closed"
    BY <1>2, <2>1, StageNow, StageThen DEF StageOfReturn, None
  <2>5. held => order.settled /\ (reheld \/ payout = "PENDING")
    BY <1>0 DEF OrderInv
  <2>6. order.share \in Nat
    <3>1. Shares \cup {0} \subseteq Nat
      BY EarningAssumption
    <3>2. order.share \in Shares \cup {0}
      BY <1>0 DEF OrderType
    <3> QED
      BY <3>1, <3>2
  <2>7. \/ payout = "PENDING" /\ order.settled /\ payout' = "CANCELLED" /\ books'.back = books.back
        \/ payout # "CANCELLED" /\ books.back = 0 /\ books'.back = order.share /\ payout' = payout
        \/ reheld /\ payout' = payout /\ books'.back = books.back
    BY <2>2, <2>3, <2>5, <2>6
  <2>8. Promise!Refund
    BY <1>0, <1>2, <2>1, <2>2, <2>4, <2>7 DEF Promise!Refund
  <2> QED
    BY <2>8 DEF Kind, Promise!Next
<1> QED
  BY <1>1, <1>2 DEF Refund

\* Every step is one of these, or hidden.
LEMMA PromiseStep ==
  ASSUME ReturnInv, [Next]_vars
  PROVE  [Promise!Next]_(Promise!vars)
<1> SUFFICES Kind
  BY DEF Kind
<1>0. /\ TypeInv /\ CallInv /\ OrderInv /\ order \in OrderType /\ books \in BooksType
  BY TypeParts DEF ReturnInv, Plain
<1>1. CASE UNCHANGED vars \/ PickupCode
  BY <1>1, HiddenStep DEF vars, PickupCode
<1>2. CASE Process
  BY <1>0, <1>2, PayStep DEF Process
<1>3. CASE PickupTimeout
  <2>1. /\ order.ret = "return_pickup_assigned" /\ order'.ret = "return_approved"
        /\ order'.settled = order.settled /\ order'.share = order.share
        /\ UNCHANGED <<payout, books, over, reheld>>
    BY <1>0, <1>3 DEF PickupTimeout, OrderType
  <2> QED
    BY <2>1, HiddenStep DEF None
<1>4. CASE WindowEnds
  <2>1. Stage' = Stage
    BY <1>4, StageNow, StageThen DEF StageOfReturn, WindowEnds
  <2>2. Promise!Expire
    BY <1>4, <2>1 DEF WindowEnds, Promise!Expire, Promise!return, Promise!money
  <2> QED
    BY <2>2 DEF Kind, Promise!Next
<1>5. ASSUME NEW w \in Workers, Open(w) PROVE Kind
  BY <1>5, OpenKeeps, HiddenStep
<1>6. ASSUME NEW w \in Workers, Continue(w) \/ Crash(w) PROVE Kind
  <2>1. CASE Queue(w) \/ Commit(w) \/ Save(w) \/ Refund(w)
    BY <1>0, <2>1, QueueStep, CommitStep, SaveStep, RefundStep
  <2>2. CASE Consume(w) \/ Crash(w)
    BY <2>2, HiddenStep DEF Consume, Crash
  <2>3. CASE Credit(w)
    <3>1. /\ order'.ret = order.ret /\ order'.settled = order.settled
          /\ order'.share = order.share
          /\ books'.paid = books.paid /\ books'.back = books.back
          /\ books'.refunds = books.refunds
      BY <1>0, <2>3 DEF Credit, OrderType, BooksType
    <3> QED
      BY <2>3, <3>1, HiddenStep DEF Credit
  <2>4. CASE Release(w)
    <3>1. CASE Pay /\ payout = "PENDING" /\ ~OnHold
      BY <1>0, <2>4, <3>1, PayStep DEF Release
    <3>2. CASE UNCHANGED <<order, payout, books>>
      BY <2>4, <3>2, HiddenStep DEF Release
    <3>3. CASE order' = [order EXCEPT !.pay = "PENDING"] /\ UNCHANGED <<payout, books>>
      <4>1. /\ order'.ret = order.ret /\ order'.settled = order.settled
            /\ order'.share = order.share
        BY <1>0, <3>3 DEF OrderType
      <4> QED
        BY <2>4, <3>3, <4>1, HiddenStep DEF Release
    <3> QED
      BY <2>4, <3>1, <3>2, <3>3 DEF Release
  <2> QED
    BY <1>6, <2>1, <2>2, <2>3, <2>4 DEF Continue
<1> QED
  BY <1>1, <1>2, <1>3, <1>4, <1>5, <1>6 DEF Next

\* All handlers together move the money as one clerk would.
THEOREM ReturnKeepsPromise == Spec => PromiseKept
<1>1. ReturnInv /\ [Next]_vars => [Promise!Next]_(Promise!vars)
  BY PromiseStep
<1> QED
  BY <1>1, PromiseInit, ReturnInvariant, PTL DEF Spec, PromiseKept, Promise!Spec
=============================================================================

----------------------- MODULE PaymentCapture_proofs -----------------------
(***************************************************************************)
(* Theorems about PaymentCapture: for every group of orders, every set of  *)
(* signals, any number of workers, crashes and aborts.                     *)
(*                                                                         *)
(* The argument: what is known of a payment only grows (MoneyOnlyGrows),   *)
(* so what an activation established by its earlier calls still holds at   *)
(* its later ones, whatever ran in between; and a step of one activation   *)
(* leaves the others where they are (OneActivationMoves).                  *)
(***************************************************************************)
EXTENDS PaymentCapture, TLAPS

Captures == {"split", "lock"} \cup UnderLock

Accounted(o) ==
  \/ order[o] # "CREATED" /\ captured[o]
  \/ order[o] = "CANCELLED" /\ <<"LATE", payId>> \in keys
Own(s) == s.id = payId \/ <<"DUPLICATE", s.id>> \in keys

\* A captured payment has an id, and nothing is captured or settled before it.
CaptureNamed ==
  /\ pstatus = "CAPTURED" => payId \in PayIds
  /\ \A w \in Workers : call[w].pc \in Captures => pstatus = "CAPTURED"

TypeInv == TypeOK /\ CaptureNamed

\* The ledger follows the flags, which are written in the same transactions.
LedgerFollowsFlags ==
  \A o \in Orders :
    /\ credits[o] = IF captured[o] THEN 1 ELSE 0
    /\ debits[o] \in {0, 1}
    /\ debits[o] = 1 => captured[o] /\ reversed[o]

\* An order reaches the seller after its own credit.
CreditedBeforeSeller ==
  /\ \A o \in Orders : order[o] = "SELLER_PENDING" => captured[o]
  /\ \A w \in Workers : At(w, "seller") => \A o \in call[w].now : captured[o]

\* Whoever applies a capture does so for a captured payment; an order it has
\* left or never had to do is accounted for.
CaptureProgress ==
  /\ settled => pstatus = "CAPTURED"
  /\ \A w \in Workers :
       /\ call[w].pc \in {"lock"} \cup UnderLock
            => \A o \in Orders \ call[w].todo : Accounted(o)
       /\ At(w, "settle") => call[w].todo = {}
  /\ settled => \A o \in Orders : Accounted(o)

\* An activation past its claim, and an acknowledged event, belong to the
\* payment that was claimed or are flagged.
ClaimedOrFlagged ==
  /\ \A w \in Workers :
       call[w].pc \in Captures \cup {"complete"} /\ call[w].sig.kind = "captured"
         => pstatus = "CAPTURED" /\ Own(call[w].sig)
  /\ \A w \in Workers : At(w, "cancelOrders") => call[w].sig.kind = "closed"
  /\ \A s \in Signals :
       s.kind = "captured" /\ event[s] = "PROCESSED" => pstatus = "CAPTURED" /\ Own(s)

\* Only a cancelled order is compensated.
UndoneWhenCancelled == \A o \in Orders : undo[o] # "none" => order[o] = "CANCELLED"

CaptureInv ==
  TypeInv /\ LedgerFollowsFlags /\ CreditedBeforeSeller /\ CaptureProgress
    /\ ClaimedOrFlagged /\ UndoneWhenCancelled

-----------------------------------------------------------------------------
(* Facts about one step. *)

Acts(w) ==
  \/ Continue(w) \/ Abort(w) \/ Crash(w)
  \/ \E s \in Signals : Deliver(w, s)
  \/ \E s \in Polls : Verify(w, s)

\* A signal of kind "captured" that an activation works on carries a payment id.
LEMMA CapturedSignal ==
  ASSUME TypeOK, NEW w \in Workers, call[w].sig.kind = "captured"
  PROVE  call[w].sig.id \in PayIds /\ call[w].sig \in Signals \cup Polls
<1>1. call[w].sig \in Signals \cup Polls \cup {NoSignal}
  BY DEF TypeOK
<1>2. call[w].sig # NoSignal
  BY DEF NoSignal
<1> QED
  BY <1>1, <1>2, SignalAssumption

\* For each activation, one step leaves it alone or is one of its own.
LEMMA OneActivationMoves ==
  ASSUME TypeOK, [Next]_vars, NEW w \in Workers
  PROVE  call'[w] = call[w] \/ Acts(w)
<1> USE DEF TypeOK
<1>1. CASE UNCHANGED call
  BY <1>1
<1>2. ASSUME NEW v \in Workers, Acts(v) PROVE call'[w] = call[w] \/ Acts(w)
  <2>1. v # w => call'[w] = call[w]
    BY <1>2 DEF Acts, Continue, HandleCaptured, Split, Lock, Finance, ToSeller, Settle,
       HandleClosed, CancelUnpaidOrders, Complete, Abort, Crash, Deliver, Verify,
       Goto, Resume, Finish, Start
  <2> QED
    BY <1>2, <2>1
<1>3. UNCHANGED call \/ \E v \in Workers : Acts(v)
  BY DEF Next, vars, Acts, LinkCloses, CustomerPays, ReservationTimeout,
     CancelAtSeller, CancelOrder, Undo, UndoLost
<1> QED
  BY <1>1, <1>2, <1>3

\* What is known of the payment only grows: a capture stands with its id, a
\* credit and a flag stay, and so does the settlement; and no order goes back.
Grows ==
  /\ pstatus = "CAPTURED" => pstatus' = "CAPTURED" /\ payId' = payId
  /\ \A o \in Orders : captured[o] => captured'[o]
  /\ keys \subseteq keys'
  /\ settled => settled'
  /\ \A o \in Orders : order[o] # "CREATED" => order'[o] \in {order[o], "CANCELLED"}

\* No step takes back a capture, a credit, a flag, a settlement or an order.
LEMMA MoneyOnlyGrows == TypeOK /\ [Next]_vars => Grows
<1> SUFFICES ASSUME TypeOK, [Next]_vars PROVE Grows
  OBVIOUS
<1> USE DEF TypeOK, payVars, moneyVars, Grows
<1>1. ASSUME NEW w \in Workers, Continue(w) PROVE Grows
  <2>1. CASE HandleCaptured(w) \/ HandleClosed(w)
    BY <2>1 DEF HandleCaptured, HandleClosed
  <2>2. CASE Split(w) \/ Lock(w) \/ Settle(w)
    BY <2>2 DEF Split, Lock, Settle
  <2>3. ASSUME NEW o \in Orders, Finance(w, o) PROVE Grows
    BY <2>3 DEF Finance
  <2>4. CASE ToSeller(w) \/ CancelUnpaidOrders(w) \/ Complete(w)
    BY <2>4 DEF ToSeller, CancelUnpaidOrders, Complete
  <2> QED
    BY <1>1, <2>1, <2>2, <2>3, <2>4 DEF Continue
<1>2. ASSUME NEW w \in Workers, Abort(w) \/ Crash(w) PROVE Grows
  BY <1>2 DEF Abort, Crash
<1>3. ASSUME NEW w \in Workers, NEW s, Deliver(w, s) \/ Verify(w, s) PROVE Grows
  BY <1>3 DEF Deliver, Verify
<1>4. ASSUME NEW o \in Orders,
             ReservationTimeout(o) \/ CancelAtSeller(o) \/ Undo(o) \/ UndoLost(o)
      PROVE  Grows
  BY <1>4 DEF ReservationTimeout, CancelAtSeller, CancelOrder, Undo, UndoLost
<1>5. ASSUME NEW id \in PayIds, CustomerPays(id) PROVE Grows
  BY <1>5 DEF CustomerPays
<1>6. CASE LinkCloses \/ UNCHANGED vars
  BY <1>6 DEF LinkCloses, vars
<1> QED
  BY <1>1, <1>2, <1>3, <1>4, <1>5, <1>6 DEF Next

-----------------------------------------------------------------------------
(* Type correctness. *)

Activations == [pc : Pcs, sig : Signals \cup Polls \cup {NoSignal},
                todo : SUBSET Orders, now : SUBSET Orders]

\* The calls an activation can be at, spelled out.
LEMMA PcsMembers ==
  Pcs = {"idle", "handle", "split", "lock", "cancelOrders", "complete",
         "finance", "seller", "settle"}
BY DEF Pcs, UnderLock

\* A slot that moves on and one that ends hold well-typed activations.
LEMMA CallType ==
  ASSUME TypeOK, NEW w \in Workers
  PROVE  /\ \A pc \in Pcs : Goto(w, pc) => call' \in [Workers -> Activations]
         /\ \A s \in Signals \cup Polls : Start(w, s) => call' \in [Workers -> Activations]
         /\ Finish(w) => call' \in [Workers -> Activations]
         /\ \A pc \in Pcs : \A todo, now \in SUBSET Orders :
              Resume(w, pc, todo, now) => call' \in [Workers -> Activations]
<1>1. Idle \in Activations
  BY PcsMembers DEF Idle, Activations
<1>2. call \in [Workers -> Activations]
  BY DEF TypeOK, Activations
<1>3. \A s \in Signals \cup Polls : [Idle EXCEPT !.pc = "handle", !.sig = s] \in Activations
  BY PcsMembers DEF Idle, Activations
<1>4. \A s \in Signals \cup Polls : Start(w, s) => call' \in [Workers -> Activations]
  BY <1>2, <1>3 DEF Start
<1>5. Finish(w) => call' \in [Workers -> Activations]
  BY <1>1, <1>2 DEF Finish
<1>6. \A pc \in Pcs : Goto(w, pc) => call' \in [Workers -> Activations]
  BY <1>2 DEF Goto, Activations
<1>7. \A pc \in Pcs : \A todo, now \in SUBSET Orders :
        Resume(w, pc, todo, now) => call' \in [Workers -> Activations]
  BY <1>2 DEF Resume, Activations
<1> QED
  BY <1>4, <1>5, <1>6, <1>7

\* Every step keeps the types.
LEMMA TypeStep == TypeInv /\ [Next]_vars => TypeOK'
<1> SUFFICES ASSUME TypeInv, [Next]_vars PROVE TypeOK'
  OBVIOUS
<1> USE CaptureBounds
    DEF TypeInv, payVars, moneyVars, gateVars, faultVars, Activations
<1>1. ASSUME NEW w \in Workers, HandleCaptured(w) PROVE TypeOK'
  <2>1. call[w].sig.id \in PayIds
    BY <1>1, CapturedSignal DEF HandleCaptured
  <2>2. call' \in [Workers -> Activations]
    BY <1>1, CallType, PcsMembers DEF HandleCaptured
  <2> QED
    BY <1>1, <2>1, <2>2 DEF HandleCaptured, TypeOK
<1>2. ASSUME NEW w \in Workers, Split(w) PROVE TypeOK'
  <2> DEFINE live == {o \in Orders : order[o] # "CANCELLED"}
             pc == IF live = {} THEN "complete" ELSE "lock"
  <2>0. pc \in Pcs /\ live \in SUBSET Orders /\ {} \in SUBSET Orders /\ Resume(w, pc, live, {})
    BY <1>2, PcsMembers DEF Split
  <2>1. call' \in [Workers -> Activations]
    <3> HIDE DEF live, pc
    <3> QED
      BY <2>0, CallType
  <2>2. payId \in PayIds
    BY <1>2 DEF Split, CaptureNamed, Captures, At
  <2>3. settled' \in BOOLEAN
    BY <1>2 DEF Split, TypeOK
  <2> QED
    BY <1>2, <2>1, <2>2, <2>3 DEF Split, TypeOK
<1>3. ASSUME NEW w \in Workers, Lock(w) PROVE TypeOK'
  <2>1. call' \in [Workers -> Activations]
    BY <1>3, CallType, PcsMembers DEF Lock
  <2> QED
    BY <1>3, <2>1 DEF Lock, TypeOK
<1>4. ASSUME NEW w \in Workers, NEW o \in Orders, Finance(w, o) PROVE TypeOK'
  <2>1. /\ call[w].todo \in SUBSET Orders /\ {o} \in SUBSET Orders /\ "seller" \in Pcs
        /\ Resume(w, "seller", call[w].todo, {o})
    BY <1>4, PcsMembers DEF TypeOK, Finance
  <2>2. call' \in [Workers -> Activations]
    BY <2>1, CallType
  <2>3. captured' \in [Orders -> BOOLEAN]
    BY <1>4 DEF Finance, TypeOK
  <2>4. credits' \in [Orders -> Nat]
    BY <1>4 DEF Finance, TypeOK
  <2> QED
    BY <1>4, <2>2, <2>3, <2>4 DEF Finance, TypeOK
<1>5. ASSUME NEW w \in Workers, ToSeller(w) PROVE TypeOK'
  <2> DEFINE rest == call[w].todo \ call[w].now
             pc == IF rest = {} THEN "settle" ELSE "finance"
  <2>1. pc \in Pcs /\ rest \in SUBSET Orders /\ {} \in SUBSET Orders /\ Resume(w, pc, rest, {})
    BY <1>5, PcsMembers DEF ToSeller, TypeOK
  <2>2. call' \in [Workers -> Activations]
    <3> HIDE DEF rest, pc
    <3> QED
      BY <2>1, CallType
  <2> QED
    BY <1>5, <2>2 DEF ToSeller, TypeOK
<1>6. ASSUME NEW w \in Workers, Settle(w) PROVE TypeOK'
  BY <1>6, CallType, PcsMembers DEF Settle, TypeOK
<1>7. ASSUME NEW w \in Workers, HandleClosed(w) PROVE TypeOK'
  BY <1>7, CallType, PcsMembers DEF HandleClosed, TypeOK
<1>8. ASSUME NEW w \in Workers, CancelUnpaidOrders(w) PROVE TypeOK'
  BY <1>8, CallType, PcsMembers DEF CancelUnpaidOrders, TypeOK
<1>9. ASSUME NEW w \in Workers, Complete(w) PROVE TypeOK'
  BY <1>9, CallType DEF Complete, Mark, TypeOK
<1>10. ASSUME NEW w \in Workers, Abort(w) PROVE TypeOK'
  <2>1. aborts' \in 0 .. MaxAbort /\ abandoned' \in BOOLEAN
    BY <1>10 DEF Abort, TypeOK
  <2>2. call' \in [Workers -> Activations]
    BY <1>10, CallType DEF Abort
  <2> QED
    BY <1>10, <2>1, <2>2 DEF Abort, Mark, TypeOK
<1>11. ASSUME NEW w \in Workers, Crash(w) PROVE TypeOK'
  <2>1. crashes' \in 0 .. MaxCrash /\ abandoned' \in BOOLEAN
    BY <1>11 DEF Crash, TypeOK
  <2>2. call' \in [Workers -> Activations]
    BY <1>11, CallType DEF Crash
  <2> QED
    BY <1>11, <2>1, <2>2 DEF Crash, TypeOK
<1>12. ASSUME NEW w \in Workers, NEW s \in Signals, Deliver(w, s) PROVE TypeOK'
  BY <1>12, CallType DEF Deliver, TypeOK
<1>13. ASSUME NEW w \in Workers, NEW s \in Polls, Verify(w, s) PROVE TypeOK'
  BY <1>13, CallType DEF Verify, TypeOK
<1>14. ASSUME NEW o \in Orders, ReservationTimeout(o) \/ CancelAtSeller(o) PROVE TypeOK'
  BY <1>14 DEF ReservationTimeout, CancelAtSeller, CancelOrder, TypeOK
<1>15. ASSUME NEW o \in Orders, Undo(o) \/ UndoLost(o) PROVE TypeOK'
  <2>1. CASE Undo(o)
    <3>1. debits' \in [Orders -> Nat]
      BY <2>1 DEF Undo, TypeOK
    <3> QED
      BY <2>1, <3>1 DEF Undo, TypeOK
  <2>2. CASE UndoLost(o)
    <3>1. crashes' \in 0 .. MaxCrash
      BY <2>2 DEF UndoLost, TypeOK
    <3> QED
      BY <2>2, <3>1 DEF UndoLost, TypeOK
  <2> QED
    BY <1>15, <2>1, <2>2
<1>16. ASSUME NEW id \in PayIds, CustomerPays(id) PROVE TypeOK'
  BY <1>16 DEF CustomerPays, TypeOK
<1>17. CASE LinkCloses
  BY <1>17 DEF LinkCloses, TypeOK
<1>18. CASE UNCHANGED vars
  BY <1>18 DEF vars, TypeOK
<1> QED
  BY <1>1, <1>2, <1>3, <1>4, <1>5, <1>6, <1>7, <1>8, <1>9, <1>10, <1>11, <1>12,
     <1>13, <1>14, <1>15, <1>16, <1>17, <1>18 DEF Next, Continue

\* Where a step of an activation leaves it: the call it makes next, with the
\* signal and the orders it works on.
LEMMA AfterSplit ==
  ASSUME TypeOK, NEW w \in Workers, Split(w)
  PROVE  /\ call'[w].pc \in {"lock", "complete"} /\ call'[w].sig = call[w].sig
         /\ call'[w].todo = {o \in Orders : order[o] # "CANCELLED"}
BY DEF TypeOK, Split, Resume

\* After the credit of one order comes its move to the seller.
LEMMA AfterFinance ==
  ASSUME TypeOK, NEW w \in Workers, NEW o \in Orders, Finance(w, o)
  PROVE  /\ call'[w].pc = "seller" /\ call'[w].sig = call[w].sig
         /\ call'[w].todo = call[w].todo /\ call'[w].now = {o}
BY DEF TypeOK, Finance, Resume

\* After that move the order is off the list; an empty list leads to the settlement.
LEMMA AfterToSeller ==
  ASSUME TypeOK, NEW w \in Workers, ToSeller(w)
  PROVE  /\ call'[w].pc \in {"finance", "settle"} /\ call'[w].sig = call[w].sig
         /\ call'[w].todo = call[w].todo \ call[w].now
         /\ call'[w].pc = "settle" => call'[w].todo = {}
BY DEF TypeOK, ToSeller, Resume

\* The steps that leave the list of orders alone.
LEMMA AfterOthers ==
  ASSUME TypeOK, NEW w \in Workers
  PROVE  /\ HandleCaptured(w) =>
              call'[w].pc \in {"split", "complete"} /\ call'[w].sig = call[w].sig
         /\ Lock(w) => /\ call'[w].pc \in {"finance", "complete"}
                       /\ call'[w].sig = call[w].sig /\ call'[w].todo = call[w].todo
         /\ Settle(w) \/ CancelUnpaidOrders(w) =>
              call'[w].pc = "complete" /\ call'[w].sig = call[w].sig
         /\ HandleClosed(w) => /\ call'[w].pc \in {"complete", "cancelOrders"}
                               /\ call'[w].sig = call[w].sig
         /\ Complete(w) \/ Abort(w) \/ Crash(w) => call'[w].pc = "idle"
         /\ \A s : Deliver(w, s) \/ Verify(w, s) => call'[w].pc = "handle"
<1> USE DEF TypeOK, At
<1>1. HandleCaptured(w) =>
        call'[w].pc \in {"split", "complete"} /\ call'[w].sig = call[w].sig
  BY DEF HandleCaptured, Goto
<1>2. Lock(w) => /\ call'[w].pc \in {"finance", "complete"}
                 /\ call'[w].sig = call[w].sig /\ call'[w].todo = call[w].todo
  BY DEF Lock, Goto
<1>3. Settle(w) \/ CancelUnpaidOrders(w) =>
        call'[w].pc = "complete" /\ call'[w].sig = call[w].sig
  BY DEF Settle, CancelUnpaidOrders, Goto
<1>4. HandleClosed(w) => /\ call'[w].pc \in {"complete", "cancelOrders"}
                         /\ call'[w].sig = call[w].sig
  BY DEF HandleClosed, Goto
<1>5. Complete(w) \/ Abort(w) \/ Crash(w) => call'[w].pc = "idle"
  BY DEF Complete, Abort, Crash, Finish, Idle
<1>6. \A s : Deliver(w, s) \/ Verify(w, s) => call'[w].pc = "handle"
  BY DEF Deliver, Verify, Start, Idle
<1> QED
  BY <1>1, <1>2, <1>3, <1>4, <1>5, <1>6

\* Read backwards: which step brings an activation to the calls under the lock.
LEMMA CameFrom ==
  ASSUME TypeOK, NEW w \in Workers, Acts(w)
  PROVE  /\ call'[w].pc = "lock" => Split(w)
         /\ call'[w].pc = "finance" => Lock(w) \/ ToSeller(w)
         /\ call'[w].pc = "seller" =>
              \E o \in Orders : Finance(w, o) /\ call'[w].now = {o}
         /\ call'[w].pc = "settle" => ToSeller(w)
<1>1. CASE HandleCaptured(w)
  BY <1>1, AfterOthers
<1>2. CASE Split(w)
  BY <1>2, AfterSplit
<1>3. CASE Lock(w)
  BY <1>3, AfterOthers
<1>4. ASSUME NEW o \in Orders, Finance(w, o)
      PROVE  call'[w].pc = "seller" /\ call'[w].now = {o}
  BY <1>4, AfterFinance
<1>5. CASE ToSeller(w)
  BY <1>5, AfterToSeller
<1>6. CASE Settle(w) \/ CancelUnpaidOrders(w) \/ HandleClosed(w)
  BY <1>6, AfterOthers
<1>7. CASE Complete(w) \/ Abort(w) \/ Crash(w)
  BY <1>7, AfterOthers
<1>8. ASSUME NEW s, Deliver(w, s) \/ Verify(w, s) PROVE call'[w].pc = "handle"
  BY <1>8, AfterOthers
<1> QED
  BY <1>1, <1>2, <1>3, <1>4, <1>5, <1>6, <1>7, <1>8 DEF Acts, Continue

\* Only a signal of a capture captures the payment.
LEMMA CapturedBySignal ==
  ASSUME TypeOK, [Next]_vars, pstatus # "CAPTURED"
  PROVE  pstatus' # "CAPTURED" \/ \E w \in Workers : HandleCaptured(w)
BY DEF Next, Continue, vars, payVars, Split, Lock, Finance, ToSeller, Settle, HandleClosed,
   CancelUnpaidOrders, Complete, Abort, Crash, Deliver, Verify, ReservationTimeout,
   CancelAtSeller, CancelOrder, Undo, UndoLost, CustomerPays, LinkCloses

\* A captured payment keeps a proper id while its capture is applied.
LEMMA NamedStep == TypeInv /\ [Next]_vars => CaptureNamed'
<1> SUFFICES ASSUME TypeInv, [Next]_vars PROVE CaptureNamed'
  OBVIOUS
<1> USE DEF TypeInv
<1>1. Grows
  BY MoneyOnlyGrows
<1>2. ASSUME NEW w \in Workers, HandleCaptured(w)
      PROVE  pstatus' = "CAPTURED" /\ payId' \in PayIds
  <2>1. call[w].sig.id \in PayIds
    BY <1>2, CapturedSignal DEF HandleCaptured
  <2> QED
    BY <1>2, <2>1 DEF HandleCaptured, CaptureNamed
<1>3. pstatus' = "CAPTURED" => payId' \in PayIds
  BY <1>1, <1>2, CapturedBySignal DEF Grows, CaptureNamed
<1>4. ASSUME NEW w \in Workers, call'[w].pc \in Captures PROVE pstatus' = "CAPTURED"
  <2>1. CASE call[w].pc \in Captures
    BY <1>1, <2>1 DEF Grows, CaptureNamed
  <2>2. CASE call[w].pc \notin Captures
    <3>1. Acts(w)
      BY <1>4, <2>2, OneActivationMoves
    <3>2. ~HandleCaptured(w) => call'[w].pc \notin Captures
      BY <2>2, <3>1, AfterOthers DEF Acts, Continue, Captures, UnderLock, Split,
         Lock, Finance, ToSeller, At
    <3> QED
      BY <1>2, <1>4, <3>2
  <2> QED
    BY <2>1, <2>2
<1> QED
  BY <1>3, <1>4 DEF CaptureNamed

-----------------------------------------------------------------------------
(* The ledger and the seller. *)

\* Only the credit and the reversal, each one transaction, write the ledger.
LEMMA LedgerWriters ==
  ASSUME [Next]_vars
  PROVE  \/ \E w \in Workers, o \in Orders : Finance(w, o)
         \/ \E o \in Orders : Undo(o)
         \/ UNCHANGED <<captured, reversed, credits, debits>>
BY DEF Next, Continue, vars, moneyVars, HandleCaptured, Split, Lock, ToSeller, Settle,
   HandleClosed, CancelUnpaidOrders, Complete, Abort, Crash, Deliver, Verify,
   ReservationTimeout, CancelAtSeller, CancelOrder, UndoLost, CustomerPays, LinkCloses

\* The ledger's counts agree with the flags of the two guarded transactions.
LEMMA LedgerStep == TypeOK /\ LedgerFollowsFlags /\ [Next]_vars => LedgerFollowsFlags'
<1> SUFFICES ASSUME TypeOK, LedgerFollowsFlags, [Next]_vars
             PROVE  LedgerFollowsFlags'
  OBVIOUS
<1> USE DEF TypeOK, LedgerFollowsFlags
<1>1. ASSUME NEW w \in Workers, NEW o \in Orders, Finance(w, o) PROVE LedgerFollowsFlags'
  BY <1>1 DEF Finance
<1>2. ASSUME NEW o \in Orders, Undo(o) PROVE LedgerFollowsFlags'
  <2>1. CASE captured[o] /\ ~reversed[o]
    BY <1>2, <2>1 DEF Undo
  <2>2. CASE ~(captured[o] /\ ~reversed[o])
    BY <1>2, <2>2 DEF Undo
  <2> QED
    BY <2>1, <2>2
<1>3. CASE UNCHANGED <<captured, reversed, credits, debits>>
  BY <1>3
<1> QED
  BY <1>1, <1>2, <1>3, LedgerWriters

\* An order reaches the seller by the activation that has just credited it.
LEMMA SellerWriters ==
  ASSUME TypeOK, [Next]_vars, NEW o \in Orders, order'[o] = "SELLER_PENDING"
  PROVE  \/ order[o] = "SELLER_PENDING"
         \/ \E w \in Workers : ToSeller(w) /\ o \in call[w].now
<1> USE DEF TypeOK
<1>1. ASSUME NEW w \in Workers, CancelUnpaidOrders(w) PROVE order[o] = "SELLER_PENDING"
  BY <1>1 DEF CancelUnpaidOrders
<1>2. ASSUME NEW p \in Orders, CancelOrder(p) PROVE order[o] = "SELLER_PENDING"
  BY <1>2 DEF CancelOrder
<1>3. ASSUME NEW w \in Workers, ToSeller(w), o \notin call[w].now
      PROVE  order[o] = "SELLER_PENDING"
  BY <1>3 DEF ToSeller
<1>4. \/ \E w \in Workers : CancelUnpaidOrders(w) \/ ToSeller(w)
      \/ \E p \in Orders : CancelOrder(p)
      \/ UNCHANGED order
  BY DEF Next, Continue, vars, HandleCaptured, Split, Lock, Finance, Settle,
     HandleClosed, Complete, Abort, Crash, Deliver, Verify, ReservationTimeout,
     CancelAtSeller, Undo, UndoLost, CustomerPays, LinkCloses
<1> QED
  BY <1>1, <1>2, <1>3, <1>4

\* Only a credited order reaches the seller.
LEMMA SellerStep ==
  TypeOK /\ CreditedBeforeSeller /\ [Next]_vars => CreditedBeforeSeller'
<1> SUFFICES ASSUME TypeOK, CreditedBeforeSeller, [Next]_vars
             PROVE  CreditedBeforeSeller'
  OBVIOUS
<1> USE DEF CreditedBeforeSeller
<1>1. Grows
  BY MoneyOnlyGrows
<1>2. ASSUME NEW o \in Orders, order'[o] = "SELLER_PENDING" PROVE captured'[o]
  BY <1>1, <1>2, SellerWriters DEF Grows, ToSeller, At
<1>3. ASSUME NEW w \in Workers, call'[w].pc = "seller", NEW o \in call'[w].now
      PROVE  captured'[o]
  <2>1. CASE call'[w] = call[w]
    <3>1. o \in Orders
      BY <1>3, <2>1 DEF TypeOK
    <3> QED
      BY <1>1, <1>3, <2>1, <3>1 DEF Grows, At
  <2>2. CASE Acts(w)
    <3>1. PICK p \in Orders : Finance(w, p) /\ call'[w].now = {p}
      BY <1>3, <2>2, CameFrom
    <3> QED
      BY <1>3, <3>1 DEF Finance, TypeOK
  <2> QED
    BY <2>1, <2>2, OneActivationMoves
<1> QED
  BY <1>2, <1>3 DEF At

-----------------------------------------------------------------------------
(* What is settled is accounted for. *)

\* An order once accounted for stays so.
LEMMA AccountedStays ==
  ASSUME Grows, pstatus = "CAPTURED", NEW o \in Orders, Accounted(o)
  PROVE  Accounted(o)'
BY DEF Grows, Accounted

\* After the split, an order that is left out is flagged.
LEMMA SplitAccounts ==
  ASSUME NEW w \in Workers, Split(w), NEW o \in Orders, order[o] = "CANCELLED"
  PROVE  Accounted(o)'
BY DEF Split, Accounted

\* The payment is settled by a split that finds no live order or at the end.
LEMMA Settlers ==
  ASSUME [Next]_vars
  PROVE  \/ \E w \in Workers : Split(w) \/ Settle(w)
         \/ UNCHANGED settled
BY DEF Next, Continue, vars, payVars, HandleCaptured, Lock, Finance, ToSeller,
   HandleClosed, CancelUnpaidOrders, Complete, Abort, Crash, Deliver, Verify,
   ReservationTimeout, CancelAtSeller, CancelOrder, Undo, UndoLost, CustomerPays,
   LinkCloses

\* A capture's remaining work and what is already credited or flagged cover the group.
LEMMA ProgressStep ==
  TypeInv /\ CreditedBeforeSeller /\ CaptureProgress /\ [Next]_vars => CaptureProgress'
<1> SUFFICES ASSUME TypeInv, CreditedBeforeSeller, CaptureProgress, [Next]_vars
             PROVE  CaptureProgress'
  OBVIOUS
<1> USE DEF TypeInv
<1>1. Grows
  BY MoneyOnlyGrows
<1>2. ASSUME NEW w \in Workers, call[w].pc \in Captures PROVE pstatus = "CAPTURED"
  BY <1>2 DEF CaptureNamed
<1>3. settled' => pstatus' = "CAPTURED"
  <2>1. ASSUME NEW w \in Workers, Split(w) \/ Settle(w) PROVE pstatus = "CAPTURED"
    BY <2>1, <1>2 DEF Split, Settle, At, Captures, UnderLock
  <2> QED
    BY <1>1, <2>1, Settlers DEF Grows, CaptureProgress
<1>4. ASSUME NEW w \in Workers, call'[w].pc \in {"lock"} \cup UnderLock,
             NEW o \in Orders \ call'[w].todo
      PROVE  Accounted(o)'
  <2>1. CASE call'[w] = call[w]
    BY <1>1, <1>2, <1>4, <2>1, AccountedStays DEF CaptureProgress, Captures
  <2>2. CASE Acts(w)
    <3>1. CASE call'[w].pc = "lock"
      <4>1. Split(w)
        BY <2>2, <3>1, CameFrom
      <4>2. call'[w].todo = {p \in Orders : order[p] # "CANCELLED"}
        BY <4>1, AfterSplit
      <4> QED
        BY <1>4, <4>1, <4>2, SplitAccounts
    <3>2. ASSUME Lock(w) PROVE Accounted(o)'
      <4>1. call'[w].todo = call[w].todo
        BY <3>2, AfterOthers
      <4>2. call[w].pc = "lock"
        BY <3>2 DEF Lock, At
      <4> QED
        BY <1>1, <1>2, <1>4, <4>1, <4>2, AccountedStays
           DEF CaptureProgress, Captures
    <3>3. ASSUME NEW p \in Orders, Finance(w, p) PROVE Accounted(o)'
      <4>1. call'[w].todo = call[w].todo
        BY <3>3, AfterFinance
      <4>2. call[w].pc = "finance"
        BY <3>3 DEF Finance, At
      <4> QED
        BY <1>1, <1>2, <1>4, <4>1, <4>2, AccountedStays
           DEF CaptureProgress, Captures, UnderLock
    <3>4. ASSUME ToSeller(w) PROVE Accounted(o)'
      <4>1. call'[w].todo = call[w].todo \ call[w].now
        BY <3>4, AfterToSeller
      <4>2. call[w].pc = "seller"
        BY <3>4 DEF ToSeller, At
      <4>3. CASE o \in call[w].now
        <5>1. captured[o] /\ captured' = captured
          BY <3>4, <4>2, <4>3 DEF CreditedBeforeSeller, ToSeller, moneyVars, At
        <5>2. order'[o] # "CREATED"
          BY <1>4, <3>4, <4>3 DEF ToSeller
        <5> QED
          BY <5>1, <5>2 DEF Accounted
      <4>4. CASE o \notin call[w].now
        <5>1. Accounted(o)
          BY <1>4, <4>1, <4>2, <4>4 DEF CaptureProgress, UnderLock
        <5> QED
          BY <1>1, <1>2, <1>4, <4>2, <5>1, AccountedStays DEF Captures, UnderLock
      <4> QED
        BY <4>3, <4>4
    <3> QED
      BY <1>4, <2>2, <3>1, <3>2, <3>3, <3>4, CameFrom DEF UnderLock
  <2> QED
    BY <2>1, <2>2, OneActivationMoves
<1>5. ASSUME NEW w \in Workers, call'[w].pc = "settle" PROVE call'[w].todo = {}
  <2>1. CASE call'[w] = call[w]
    BY <1>5, <2>1 DEF CaptureProgress, At
  <2>2. CASE Acts(w)
    <3>1. ToSeller(w)
      BY <1>5, <2>2, CameFrom
    <3> QED
      BY <1>5, <3>1, AfterToSeller
  <2> QED
    BY <2>1, <2>2, OneActivationMoves
<1>6. ASSUME settled', NEW o \in Orders PROVE Accounted(o)'
  <2>1. CASE settled
    BY <1>1, <2>1, AccountedStays DEF CaptureProgress
  <2>2. CASE ~settled
    <3>1. PICK w \in Workers : Split(w) \/ Settle(w)
      BY <1>6, <2>2, Settlers
    <3>2. CASE Split(w)
      <4>1. order[o] = "CANCELLED"
        BY <1>6, <2>2, <3>2 DEF Split
      <4> QED
        BY <3>2, <4>1, SplitAccounts
    <3>3. CASE Settle(w)
      <4>1. call[w].pc = "settle" /\ call[w].todo = {}
        BY <3>3 DEF Settle, CaptureProgress, At
      <4>2. Accounted(o) /\ pstatus = "CAPTURED"
        BY <1>2, <4>1 DEF CaptureProgress, Captures, UnderLock
      <4> QED
        BY <1>1, <4>2, AccountedStays
    <3> QED
      BY <3>1, <3>2, <3>3
  <2> QED
    BY <2>1, <2>2
<1> QED
  BY <1>3, <1>4, <1>5, <1>6 DEF CaptureProgress, At

-----------------------------------------------------------------------------
(* Whose money it is. *)

\* A signal once known as the payment's own, or flagged, stays so.
LEMMA OwnStays ==
  ASSUME Grows, pstatus = "CAPTURED", NEW s, Own(s)
  PROVE  (pstatus = "CAPTURED" /\ Own(s))'
BY DEF Grows, Own

\* An event is acknowledged at the end of an activation that worked on it.
LEMMA Acknowledged ==
  ASSUME TypeOK, [Next]_vars, NEW s \in Signals, event'[s] = "PROCESSED"
  PROVE  \/ event[s] = "PROCESSED"
         \/ \E w \in Workers : At(w, "complete") /\ call[w].sig = s
<1> USE DEF TypeOK
<1>1. ASSUME NEW w \in Workers, Complete(w), call[w].sig # s PROVE event[s] = "PROCESSED"
  BY <1>1 DEF Complete, Mark
<1>2. ASSUME NEW w \in Workers, Abort(w) PROVE event[s] = "PROCESSED"
  BY <1>2 DEF Abort, Mark
<1>3. ASSUME NEW w \in Workers, NEW t \in Signals, Deliver(w, t)
      PROVE  event[s] = "PROCESSED"
  BY <1>3 DEF Deliver
<1>4. \/ UNCHANGED event
      \/ \E w \in Workers : \/ Complete(w) \/ Abort(w)
                             \/ \E t \in Signals : Deliver(w, t)
  BY DEF Next, Continue, vars, HandleCaptured, Split, Lock, Finance, ToSeller, Settle,
     HandleClosed, CancelUnpaidOrders, Crash, Verify, ReservationTimeout,
     CancelAtSeller, CancelOrder, Undo, UndoLost, CustomerPays, LinkCloses
<1> QED
  BY <1>1, <1>2, <1>3, <1>4 DEF Complete

\* A payment that is acknowledged, or about to be, is claimed or flagged.
LEMMA ClaimStep == TypeInv /\ ClaimedOrFlagged /\ [Next]_vars => ClaimedOrFlagged'
<1> SUFFICES ASSUME TypeInv, ClaimedOrFlagged, [Next]_vars
             PROVE  ClaimedOrFlagged'
  OBVIOUS
<1> USE DEF TypeInv
<1>1. Grows
  BY MoneyOnlyGrows
<1>2. ASSUME NEW w \in Workers, HandleCaptured(w), call'[w].sig = call[w].sig
      PROVE  (pstatus = "CAPTURED" /\ Own(call[w].sig))'
  BY <1>2 DEF HandleCaptured, Own
<1>3. ASSUME NEW w \in Workers, call'[w].pc \in Captures \cup {"complete"},
             call'[w].sig.kind = "captured"
      PROVE  (pstatus = "CAPTURED" /\ Own(call[w].sig))'
  <2>1. CASE call'[w] = call[w]
    <3>1. pstatus = "CAPTURED" /\ Own(call[w].sig)
      BY <1>3, <2>1 DEF ClaimedOrFlagged
    <3> QED
      BY <1>1, <2>1, <3>1 DEF Grows, Own
  <2>2. CASE Acts(w)
    <3>1. CASE HandleCaptured(w)
      BY <1>2, <3>1, AfterOthers DEF Own
    <3>2. CASE call[w].pc \in Captures /\ call'[w].sig = call[w].sig
      <4>1. pstatus = "CAPTURED" /\ Own(call[w].sig)
        BY <1>3, <3>2 DEF ClaimedOrFlagged
      <4> QED
        BY <1>1, <3>2, <4>1 DEF Grows, Own
    <3>3. ASSUME HandleClosed(w) \/ CancelUnpaidOrders(w) PROVE FALSE
      <4>1. call'[w].sig.kind = "closed"
        BY <3>3, AfterOthers DEF HandleClosed, CancelUnpaidOrders, ClaimedOrFlagged
      <4> QED
        BY <1>3, <4>1
    <3>4. ASSUME Split(w) \/ Lock(w) \/ Settle(w) \/ ToSeller(w)
                   \/ \E o \in Orders : Finance(w, o)
          PROVE  call[w].pc \in Captures /\ call'[w].sig = call[w].sig
      BY <3>4, AfterSplit, AfterFinance, AfterToSeller, AfterOthers
         DEF Split, Lock, Finance, ToSeller, Settle, At, Captures, UnderLock
    <3>5. call'[w].pc \notin {"idle", "handle"}
      BY <1>3 DEF Captures, UnderLock
    <3>6. ~(Complete(w) \/ Abort(w) \/ Crash(w)) /\ \A s : ~(Deliver(w, s) \/ Verify(w, s))
      BY <3>5, AfterOthers
    <3> QED
      BY <2>2, <3>1, <3>2, <3>3, <3>4, <3>6 DEF Acts, Continue
  <2> QED
    BY <2>1, <2>2, OneActivationMoves
<1>4. ASSUME NEW w \in Workers, call'[w].pc = "cancelOrders"
      PROVE  call'[w].sig.kind = "closed"
  <2>1. CASE call'[w] = call[w]
    BY <1>4, <2>1 DEF ClaimedOrFlagged, At
  <2>2. CASE HandleClosed(w)
    BY <2>2, AfterOthers DEF HandleClosed
  <2>3. Acts(w) => HandleClosed(w)
    BY <1>4, AfterSplit, AfterFinance, AfterToSeller, AfterOthers DEF Acts, Continue
  <2> QED
    BY <2>1, <2>2, <2>3, OneActivationMoves
<1>5. ASSUME NEW s \in Signals, s.kind = "captured", event'[s] = "PROCESSED"
      PROVE  (pstatus = "CAPTURED" /\ Own(s))'
  <2>1. pstatus = "CAPTURED" /\ Own(s)
    BY <1>5, Acknowledged DEF ClaimedOrFlagged, At
  <2> QED
    BY <1>1, <2>1, OwnStays
<1> QED
  BY <1>3, <1>4, <1>5 DEF ClaimedOrFlagged, At, Own

-----------------------------------------------------------------------------
(* Which steps write the orders, and their compensation. *)

\* The credit, the closing link, the expired reservation and the cancellations.
LEMMA OrderWriters ==
  ASSUME [Next]_vars
  PROVE  \/ UNCHANGED <<order, undo>>
         \/ \E w \in Workers : (ToSeller(w) \/ CancelUnpaidOrders(w)) /\ UNCHANGED undo
         \/ \E o \in Orders : ReservationTimeout(o) \/ CancelAtSeller(o)
         \/ \E o \in Orders : Undo(o) \/ UndoLost(o)
BY DEF Next, Continue, vars, moneyVars, HandleCaptured, Split, Lock, Finance, ToSeller, Settle,
   HandleClosed, CancelUnpaidOrders, Complete, Abort, Crash, Deliver, Verify,
   CustomerPays, LinkCloses

\* A compensation starts in the step that cancels its order, and no order comes back.
LEMMA UndoStep ==
  TypeOK /\ UndoneWhenCancelled /\ [Next]_vars => UndoneWhenCancelled'
<1> SUFFICES ASSUME TypeOK, UndoneWhenCancelled, [Next]_vars
             PROVE  UndoneWhenCancelled'
  OBVIOUS
<1>0. Grows /\ undo \in [Orders -> {"none", "due", "done", "lost"}]
  BY MoneyOnlyGrows DEF TypeOK
<1>1. \A o \in Orders : order[o] = "CANCELLED" => order'[o] = "CANCELLED"
  BY <1>0 DEF Grows
<1>2. CASE UNCHANGED undo
  BY <1>1, <1>2 DEF UndoneWhenCancelled
<1>3. ASSUME NEW o \in Orders, ReservationTimeout(o) \/ CancelAtSeller(o)
      PROVE  UndoneWhenCancelled'
  <2>1. /\ undo' = [undo EXCEPT ![o] = "due"]
        /\ order' = [order EXCEPT ![o] = "CANCELLED"]
    BY <1>3 DEF ReservationTimeout, CancelAtSeller, CancelOrder
  <2> QED
    BY <1>0, <1>1, <2>1 DEF UndoneWhenCancelled, TypeOK
<1>4. ASSUME NEW o \in Orders, Undo(o) \/ UndoLost(o)
      PROVE  UndoneWhenCancelled'
  <2>1. undo[o] # "none" /\ \A p \in Orders : p # o => undo'[p] = undo[p]
    BY <1>0, <1>4 DEF Undo, UndoLost
  <2> QED
    BY <1>1, <2>1 DEF UndoneWhenCancelled
<1> QED
  BY <1>2, <1>3, <1>4, OrderWriters

-----------------------------------------------------------------------------
(* The theorems. *)

\* A fresh payment satisfies every part of the invariant.
LEMMA InitInv == Init => CaptureInv
<1> SUFFICES ASSUME Init PROVE CaptureInv
  OBVIOUS
<1> USE DEF Init
<1>0. \A o \in Orders : ~captured[o] /\ credits[o] = 0 /\ debits[o] = 0
  OBVIOUS
<1>1. \A w \in Workers : call[w] = Idle /\ Idle.pc = "idle"
  BY DEF Idle
<1>2. call \in [Workers -> Activations]
  BY PcsMembers DEF Idle, Activations
<1>3. TypeOK
  <2>1. credits \in [Orders -> Nat] /\ debits \in [Orders -> Nat]
    OBVIOUS
  <2>2. captured \in [Orders -> BOOLEAN] /\ reversed \in [Orders -> BOOLEAN]
    OBVIOUS
  <2>3. /\ order \in [Orders -> {"CREATED", "SELLER_PENDING", "CANCELLED"}]
        /\ undo \in [Orders -> {"none", "due", "done", "lost"}]
        /\ event \in [Signals -> {"new", "PROCESSING", "FAILED", "PROCESSED"}]
    OBVIOUS
  <2>4. crashes \in 0 .. MaxCrash /\ aborts \in 0 .. MaxAbort
    BY CaptureBounds
  <2>5. /\ pstatus = "PENDING" /\ payId = NoId /\ link = "open"
        /\ settled = FALSE /\ locked = FALSE /\ abandoned = FALSE
        /\ keys = {} /\ money = {}
    OBVIOUS
  <2> QED
    BY ONLY <1>2, <2>1, <2>2, <2>3, <2>4, <2>5 DEF TypeOK, Activations
<1>4. CaptureNamed /\ CreditedBeforeSeller
  BY <1>1, IdAssumption DEF CaptureNamed, Captures, UnderLock, CreditedBeforeSeller, At
<1>5. LedgerFollowsFlags
  <2>1. \A o \in Orders : credits[o] = IF captured[o] THEN 1 ELSE 0
    BY ONLY <1>0, Zenon
  <2>2. \A o \in Orders : debits[o] \in {0, 1} /\ debits[o] # 1
    <3>1. 0 \in {0, 1} /\ 0 # 1
      OBVIOUS
    <3> QED
      BY ONLY <1>0, <3>1, Zenon
  <2> QED
    BY ONLY <2>1, <2>2, Zenon DEF LedgerFollowsFlags
<1>6. CaptureProgress
  BY <1>1 DEF CaptureProgress, At, UnderLock
<1>7. ClaimedOrFlagged
  BY <1>1 DEF ClaimedOrFlagged, Captures, UnderLock, At
<1>8. UndoneWhenCancelled
  BY DEF UndoneWhenCancelled
<1> QED
  BY <1>3, <1>4, <1>5, <1>6, <1>7, <1>8 DEF CaptureInv, TypeInv

\* The inductive invariant holds in every state: each part is kept by a step from
\* itself and the parts before it.
LEMMA Invariant == Spec => []CaptureInv
<1>1. CaptureInv /\ [Next]_vars => CaptureInv'
  BY TypeStep, NamedStep, LedgerStep, SellerStep, ProgressStep, ClaimStep, UndoStep
     DEF CaptureInv, TypeInv
<1> QED
  BY InitInv, <1>1, PTL DEF Spec

\* Type correctness, for any number of orders, signals, workers and failures.
THEOREM CaptureTypeCorrect == Spec => []TypeOK
<1>1. CaptureInv => TypeOK
  BY DEF CaptureInv, TypeInv
<1> QED
  BY Invariant, <1>1, PTL

\* handleOnlineOrderFinance and reverseOrderFinanceOnCancellation, each in one
\* transaction with its flag: money is credited once and refunded at most once.
THEOREM LedgerWrittenOnce == Spec => []LedgerOnce
<1>1. CaptureInv => LedgerOnce
  <2> SUFFICES ASSUME LedgerFollowsFlags, NEW o \in Orders
               PROVE  debits[o] <= credits[o] /\ credits[o] <= 1
    BY DEF CaptureInv, LedgerOnce
  <2>1. CASE captured[o]
    BY <2>1 DEF LedgerFollowsFlags
  <2>2. CASE ~captured[o]
    BY <2>2 DEF LedgerFollowsFlags
  <2> QED
    BY <2>1, <2>2
<1> QED
  BY Invariant, <1>1, PTL

\* finishCapture credits an order before it moves it to the seller.
THEOREM SellerSeesOnlyPaid == Spec => []SellerSeesPaidOrders
<1>1. CaptureInv => SellerSeesPaidOrders
  BY DEF CaptureInv, LedgerFollowsFlags, CreditedBeforeSeller, SellerSeesPaidOrders
<1> QED
  BY Invariant, <1>1, PTL

\* finishCapture marks the payment processed after its last order, whatever dies
\* and whoever takes its lock over.
THEOREM SettledIsAccounted == Spec => []SettledMeansAccounted
<1>1. CaptureInv => SettledMeansAccounted
  BY DEF CaptureInv, CaptureProgress, Accounted, SettledMeansAccounted
<1> QED
  BY Invariant, <1>1, PTL

\* handleCaptured flags a second payment before its event is acknowledged.
THEOREM SecondPaymentIsFlagged == Spec => []SecondPaymentFlagged
<1>1. CaptureInv => SecondPaymentFlagged
  BY DEF CaptureInv, ClaimedOrFlagged, Own, SecondPaymentFlagged
<1> QED
  BY Invariant, <1>1, PTL

\* CAPTURE_FROM and CANCEL_FROM: no signal leads out of CAPTURED.
THEOREM CaptureNeverUndone == Spec => CaptureStands
<1>1. CaptureInv /\ [Next]_vars
        => [pstatus = "CAPTURED" => pstatus' = "CAPTURED" /\ payId' = payId]_payVars
  BY MoneyOnlyGrows DEF CaptureInv, TypeInv, Grows
<1> QED
  BY Invariant, <1>1, PTL DEF Spec, CaptureStands

-----------------------------------------------------------------------------
(***************************************************************************)
(* The capture implements CapturePromise: every step is a step of the      *)
(* promise or leaves the payment, the orders and the ledger alone.         *)
(***************************************************************************)

\* The refinement mapping: a payment is the group's once it is captured.
PaidBy == IF pstatus = "CAPTURED" THEN payId ELSE NoId

\* Nothing is paid, flagged or moved to begin with.
LEMMA PromiseInit == Init => Promise!Init
BY DEF Init, Promise!Init

\* handleCaptured: the first payment, a second one, or the first one again.
LEMMA HandleStep ==
  ASSUME CaptureInv, NEW w \in Workers, HandleCaptured(w)
  PROVE  [Promise!Next]_(Promise!vars)
<1>1. /\ call[w].sig.kind = "captured" /\ TypeOK
      /\ pstatus = "CAPTURED" => payId \in PayIds
  BY DEF HandleCaptured, CaptureInv, TypeInv, CaptureNamed
<1>2. PICK id \in PayIds : id = call[w].sig.id
  BY <1>1, CapturedSignal
<1>3. UNCHANGED <<settled, order, captured, credits, debits>>
  BY DEF HandleCaptured, moneyVars
<1>4. CASE pstatus # "CAPTURED"
  <2>1. PaidBy = NoId /\ PaidBy' = id /\ keys' = keys
    BY <1>2, <1>4 DEF HandleCaptured, PaidBy
  <2>2. Promise!Capture(id)
    BY <1>3, <2>1 DEF Promise!Capture, Promise!ledger, PaidBy
  <2> QED
    BY <2>2 DEF Promise!Next
<1>5. CASE pstatus = "CAPTURED" /\ payId = id
  <2>1. PaidBy' = PaidBy /\ keys' = keys
    BY <1>2, <1>5 DEF HandleCaptured, PaidBy
  <2> QED
    BY <1>3, <2>1 DEF Promise!vars, Promise!payment, Promise!ledger, PaidBy
<1>6. CASE pstatus = "CAPTURED" /\ payId # id
  <2>1. /\ PaidBy = payId /\ PaidBy' = PaidBy /\ payId # NoId
        /\ keys' = keys \cup {<<"DUPLICATE", id>>}
    BY <1>1, <1>2, <1>6, IdAssumption DEF HandleCaptured, PaidBy
  <2>2. Promise!FlagSecond(id)
    BY <1>3, <1>6, <2>1 DEF Promise!FlagSecond, Promise!ledger, PaidBy
  <2> QED
    BY <2>2 DEF Promise!Next
<1> QED
  BY <1>4, <1>5, <1>6

\* finishCapture's two ends: the split that finds late money, and the settlement.
LEMMA ConcludeStep ==
  ASSUME CaptureInv, NEW w \in Workers, Split(w) \/ Settle(w)
  PROVE  Promise!Next
<1>1. /\ pstatus = "CAPTURED" /\ payId # NoId /\ UNCHANGED <<pstatus, payId>>
      /\ PaidBy = payId /\ PaidBy' = PaidBy
  BY IdAssumption DEF CaptureInv, TypeInv, CaptureNamed, Split, Settle, At, Captures, UnderLock,
     PaidBy
<1>2. UNCHANGED <<order, credits, debits, captured>>
  BY DEF Split, Settle, moneyVars
<1>3. \/ UNCHANGED keys
      \/ /\ \E o \in Orders : order[o] = "CANCELLED"
         /\ keys' = keys \cup {<<"LATE", payId>>}
  <2>1. CASE Split(w)
    BY <2>1 DEF Split
  <2>2. CASE Settle(w)
    BY <2>2 DEF Settle
  <2> QED
    BY <2>1, <2>2
<1>4. CASE UNCHANGED settled
  <2>1. Promise!Conclude
    BY <1>1, <1>2, <1>3, <1>4 DEF Promise!Conclude, Promise!ledger, PaidBy
  <2> QED
    BY <2>1 DEF Promise!Next
<1>5. CASE settled' # settled
  <2>1. settled' = TRUE
    BY <1>5 DEF Split, Settle, CaptureInv, TypeInv, TypeOK
  <2>2. ASSUME NEW o \in Orders PROVE Accounted(o)'
    <3>1. CASE Split(w)
      <4>1. order[o] = "CANCELLED"
        BY <1>5, <3>1 DEF Split, CaptureInv, TypeInv, TypeOK
      <4> QED
        BY <3>1, <4>1, SplitAccounts
    <3>2. CASE Settle(w)
      <4>1. Accounted(o)
        BY <3>2 DEF Settle, CaptureInv, CaptureProgress, At, UnderLock
      <4> QED
        BY <1>1, <1>2, <3>2, <4>1 DEF Accounted, Settle
    <3> QED
      BY <3>1, <3>2
  <2>3. \A o \in Orders :
          \/ order'[o] # "CREATED" /\ credits'[o] = 1
          \/ order'[o] = "CANCELLED" /\ <<"LATE", PaidBy'>> \in keys'
    BY <1>1, <1>2, <2>2 DEF Accounted, CaptureInv, LedgerFollowsFlags
  <2>4. Promise!Conclude
    BY <1>1, <1>2, <1>3, <2>1, <2>3 DEF Promise!Conclude, Promise!Accounted, Promise!ledger, PaidBy
  <2> QED
    BY <2>4 DEF Promise!Next
<1> QED
  BY <1>4, <1>5

\* handleOnlineOrderFinance credits an order, or finds it credited.
LEMMA CreditStep ==
  ASSUME CaptureInv, NEW w \in Workers, NEW o \in Orders, Finance(w, o)
  PROVE  [Promise!Next]_(Promise!vars)
<1>1. /\ pstatus = "CAPTURED" /\ payId # NoId
      /\ credits[o] = IF captured[o] THEN 1 ELSE 0
  BY IdAssumption DEF CaptureInv, TypeInv, CaptureNamed, Finance, At, Captures, UnderLock,
     LedgerFollowsFlags
<1>2. UNCHANGED <<pstatus, payId, settled, keys, order, debits>>
  BY DEF Finance, payVars
<1>3. PaidBy # NoId /\ PaidBy' = PaidBy
  BY <1>1, <1>2 DEF PaidBy
<1>4. CASE captured[o]
  <2>1. UNCHANGED credits
    BY <1>4 DEF Finance
  <2> QED
    BY <1>2, <1>3, <2>1 DEF Promise!vars, Promise!payment, Promise!ledger, PaidBy
<1>5. CASE ~captured[o]
  <2>1. credits[o] = 0 /\ credits' = [credits EXCEPT ![o] = 1]
    BY <1>1, <1>5 DEF Finance
  <2>2. Promise!Credit(o)
    BY <1>2, <1>3, <2>1 DEF Promise!Credit, Promise!payment, PaidBy
  <2> QED
    BY <2>2 DEF Promise!Next
<1> QED
  BY <1>4, <1>5

\* The orders that the capture moves are credited, the ones that are cancelled as unpaid
\* are not.
LEMMA MoveStep ==
  ASSUME CaptureInv, NEW w \in Workers, ToSeller(w) \/ CancelUnpaidOrders(w)
  PROVE  Promise!Next
<1>1. UNCHANGED <<pstatus, payId, settled, keys, credits, debits>>
  BY DEF ToSeller, CancelUnpaidOrders, payVars, moneyVars
<1>2. PaidBy' = PaidBy
  BY <1>1 DEF PaidBy
<1>3. \A o \in Orders : credits[o] = IF captured[o] THEN 1 ELSE 0
  BY DEF CaptureInv, LedgerFollowsFlags
<1>4. CASE ToSeller(w)
  <2> PICK S \in SUBSET Orders : S = {o \in Orders : o \in call[w].now /\ order[o] = "CREATED"}
    OBVIOUS
  <2>1. order' = [o \in Orders |-> IF o \in S THEN "SELLER_PENDING" ELSE order[o]]
    BY <1>4 DEF ToSeller
  <2>2. \A o \in S : order[o] = "CREATED" /\ credits[o] = 1
    BY <1>3, <1>4 DEF ToSeller, CaptureInv, CreditedBeforeSeller
  <2>3. Promise!ToSeller(S)
    BY <1>1, <1>2, <2>1, <2>2
       DEF Promise!ToSeller, Promise!Move, Promise!payment, Promise!ledger, PaidBy
  <2> QED
    BY <2>3 DEF Promise!Next
<1>5. CASE CancelUnpaidOrders(w)
  <2> PICK S \in SUBSET Orders : S = {o \in Orders : order[o] = "CREATED" /\ ~captured[o]}
    OBVIOUS
  <2>1. order' = [o \in Orders |-> IF o \in S THEN "CANCELLED" ELSE order[o]]
    BY <1>5 DEF CancelUnpaidOrders
  <2>2. \A o \in S : order[o] = "CREATED" /\ credits[o] = 0
    BY <1>3
  <2>3. Promise!CancelUnpaid(S)
    BY <1>1, <1>2, <2>1, <2>2
       DEF Promise!CancelUnpaid, Promise!Move, Promise!payment, Promise!ledger, PaidBy
  <2> QED
    BY <2>3 DEF Promise!Next
<1> QED
  BY <1>4, <1>5

\* The reservation's timeout cancels what is unpaid, the seller and the customer what is
\* paid.
LEMMA CancelStep ==
  ASSUME CaptureInv, NEW o \in Orders, ReservationTimeout(o) \/ CancelAtSeller(o)
  PROVE  Promise!Next
<1>1. /\ UNCHANGED <<pstatus, payId, settled, keys, credits, debits>>
      /\ order' = [order EXCEPT ![o] = "CANCELLED"]
  BY DEF ReservationTimeout, CancelAtSeller, CancelOrder, payVars
<1>2. order' = [p \in Orders |-> IF p \in {o} THEN "CANCELLED" ELSE order[p]]
  BY <1>1 DEF CaptureInv, TypeInv, TypeOK
<1>3. PaidBy' = PaidBy
  BY <1>1 DEF PaidBy
<1>4. CASE ReservationTimeout(o)
  <2>1. order[o] = "CREATED" /\ credits[o] = 0
    BY <1>4 DEF ReservationTimeout, CaptureInv, LedgerFollowsFlags
  <2>2. Promise!CancelUnpaid({o})
    BY <1>1, <1>2, <1>3, <2>1
       DEF Promise!CancelUnpaid, Promise!Move, Promise!payment, Promise!ledger, PaidBy
  <2> QED
    BY <2>2 DEF Promise!Next
<1>5. CASE CancelAtSeller(o)
  <2>1. order[o] = "SELLER_PENDING"
    BY <1>5 DEF CancelAtSeller
  <2>2. Promise!Withdraw(o)
    BY <1>1, <1>2, <1>3, <2>1
       DEF Promise!Withdraw, Promise!Move, Promise!payment, Promise!ledger, PaidBy
  <2> QED
    BY <2>2 DEF Promise!Next
<1> QED
  BY <1>4, <1>5

\* The compensation gives back what is credited and was not given back.
LEMMA ReturnStep ==
  ASSUME CaptureInv, NEW o \in Orders, Undo(o)
  PROVE  [Promise!Next]_(Promise!vars)
<1>1. UNCHANGED <<pstatus, payId, settled, keys, order, credits>>
  BY DEF Undo, payVars
<1>2. PaidBy' = PaidBy
  BY <1>1 DEF PaidBy
<1>3. CASE captured[o] /\ ~reversed[o]
  <2>1. /\ order[o] = "CANCELLED" /\ credits[o] = 1 /\ debits[o] = 0
        /\ debits' = [debits EXCEPT ![o] = @ + 1]
    BY <1>3 DEF Undo, CaptureInv, UndoneWhenCancelled, LedgerFollowsFlags
  <2>2. Promise!Return(o)
    BY <1>1, <1>2, <2>1 DEF Promise!Return, Promise!payment, PaidBy
  <2> QED
    BY <2>2 DEF Promise!Next
<1>4. CASE ~(captured[o] /\ ~reversed[o])
  <2>1. debits' = debits
    BY <1>4 DEF Undo
  <2> QED
    BY <1>1, <1>2, <2>1 DEF Promise!vars, Promise!payment, Promise!ledger, PaidBy
<1> QED
  BY <1>3, <1>4

\* The other steps are none of the promise's.
LEMMA OtherSteps ==
  ASSUME CaptureInv, [Next]_vars
  PROVE  \/ UNCHANGED (Promise!vars)
         \/ \E w \in Workers : HandleCaptured(w) \/ Split(w) \/ Settle(w)
         \/ \E w \in Workers : ToSeller(w) \/ CancelUnpaidOrders(w)
         \/ \E w \in Workers, o \in Orders : Finance(w, o)
         \/ \E o \in Orders : ReservationTimeout(o) \/ CancelAtSeller(o) \/ Undo(o)
<1> USE DEF payVars, moneyVars
<1>1. ASSUME UNCHANGED <<settled, keys, order, credits, debits>>,
             \/ UNCHANGED <<pstatus, payId>>
             \/ pstatus # "CAPTURED" /\ pstatus' # "CAPTURED"
      PROVE  UNCHANGED (Promise!vars)
  BY <1>1 DEF Promise!vars, Promise!payment, Promise!ledger
<1>2. ASSUME NEW w \in Workers,
             \/ Lock(w) \/ HandleClosed(w) \/ Complete(w) \/ Abort(w) \/ Crash(w)
             \/ \E s : Deliver(w, s) \/ Verify(w, s)
      PROVE  UNCHANGED (Promise!vars)
  BY <1>1, <1>2 DEF Lock, HandleClosed, Complete, Abort, Crash, Deliver, Verify
<1>3. CASE UNCHANGED vars \/ LinkCloses \/ \E id \in PayIds : CustomerPays(id)
  BY <1>1, <1>3 DEF vars, LinkCloses, CustomerPays
<1>4. CASE \E o \in Orders : UndoLost(o)
  BY <1>1, <1>4 DEF UndoLost
<1> QED
  BY <1>2, <1>3, <1>4 DEF Next, Continue

\* However the webhooks, the client's checks, the closing link, the timeout and the
\* cancellations of a group interleave, are repeated, overtaken or die, the capture does
\* only what it promises: one payment, each order's money in the ledger once and back
\* once and for a cancelled order, the seller asked with the money and an order cancelled
\* as unpaid without (paymentService.js:253-284, 603-670).
THEOREM CaptureKeepsPromise == Spec => PromiseKept
<1>1. CaptureInv /\ [Next]_vars => [Promise!Next]_(Promise!vars)
  BY HandleStep, ConcludeStep, CreditStep, MoveStep, CancelStep, ReturnStep, OtherSteps
<1> QED
  BY PromiseInit, <1>1, Invariant, PTL DEF Spec, PromiseKept, Promise!Spec
=============================================================================

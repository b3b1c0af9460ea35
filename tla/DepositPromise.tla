--------------------------- MODULE DepositPromise ---------------------------
(***************************************************************************)
(* What settling a rider's cash promises, as atomic steps and without its  *)
(* handlers: cash that was collected is remitted once, at most in full;    *)
(* every deposit is decided once; and an approval moves all of its money   *)
(* to the oldest orders in the step that decides it.                       *)
(***************************************************************************)
EXTENDS Naturals

CONSTANTS
  Orders,     \* the orders, by the time of their collection
  Deposits,
  Owed        \* the cash to collect for each order

VARIABLES
  cash,       \* the cash collected for each order
  paid,       \* how much of it the rider has remitted
  direct,     \* the part he remitted without a deposit
  share,      \* what each deposit paid of each order
  verdict     \* of each deposit: "open", "approved", "rejected"

vars == <<cash, paid, direct, share, verdict>>

None == [o \in Orders |-> 0]

Init ==
  /\ cash = None /\ paid = None /\ direct = None
  /\ share = [d \in Deposits |-> None]
  /\ verdict = [d \in Deposits |-> "open"]

Collect(o) ==
  /\ cash[o] = 0 /\ cash' = [cash EXCEPT ![o] = Owed[o]]
  /\ UNCHANGED <<paid, direct, share, verdict>>

Left(o) == cash[o] - paid[o]

Approve(d, a) ==
  /\ verdict[d] = "open" /\ verdict' = [verdict EXCEPT ![d] = "approved"]
  /\ \A o \in Orders : a[o] <= Left(o)
  /\ \A o, p \in Orders : o < p /\ a[p] > 0 => a[o] = Left(o)
  /\ share' = [share EXCEPT ![d] = a]
  /\ paid' = [o \in Orders |-> paid[o] + a[o]]
  /\ UNCHANGED <<cash, direct>>

Reject(d) ==
  /\ verdict[d] = "open" /\ verdict' = [verdict EXCEPT ![d] = "rejected"]
  /\ UNCHANGED <<cash, paid, direct, share>>

Remit(o, v) ==
  /\ v <= Left(o)
  /\ paid' = [paid EXCEPT ![o] = @ + v]
  /\ direct' = [direct EXCEPT ![o] = @ + v]
  /\ UNCHANGED <<cash, share, verdict>>

Next ==
  \/ \E o \in Orders : Collect(o) \/ \E v \in 1..Owed[o] : Remit(o, v)
  \/ \E d \in Deposits :
       \/ Reject(d)
       \/ \E a \in [Orders -> UNION {0..cash[o] : o \in Orders}] : Approve(d, a)

Spec == Init /\ [][Next]_vars
=============================================================================

--------------------------- MODULE RefundPromise ---------------------------
(***************************************************************************)
(* What the tracking of a payment's refunds promises, as atomic steps and  *)
(* without its handlers: a refund's status only moves forward; what is     *)
(* recorded as paid back has been; the payment is refunded when its        *)
(* refunds add up to it, and its orders follow once; and nobody is told of *)
(* a failure or of an excess that there was not.                           *)
(***************************************************************************)
EXTENDS Naturals

CONSTANTS
  Refunds,
  FullSets,  \* sets of refunds that add up to the payment, or more
  OverSets   \* sets of refunds that add up to more

VARIABLES
  status,    \* the payment: "PENDING", "CAPTURED", "REFUNDED"
  refund,    \* each refund: "none", "PENDING", "FAILED", "PROCESSED"
  total,     \* the refunds in the recorded total
  moved,     \* how often the payment's orders were moved along
  told       \* what a person is told of

vars == <<status, refund, total, moved, told>>

Init ==
  /\ status = "PENDING" /\ refund = [r \in Refunds |-> "none"]
  /\ total = {} /\ moved = 0 /\ told = {}

PaidBack == {r \in Refunds : refund[r] = "PROCESSED"}

Capture ==
  /\ status = "PENDING" /\ status' = "CAPTURED"
  /\ UNCHANGED <<refund, total, moved, told>>

\* What may still become of a refund.
Ahead ==
  [none |-> {"PENDING", "FAILED", "PROCESSED"}, PENDING |-> {"FAILED", "PROCESSED"},
   FAILED |-> {"PROCESSED"}, PROCESSED |-> {}]

Report(r, s) ==
  /\ s \in Ahead[refund[r]]
  /\ refund' = [refund EXCEPT ![r] = s]
  /\ UNCHANGED <<status, total, moved, told>>

Record ==
  /\ total' \in SUBSET PaidBack
  /\ UNCHANGED <<status, refund, moved, told>>

Refund ==
  /\ status = "CAPTURED" /\ PaidBack \in FullSets /\ status' = "REFUNDED"
  /\ UNCHANGED <<refund, total, moved, told>>

MoveOrders ==
  /\ status = "REFUNDED" /\ moved = 0 /\ moved' = 1
  /\ UNCHANGED <<status, refund, total, told>>

Tell(kind, r) ==
  /\ \/ kind = "FAILED" /\ refund[r] \in {"FAILED", "PROCESSED"}
     \/ kind = "EXCEEDS" /\ PaidBack \in OverSets
  /\ told' = told \cup {<<kind, r>>}
  /\ UNCHANGED <<status, refund, total, moved>>

Next ==
  \/ Capture \/ Record \/ Refund \/ MoveOrders
  \/ \E r \in Refunds :
       \/ \E s \in {"PENDING", "FAILED", "PROCESSED"} : Report(r, s)
       \/ \E kind \in {"FAILED", "EXCEEDS"} : Tell(kind, r)

Spec == Init /\ [][Next]_vars
=============================================================================

--------------------------- MODULE HandoffPromise ---------------------------
(***************************************************************************)
(* What the customer's door promises for one cash-on-delivery order, as    *)
(* atomic steps and without handlers, attempts or codes: a method is       *)
(* chosen once; money of a QR is credited before the order is handed over, *)
(* cash is collected after; the collection is recorded when both are done; *)
(* each of them happens once and by the chosen method, except that the     *)
(* delivery code may hand over an order whose money is in, which is then   *)
(* recorded as prepaid.  A choice can be erased before the order is handed *)
(* over, and then nothing more is promised of the order.                   *)
(***************************************************************************)

VARIABLES
  choice,   \* "none", "CASH", "RAZORPAY_QR" or "erased"
  money,    \* the method by which the money entered the books, or "none"
  method,   \* the method by which the order was handed over, "CODE" or "none"
  row       \* what is recorded of the collection, or "none"

vars == <<choice, money, method, row>>

Init == choice = "none" /\ money = "none" /\ method = "none" /\ row = "none"

Choose(m) ==
  /\ choice = "none" /\ choice' = m
  /\ UNCHANGED <<money, method, row>>

Credit ==
  /\ choice = "RAZORPAY_QR" /\ money = "none" /\ method = "none"
  /\ money' = choice
  /\ UNCHANGED <<choice, method, row>>

HandOver ==
  /\ choice = "CASH" \/ (choice = "RAZORPAY_QR" /\ money = choice)
  /\ method = "none" /\ method' = choice
  /\ UNCHANGED <<choice, money, row>>

HandOverByCode ==
  /\ choice = "RAZORPAY_QR" /\ money = choice
  /\ method = "none" /\ method' = "CODE"
  /\ UNCHANGED <<choice, money, row>>

Collect ==
  /\ choice = "CASH" /\ money = "none" /\ method = choice
  /\ money' = choice
  /\ UNCHANGED <<choice, method, row>>

Record ==
  /\ row = "none"
  /\ \/ method = "CODE" /\ row' = "ONLINE_PREPAID"
     \/ method \in {"CASH", "RAZORPAY_QR"} /\ money = method /\ row' = method
  /\ UNCHANGED <<choice, money, method>>

Erase ==
  /\ choice \in {"CASH", "RAZORPAY_QR"} /\ method = "none"
  /\ choice' = "erased" /\ money' = "none" /\ method' = "none" /\ row' = "none"

Next ==
  \/ \E m \in {"CASH", "RAZORPAY_QR"} : Choose(m)
  \/ Credit \/ HandOver \/ HandOverByCode \/ Collect \/ Record \/ Erase

Spec == Init /\ [][Next]_vars
=============================================================================

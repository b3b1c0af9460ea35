---------------------------- MODULE OrderPromise ----------------------------
(***************************************************************************)
(* What the order workflow promises to the customer, the seller and the    *)
(* delivery partner, as atomic steps and without its handlers: an order    *)
(* moves forward through its phases; it is cancelled only before a partner *)
(* holds it; one partner at most ever holds it; and the goods go back on   *)
(* the shelf only for a cancelled order.                                   *)
(***************************************************************************)
CONSTANTS Riders, NoRider

VARIABLES
  phase,    \* "unpaid", "seller", "search", "partner", "delivered", "cancelled"
  holder,   \* the delivery partner the order was given to
  shelf     \* the goods: "held" for the order, or "returned"

vars == <<phase, holder, shelf>>

Phases == {"unpaid", "seller", "search", "partner", "delivered", "cancelled"}

Init == phase \in {"unpaid", "seller"} /\ holder = NoRider /\ shelf = "held"

Pay == phase = "unpaid" /\ phase' = "seller" /\ UNCHANGED <<holder, shelf>>

Accept == phase = "seller" /\ phase' = "search" /\ UNCHANGED <<holder, shelf>>

Assign(r) ==
  /\ phase = "search" /\ holder = NoRider
  /\ phase' = "partner" /\ holder' = r
  /\ UNCHANGED shelf

Deliver == phase = "partner" /\ phase' = "delivered" /\ UNCHANGED <<holder, shelf>>

\* The goods go back with the cancellation or after it.
Cancel ==
  /\ phase \in {"unpaid", "seller", "search"} /\ phase' = "cancelled"
  /\ shelf' \in {"held", "returned"}
  /\ UNCHANGED holder

Return ==
  /\ phase = "cancelled" /\ shelf = "held"
  /\ shelf' = "returned"
  /\ UNCHANGED <<phase, holder>>

Next == \/ Pay \/ Accept \/ Deliver \/ Cancel \/ Return
        \/ \E r \in Riders : Assign(r)

Spec == Init /\ [][Next]_vars
=============================================================================

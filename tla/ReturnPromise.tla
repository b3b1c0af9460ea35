--------------------------- MODULE ReturnPromise ---------------------------
(***************************************************************************)
(* What the settlement and the return of a delivered order promise about   *)
(* its money, as atomic steps and without handlers, riders and codes: the  *)
(* seller's payout is queued once and processed once, after the window of  *)
(* an order that did not come back; the customer is refunded once; and the *)
(* refund takes back from the seller, in the same step, what it gives.     *)
(***************************************************************************)
EXTENDS Naturals

CONSTANT Shares  \* what the seller may have to give back

VARIABLES
  over,     \* the return window has ended
  settled,  \* the settlement is complete
  reheld,   \* it held a payout that was processed before
  stage,    \* the goods: "kept", "returning", "closed"
  share,    \* the seller's share of what comes back
  payout,   \* "none", "PENDING", "COMPLETED", "CANCELLED"
  wallet,   \* the seller has the payout
  back,     \* debited to the seller
  refunds   \* credits to the customer

return == <<stage, share>>
money == <<payout, wallet, back, refunds>>
vars == <<over, settled, reheld, return, money>>

Init ==
  /\ over = FALSE /\ settled = FALSE /\ reheld = FALSE
  /\ stage = "kept" /\ share = 0
  /\ payout = "none" /\ wallet = FALSE /\ back = 0 /\ refunds = 0

Expire == ~over /\ over' = TRUE /\ UNCHANGED <<settled, reheld, return, money>>

Queue ==
  /\ payout = "none" /\ payout' = "PENDING"
  /\ UNCHANGED <<over, settled, reheld, return, wallet, back, refunds>>

\* A settlement that is run again may hold what was processed meanwhile.
Settle ==
  /\ ~settled /\ payout \in {"PENDING", "COMPLETED"}
  /\ settled' = TRUE
  /\ \/ UNCHANGED reheld
     \/ payout = "COMPLETED" /\ reheld' = TRUE
  /\ UNCHANGED <<over, return, money>>

Pay ==
  /\ settled /\ stage = "kept" => over
  /\ payout = "PENDING" /\ payout' = "COMPLETED" /\ wallet' = TRUE
  /\ UNCHANGED <<over, settled, reheld, return, back, refunds>>

Request(s) ==
  /\ stage = "kept" /\ stage' = "returning" /\ share' = s
  /\ UNCHANGED <<over, settled, reheld, money>>

\* The payout is cancelled or the share taken back, except that neither is when the
\* payout was held after it was processed.
Refund ==
  /\ stage # "kept" /\ stage' = "closed"
  /\ refunds = 0 /\ refunds' = 1
  /\ \/ payout = "PENDING" /\ settled /\ payout' = "CANCELLED" /\ UNCHANGED back
     \/ payout # "CANCELLED" /\ back = 0 /\ back' = share /\ UNCHANGED payout
     \/ reheld /\ UNCHANGED <<payout, back>>
  /\ UNCHANGED <<over, settled, reheld, share, wallet>>

\* A handler that read the return before may open it again, to no effect on the money.
Reopen ==
  /\ stage = "closed" /\ stage' = "returning"
  /\ UNCHANGED <<over, settled, reheld, share, money>>

Next == Expire \/ Queue \/ Settle \/ Pay \/ Refund \/ Reopen \/ \E s \in Shares : Request(s)

Spec == Init /\ [][Next]_vars
=============================================================================

--------------------------- MODULE MCCashDeposit ---------------------------
(* Instances of CashDeposit for model checking. *)
EXTENDS CashDeposit

TwoOrders == <<1, 2>>

\* The riders' screens and the administrators' beside the webhooks.
Desk == [w \in Workers |->
           IF w = "app" THEN {"submit", "pay", "verify", "hand"}
                        ELSE {"admin", "hook"}]
=============================================================================

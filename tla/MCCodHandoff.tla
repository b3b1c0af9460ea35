---------------------------- MODULE MCCodHandoff ----------------------------
(* Small instances of CodHandoff for TLC. *)
EXTENDS CodHandoff

\* The apps' requests and the polling one at a time; beside them the webhooks of
\* payments and a second verification of the delivery code.
Door == [w \in Workers |-> IF w = "apps" THEN Ops \ {"paid"} ELSE {"otp", "paid"}]
=============================================================================

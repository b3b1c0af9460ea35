-------------------------- MODULE MCRefundTracking --------------------------
(* Small instances of RefundTracking for TLC. *)
EXTENDS RefundTracking

CONSTANTS f1, f2

Says(r, status) == [refund |-> r, status |-> status, name |-> "refund"]

\* Two refunds of more than half the payment each.
Both == {{f1, f2}}
\* One is processed, the other fails first and is then processed.
TwoRefunds == {Says(f1, "PROCESSED"), Says(f2, "FAILED"), Says(f2, "PROCESSED")}
\* One is created and processed.
OneRefund == {Says(f1, "PENDING"), Says(f1, "PROCESSED")}
=============================================================================

-------------------------- MODULE MCPaymentCapture --------------------------
(* Small instances of PaymentCapture for TLC. *)
EXTENDS PaymentCapture, TLC

CONSTANTS m1, m2

Captured(id) == [kind |-> "captured", id |-> id, name |-> "payment.captured"]
LinkPaid(id) == [kind |-> "captured", id |-> id, name |-> "payment_link.paid"]
LinkClosed   == [kind |-> "closed", id |-> NoId, name |-> "payment_link.expired"]
Checked(id)  == [kind |-> "captured", id |-> id, name |-> "client_verify"]

\* Two payments of one link, and its expiry.
TwoPayments == {Captured(m1), Captured(m2), LinkClosed}
\* One payment, signalled twice.
TwoSignals == {Captured(m1), LinkPaid(m1)}
OneSignal  == {Captured(m1), LinkClosed}
FirstChecked == {Checked(m1)}
NoPolls == {}
=============================================================================

\* Two payments of one link, redelivered by the gateway and polled by the client;
\* one worker may crash and one transaction abort.
SPECIFICATION FairSpec
CONSTANTS
  m1 = m1
  m2 = m2
  NoId = NoId
  Orders = {o1}
  PayIds = {m1, m2}
  Signals <- TwoPayments
  Polls <- FirstChecked
  Workers = {a, b}
  Slow = FALSE
  MaxCrash = 1
  MaxAbort = 1
INVARIANT SecondPaymentFlagged
PROPERTY CapturedIsSettled
CHECK_DEADLOCK FALSE

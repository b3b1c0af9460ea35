\* One order cancelled while its payment is being captured.
SPECIFICATION Spec
CONSTANTS
  m1 = m1
  m2 = m2
  NoId = NoId
  Orders = {o1}
  PayIds = {m1}
  Signals <- OneSignal
  Polls <- NoPolls
  Workers = {a, b}
  Slow = FALSE
  MaxCrash = 0
  MaxAbort = 0
INVARIANT MoneyOfCancelledOrderSeen
CHECK_DEADLOCK FALSE

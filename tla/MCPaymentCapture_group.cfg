\* A group of two orders; workers may crash or outlive their locks, the client
\* polls, the link expires and the orders are cancelled.
SPECIFICATION Spec
CONSTANTS
  m1 = m1
  m2 = m2
  NoId = NoId
  Orders = {o1, o2}
  PayIds = {m1}
  Signals <- OneSignal
  Polls <- FirstChecked
  Workers = {a, b}
  Slow = TRUE
  MaxCrash = 1
  MaxAbort = 0
INVARIANTS TypeOK SettledMeansAccounted
PROPERTY PromiseKept
CHECK_DEADLOCK FALSE

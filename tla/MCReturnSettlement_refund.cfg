\* A delivered order from its settlement to a refund: two handlers at once, of
\* which one may die, beside the administrators and the timers.
SPECIFICATION FairSpec
CONSTANTS
  Riders = {"r1"}
  Earning = 2
  Shares = {1}
  AutoRelease = TRUE
  Workers = {"app", "job"}
  Serves <- Apart
  MaxCrash = 1
INVARIANTS TypeOK SellerBooks
PROPERTIES PromiseKept HoldReleased RefundFollows
CHECK_DEADLOCK FALSE

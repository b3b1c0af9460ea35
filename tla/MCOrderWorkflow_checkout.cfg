\* The payment method is chosen at checkout and no administrator edits the
\* order; one handler may crash.
SPECIFICATION FairSpec
CONSTANTS
  Riders = {r1, r2}
  NoRider = NoRider
  Calls = {poll, a, b}
  Poller = poll
  MaxAttempts = 2
  Placements <- Prepaid
  MaxAdmin = 0
  MaxCrash = 1
INVARIANT TypeOK
PROPERTIES
  PromiseKept SellerPendingEnds InternalSearchEnds CancelledReleasesStock PaidOrderLeavesCreated
CHECK_DEADLOCK FALSE

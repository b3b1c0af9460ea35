\* The payment method is chosen after the seller accepted.
SPECIFICATION Spec
CONSTANTS
  Riders = {r1, r2}
  NoRider = NoRider
  Calls = {poll, a, b}
  Poller = poll
  MaxAttempts = 2
  Placements <- PayLater
  MaxAdmin = 0
  MaxCrash = 0
INVARIANT NoCashForCapturedOrder
CHECK_DEADLOCK FALSE

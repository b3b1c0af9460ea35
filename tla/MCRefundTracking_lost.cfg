\* The webhooks of one refund handled at once.
SPECIFICATION Spec
CONSTANTS
  f1 = f1
  f2 = f2
  Refunds = {f1, f2}
  FullSets <- Both
  OverSets <- Both
  Signals <- OneRefund
  Workers = {a, b}
  MaxCrash = 0
INVARIANT AcknowledgedStatusStored
CHECK_DEADLOCK FALSE

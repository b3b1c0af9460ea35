\* Two refunds in any order of their webhooks; one activation dies or fails.
SPECIFICATION FairSpec
CONSTANTS
  f1 = f1
  f2 = f2
  Refunds = {f1, f2}
  FullSets <- Both
  OverSets <- Both
  Signals <- TwoRefunds
  Workers = {a, b}
  MaxCrash = 1
INVARIANTS TypeOK OverRefundFlagged
PROPERTIES PromiseKept FullRefundNoticed FailedRefundFlagged
CHECK_DEADLOCK FALSE

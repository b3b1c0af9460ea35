SPECIFICATION FairSpec
CONSTANTS
  MaxOrders = 2
  Amount <- TwoOrders
  MaxDeposits = 2
  Refs = {1}
  Claims = {2}
  Checks = {1, 2, 3}
  MaxPayments = 2
  Events = {"captured"}
  Workers = {"app", "desk"}
  Serves <- Desk
  MaxCrash = 1
CHECK_DEADLOCK FALSE
INVARIANTS TypeOK BooksBalance OneCreditPerTransfer
PROPERTIES DecisionStands PromiseKept PaidIsSettled

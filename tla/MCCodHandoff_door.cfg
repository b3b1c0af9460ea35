\* One order, two QR codes, one death or failed call.
SPECIFICATION FairSpec
CONSTANTS
  MaxAttempts = 2
  Workers = {"apps", "others"}
  Serves <- Door
  Slow = FALSE
  MaxCrash = 1
INVARIANTS TypeOK BooksMatchChoice OneSettler
PROPERTIES PaymentStands PromiseKept PaidIsAnswered CashChoiceCompletes
CHECK_DEADLOCK FALSE

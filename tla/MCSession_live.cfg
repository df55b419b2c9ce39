\* Every call returns, and a cancelled waiter leaves, when the goroutines run.
CONSTANTS
  Callers = {a, b}
  MaxCalls = 3
  CallKinds = {"lifetime", "refresh", "logout"}
  Expirable = {1, 2}
SPECIFICATION FairSpec
PROPERTIES
  CallsReturn
  CanceledWaiterLeaves
CHECK_DEADLOCK FALSE

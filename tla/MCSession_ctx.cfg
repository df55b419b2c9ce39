CONSTANTS
  Callers = {a, b}
  MaxCalls = 3
  CallKinds = {"invoke", "refresh", "logout"}
  Expirable = {1, 2}
SPECIFICATION Spec
INVARIANTS
  ContextGovernsTheWait
CHECK_DEADLOCK FALSE

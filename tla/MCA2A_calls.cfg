\* Two callers discover, retrieve, set and broker while registrations and the password change, answers get lost and the context closes.
CONSTANTS
  Callers = {a, b}
  Regs = {r1, r2}
  Accounts = {k}
  Passwords = {p, q}
  Ops = {"list", "retrieve", "set", "broker"}
  MaxCalls = 2
  MaxChanges = 1
SPECIFICATION Spec
SYMMETRY A2ASymmetry
INVARIANTS
  DiscoveryIsTrue
  EffectOnce
  RetrievedWasStored
CHECK_DEADLOCK FALSE

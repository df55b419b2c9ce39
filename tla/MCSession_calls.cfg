\* Three callers, one call of each kind, in every interleaving.
CONSTANTS
  Callers = {a, b, c}
  MaxCalls = 3
  CallKinds = {"invoke", "upload", "refresh", "logout", "close"}
  Expirable = {1, 2}
SPECIFICATION Spec
SYMMETRY CallerSymmetry
INVARIANTS
  SingleFlight
  OneLoginPerGeneration
  JoinersShareTheOutcome
  WipedNeverUsed
  TransparentRenewal
  BoundedReplay
PROPERTIES
  NeverResurrected
  OneTokenPerGeneration
  ImplementsPromise
CHECK_DEADLOCK FALSE

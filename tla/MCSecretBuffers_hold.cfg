\* Two requests hold arrays while the session is refreshed and ended and the caller wipes its own.
CONSTANTS
  Buffers = {b1, b2, b3, b4, b5, b6, b7}
  Requests = {r1, r2}
  MaxGen = 3
SPECIFICATION Spec
SYMMETRY RequestSymmetry
INVARIANTS
  NeededSecretsSurvive
  NothingLeftInClear
CHECK_DEADLOCK FALSE

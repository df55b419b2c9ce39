\* The caller wipes the key a listener was built with.
CONSTANTS
  Buffers = {b1, b2, b3, b4}
  Requests = {r1}
  MaxGen = 1
SPECIFICATION Spec
SYMMETRY RequestSymmetry
INVARIANT ListenerKeySurvives
CHECK_DEADLOCK FALSE

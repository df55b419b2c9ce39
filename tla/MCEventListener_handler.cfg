\* Expected to fail: a handler calls Stop while its connection drains.
CONSTANTS
  Conns = {1}
  Capacity = 1
  MaxEvents = 2
  Callers = {a}
SPECIFICATION FairSpec
PROPERTIES
  HandlerStopEnds
CHECK_DEADLOCK FALSE

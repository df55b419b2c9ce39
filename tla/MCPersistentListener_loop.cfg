\* Three connections, one goroutine and the handlers that stop the loop.
CONSTANTS
  Conns = {1, 2, 3}
  Capacity = 1
  MaxEvents = 2
  Callers = {a}
  MaxLevel = 6
SPECIFICATION FairSpec
INVARIANTS
  OneLateConnection
  DoneHasAReason
PROPERTIES
  BacksOff
  ImplementsFeed
  LoopEnds
  Reconnects
CHECK_DEADLOCK FALSE

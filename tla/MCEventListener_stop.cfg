\* Two goroutines and the handlers start and stop a listener: two attempts, three events.
CONSTANTS
  Conns = {1, 2}
  Capacity = 1
  MaxEvents = 3
  Callers = {a, b}
SPECIFICATION FairSpec
INVARIANTS
  OneRun
  DoneTellsWhy
  StopIsNotLost
PROPERTIES
  ImplementsFeed
  ListenerEnds
CHECK_DEADLOCK FALSE

\* Requests, upgrades and certificate logins race each other and Close, over every pair of TLS versions.
CONSTANTS
  Goroutines = {a, b}
  MaxUses = 4
  Versions = {0, 11, 12, 13}
SPECIFICATION FairSpec
INVARIANTS
  PoolsAreCurrent
  UsableWindow
PROPERTIES
  ClosedConnectionsEnd
CHECK_DEADLOCK FALSE

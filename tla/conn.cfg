CONSTANTS
  Client = {k1, k2}
  Slot = {s1, s2}
  Fd = {3, 4, 5}
  ListenFd = 3
SPECIFICATION FairSpec
INVARIANTS TypeOK WatchersSound NoFdLost FreedInTheEnd CarelessKill
PROPERTIES ImplementsSessions  ClosedIsFreed
CHECK_DEADLOCK FALSE

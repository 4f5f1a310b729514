CONSTANTS
  Messages = 4
  Length = 3
  Buffer = 4
SPECIFICATION Spec
INVARIANTS TypeOK QueuedIsWatched SentOnce
CHECK_DEADLOCK FALSE

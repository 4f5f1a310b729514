CONSTANTS
  Messages = 3
  Length = 2
  Buffer = 3
SPECIFICATION Spec
INVARIANTS Echoed
CHECK_DEADLOCK FALSE

CONSTANTS
  Timers = {t1}
  Interval = {1, 2}
  Begin = 3
  MaxTime = 9
SPECIFICATION Spec
INVARIANTS CallbackOwnsTimer
CHECK_DEADLOCK FALSE

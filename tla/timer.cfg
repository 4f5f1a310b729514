CONSTANTS
  Timers = {t1}
  Interval = {1, 2}
  Begin = 3
  MaxTime = 10
SPECIFICATION ObjectFairSpec
INVARIANTS TypeOK OneShotTruth ObjectLife
PROPERTIES NeverEarly OneShotFires TimeoutFires
CHECK_DEADLOCK FALSE

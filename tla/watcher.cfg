CONSTANTS
  Child = {c1, c2, c3}
  Pid = {5, 6}
  Place = {w1, w2}
  Exit <- MCExit
SPECIFICATION FairSpec
INVARIANTS TypeOK ToldTruth WatcherLife
PROPERTIES EndTold
CHECK_DEADLOCK FALSE

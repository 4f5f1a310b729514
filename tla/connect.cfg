CONSTANTS
  Sock = {s1, s2}
  Attempt = {a1, a2, a3}
  Fd = {3, 4}
SPECIFICATION FairSpec
INVARIANTS TypeOK CallbackSound OpenIsAccepted OnlyFailuresLeak
PROPERTIES AttemptTold
CHECK_DEADLOCK FALSE

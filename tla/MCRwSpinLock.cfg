SPECIFICATION FairSpec
CONSTANTS
  Threads = {t1, t2, t3}
  kReadCountMask = 3
INVARIANTS UnlockValid
PROPERTIES SomeoneGetsIt LockSpec
CHECK_DEADLOCK FALSE

SPECIFICATION FairSpec
CONSTANTS
  Pushers = {p1, p2}
  Workers = {w1, w2}
  Queues = {q1, q2}
  MaxPush = 2
  MaxJobs = 3
  NoQueue = NoQueue
  NoJob = NoJob
INVARIANTS NoForgottenQueue NoLostWakeup CrashOnlyInsidePush
PROPERTIES PerPusherOrder JobsComplete ExecutorSpec
CHECK_DEADLOCK FALSE

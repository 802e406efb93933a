------------------------------- MODULE JobQueue -------------------------------
(***************************************************************************)
(* JobQueue and JobQueueManager (Core/Job/Queue.h, Core/Job/Queue.cpp).    *)
(*                                                                         *)
(* A pusher is any thread that calls JobQueue::Push; a worker is a thread  *)
(* that runs JobQueueManager::FlushQueues.  One action is one access to    *)
(* shared memory: an atomic operation on mJobCount, a call on one of the   *)
(* lock-free queues, or a critical section of the manager's SRWLOCK.  A    *)
(* job that itself pushes appears as a pusher that runs meanwhile.         *)
(***************************************************************************)
EXTENDS Naturals, Sequences, FiniteSets

CONSTANTS Pushers,   \* threads that push jobs
          Workers,   \* threads in FlushQueues
          Queues,    \* JobQueue objects
          MaxPush,   \* bound: jobs one pusher creates
          MaxJobs,   \* bound: jobs all pushers create
          NoQueue,   \* "holds no queue" (a null SharedPtr<JobQueue>)
          NoJob      \* "holds no job"   (a null SharedPtr<Job>)

ASSUME WorkersAssumption == Workers # {}
ASSUME MaxPushAssumption == MaxPush \in Nat
ASSUME NoQueueAssumption == NoQueue \notin Queues
ASSUME NoJobAssumption == NoJob \notin Pushers \X (1..MaxPush)

VARIABLES
    jobCount,  \* JobQueue::mJobCount
    mQueue,    \* JobQueue::mQueue, as one FIFO per producer thread
    mQueues,   \* JobQueueManager::mQueues: how many entries each queue has
    mWaked,    \* JobQueueManager::mWaked
    pPc,       \* where each pusher stands in Push and RegisterQueue
    pQueue,    \* the queue it pushes to
    pFirst,    \* its prevCount == 0
    pushed,    \* jobs it has created
    wPc,       \* where each worker stands in FlushQueues and TryFlush
    wQueue,    \* its local queue
    wJob,      \* its local job
    lastDone,  \* history: last job of each pusher each queue has finished
    crashed    \* the process died at TRY_DEQUEUE_FAILED or on the null job

queueVars  == <<jobCount, mQueue>>
mgrVars    == <<mQueues, mWaked>>
pusherVars == <<pPc, pQueue, pFirst, pushed>>
workerVars == <<wPc, wQueue, wJob>>
vars == <<queueVars, mgrVars, pusherVars, workerVars, lastDone, crashed>>

Jobs == Pushers \X (1..MaxPush)

\* The jobs created so far.
Created == {j \in Jobs : j[2] <= pushed[j[1]]}

Init ==
    /\ jobCount = [q \in Queues |-> 0]
    /\ mQueue = [q \in Queues |-> [p \in Pushers |-> <<>>]]
    /\ mQueues = [q \in Queues |-> 0]
    /\ mWaked = FALSE
    /\ pPc = [p \in Pushers |-> "idle"]
    /\ pQueue = [p \in Pushers |-> NoQueue]
    /\ pFirst = [p \in Pushers |-> FALSE]
    /\ pushed = [p \in Pushers |-> 0]
    /\ wPc = [w \in Workers |-> "drain"]
    /\ wQueue = [w \in Workers |-> NoQueue]
    /\ wJob = [w \in Workers |-> NoJob]
    /\ lastDone = [q \in Queues |-> [p \in Pushers |-> 0]]
    /\ crashed = FALSE

-------------------------------------------------------------------------------
(* JobQueue::Push and JobQueueManager::RegisterQueue                       *)

\* The prevCount == 0 of a push; mutant: every push takes itself for the first.
IsFirst_Always(q) == TRUE
IsFirst(q) == jobCount[q] = 0

\* prevCount = mJobCount.fetch_add(1): the count grows before the job is there.
PushCount(p, q) ==
    /\ ~crashed
    /\ pPc[p] = "idle"
    /\ pushed[p] < MaxPush
    /\ Cardinality(Created) < MaxJobs
    /\ pushed' = [pushed EXCEPT ![p] = @ + 1]
    /\ pQueue' = [pQueue EXCEPT ![p] = q]
    /\ pFirst' = [pFirst EXCEPT ![p] = IsFirst(q)]
    /\ jobCount' = [jobCount EXCEPT ![q] = @ + 1]
    /\ pPc' = [pPc EXCEPT ![p] = "enqueue"]
    /\ UNCHANGED <<mQueue, mgrVars, workerVars, lastDone, crashed>>

\* mQueue.enqueue(job), and Push returns unless prevCount was 0.
PushEnqueue(p) ==
    /\ ~crashed
    /\ pPc[p] = "enqueue"
    /\ mQueue' = [mQueue EXCEPT ![pQueue[p]][p] = Append(@, pushed[p])]
    /\ pPc' = [pPc EXCEPT ![p] = IF pFirst[p] THEN "register" ELSE "idle"]
    /\ UNCHANGED <<jobCount, mgrVars, pQueue, pFirst, pushed, workerVars,
                   lastDone, crashed>>

\* mQueues.enqueue(queue)
RegisterEnqueue(p) ==
    /\ ~crashed
    /\ pPc[p] = "register"
    /\ mQueues' = [mQueues EXCEPT ![pQueue[p]] = @ + 1]
    /\ pPc' = [pPc EXCEPT ![p] = "setWaked"]
    /\ UNCHANGED <<queueVars, mWaked, pQueue, pFirst, pushed, workerVars,
                   lastDone, crashed>>

\* { SrwLockWriteGuard; mWaked = true; }
RegisterSetWaked(p) ==
    /\ ~crashed
    /\ pPc[p] = "setWaked"
    /\ mWaked' = TRUE
    /\ pPc' = [pPc EXCEPT ![p] = "wake"]
    /\ UNCHANGED <<queueVars, mQueues, pQueue, pFirst, pushed, workerVars,
                   lastDone, crashed>>

\* WakeConditionVariable wakes one sleeper, if there is one.
RegisterWake(p) ==
    /\ ~crashed
    /\ pPc[p] = "wake"
    /\ \/ /\ \A w \in Workers : wPc[w] # "asleep"
          /\ UNCHANGED wPc
       \/ \E w \in Workers : /\ wPc[w] = "asleep"
                             /\ wPc' = [wPc EXCEPT ![w] = "woken"]
    /\ pPc' = [pPc EXCEPT ![p] = "idle"]
    /\ UNCHANGED <<queueVars, mgrVars, pQueue, pFirst, pushed, wQueue, wJob,
                   lastDone, crashed>>

-------------------------------------------------------------------------------
(* JobQueueManager::FlushQueues and JobQueue::TryFlush                     *)

\* try_dequeue's result.
Listed(q) == mQueues[q] > 0

\* mQueues.try_dequeue(queue) succeeds; the library fixes no order between producers.
TakeQueue(w, q) ==
    /\ ~crashed
    /\ wPc[w] = "drain"
    /\ Listed(q)
    /\ mQueues' = [mQueues EXCEPT ![q] = @ - 1]
    /\ wQueue' = [wQueue EXCEPT ![w] = q]
    /\ wPc' = [wPc EXCEPT ![w] = "flush"]
    /\ UNCHANGED <<queueVars, mWaked, pusherVars, wJob, lastDone, crashed>>

\* mQueues.try_dequeue(queue) fails and the drain loop ends.  The lists of all
\* producers are seen empty at once, where moodycamel's try_dequeue looks at one
\* after the other.
DrainEmpty(w) ==
    /\ ~crashed
    /\ wPc[w] = "drain"
    /\ \A q \in Queues : mQueues[q] = 0
    /\ wPc' = [wPc EXCEPT ![w] = "check"]
    /\ UNCHANGED <<queueVars, mgrVars, pusherVars, wQueue, wJob, lastDone, crashed>>

\* mQueue.try_dequeue(job) succeeds and job->Execute() begins.
StartJob(w, p) ==
    /\ ~crashed
    /\ wPc[w] = "flush"
    /\ mQueue[wQueue[w]][p] # <<>>
    /\ wJob' = [wJob EXCEPT ![w] = <<p, Head(mQueue[wQueue[w]][p])>>]
    /\ mQueue' = [mQueue EXCEPT ![wQueue[w]][p] = Tail(@)]
    /\ wPc' = [wPc EXCEPT ![w] = "exec"]
    /\ UNCHANGED <<jobCount, mgrVars, pusherVars, wQueue, lastDone, crashed>>

\* mQueue.try_dequeue(job) fails: TRY_DEQUEUE_FAILED in a debug build, a call
\* through the null job in a release build.  The process ends either way.
DequeueFails(w) ==
    /\ ~crashed
    /\ wPc[w] = "flush"
    /\ \A p \in Pushers : mQueue[wQueue[w]][p] = <<>>
    /\ crashed' = TRUE
    /\ UNCHANGED <<queueVars, mgrVars, pusherVars, workerVars, lastDone>>

\* Where TryFlush goes on after a job: it returns true when the count it has
\* read was 1, else it goes on or, past the timeout, returns false.  Mutant:
\* a timeout is reported as "all done".
AfterJob_TimeoutIsDone(count) == IF count = 1 THEN {"drain"} ELSE {"flush", "drain"}
AfterJob(count) == IF count = 1 THEN {"drain"} ELSE {"flush", "requeue"}

\* job->Execute() has returned; mJobCount.fetch_sub(1).
FinishJob(w) ==
    /\ ~crashed
    /\ wPc[w] = "exec"
    /\ jobCount' = [jobCount EXCEPT ![wQueue[w]] = @ - 1]
    /\ lastDone' = [lastDone EXCEPT ![wQueue[w]][wJob[w][1]] = wJob[w][2]]
    /\ wJob' = [wJob EXCEPT ![w] = NoJob]
    /\ \E next \in AfterJob(jobCount[wQueue[w]]) :
          /\ wPc' = [wPc EXCEPT ![w] = next]
          /\ wQueue' = [wQueue EXCEPT ![w] = IF next = "drain" THEN NoQueue ELSE @]
    /\ UNCHANGED <<mQueue, mgrVars, pusherVars, crashed>>

\* Mutant: the unfinished queue is not listed again.
Requeue_Dropped(w) ==
    /\ ~crashed
    /\ wPc[w] = "requeue"
    /\ wQueue' = [wQueue EXCEPT ![w] = NoQueue]
    /\ wPc' = [wPc EXCEPT ![w] = "drain"]
    /\ UNCHANGED <<queueVars, mgrVars, pusherVars, wJob, lastDone, crashed>>

\* !completed: mQueues.enqueue(queue), with neither mWaked nor a wake.
Requeue(w) ==
    /\ ~crashed
    /\ wPc[w] = "requeue"
    /\ mQueues' = [mQueues EXCEPT ![wQueue[w]] = @ + 1]
    /\ wQueue' = [wQueue EXCEPT ![w] = NoQueue]
    /\ wPc' = [wPc EXCEPT ![w] = "drain"]
    /\ UNCHANGED <<queueVars, mWaked, pusherVars, wJob, lastDone, crashed>>

\* Mutant: the worker sleeps without looking at mWaked.
MustSleep_Always == TRUE
MustSleep == ~mWaked

\* Under mLock: sleep unless mWaked, otherwise reset it and drain again.
CheckWaked(w) ==
    /\ ~crashed
    /\ wPc[w] = "check"
    /\ wPc' = [wPc EXCEPT ![w] = IF MustSleep THEN "asleep" ELSE "drain"]
    /\ mWaked' = FALSE
    /\ UNCHANGED <<queueVars, mQueues, pusherVars, wQueue, wJob, lastDone, crashed>>

\* SleepConditionVariableSRW returns with mLock held; mWaked = false.
Resume(w) ==
    /\ ~crashed
    /\ wPc[w] = "woken"
    /\ mWaked' = FALSE
    /\ wPc' = [wPc EXCEPT ![w] = "drain"]
    /\ UNCHANGED <<queueVars, mQueues, pusherVars, wQueue, wJob, lastDone, crashed>>

\* Windows condition variables may wake a sleeper unasked.
SpuriousWake(w) ==
    /\ ~crashed
    /\ wPc[w] = "asleep"
    /\ wPc' = [wPc EXCEPT ![w] = "woken"]
    /\ UNCHANGED <<queueVars, mgrVars, pusherVars, wQueue, wJob, lastDone, crashed>>

-------------------------------------------------------------------------------
PushStep(p) == PushEnqueue(p) \/ RegisterEnqueue(p) \/ RegisterSetWaked(p) \/ RegisterWake(p)

WorkStep(w) == \/ DrainEmpty(w) \/ DequeueFails(w) \/ FinishJob(w)
               \/ Requeue(w) \/ CheckWaked(w) \/ Resume(w)
               \/ \E q \in Queues : TakeQueue(w, q)
               \/ \E p \in Pushers : StartJob(w, p)

Next == \/ \E p \in Pushers : PushStep(p) \/ \E q \in Queues : PushCount(p, q)
        \/ \E w \in Workers : WorkStep(w) \/ SpuriousWake(w)

Spec == Init /\ [][Next]_vars

\* A thread inside a call keeps running and jobs terminate; nobody has to push,
\* and nothing forces a spurious wake-up.
FairSpec == /\ Spec
            /\ \A p \in Pushers : WF_vars(PushStep(p))
            /\ \A w \in Workers : WF_vars(WorkStep(w))

-------------------------------------------------------------------------------
TypeOK ==
    /\ jobCount \in [Queues -> Nat]
    /\ mQueue \in [Queues -> [Pushers -> Seq(1..MaxPush)]]
    /\ mQueues \in [Queues -> Nat]
    /\ mWaked \in BOOLEAN
    /\ pPc \in [Pushers -> {"idle", "enqueue", "register", "setWaked", "wake"}]
    /\ pQueue \in [Pushers -> Queues \cup {NoQueue}]
    /\ pFirst \in [Pushers -> BOOLEAN]
    /\ pushed \in [Pushers -> 0..MaxPush]
    /\ wPc \in [Workers -> {"drain", "flush", "exec", "requeue", "check", "asleep", "woken"}]
    /\ wQueue \in [Workers -> Queues \cup {NoQueue}]
    /\ wJob \in [Workers -> Jobs \cup {NoJob}]
    /\ lastDone \in [Queues -> [Pushers -> 0..MaxPush]]
    /\ crashed \in BOOLEAN

Holds(w, q) == wPc[w] \in {"flush", "exec", "requeue"} /\ wQueue[w] = q
Registers(p, q) == pPc[p] \in {"enqueue", "register"} /\ pFirst[p] /\ pQueue[p] = q

\* Serial execution (Queue.h:55, "runs its jobs in sequence"): no two workers
\* are ever inside TryFlush of the same queue, whatever the interleaving of
\* pushes that see a zero count with workers that bring it to zero.
SerialExecution ==
    \A q \in Queues : \A v, w \in Workers : Holds(v, q) /\ Holds(w, q) => v = w

\* A queue that counts jobs is in someone's hands: a pusher about to register
\* it, the manager's list or a worker.  None is forgotten with jobs in it.
NoForgottenQueue ==
    \A q \in Queues : jobCount[q] > 0 => \/ mQueues[q] > 0
                                         \/ \E p \in Pushers : Registers(p, q)
                                         \/ \E w \in Workers : Holds(w, q)

\* No lost wake-up: with a queue listed, the workers are not all asleep unless
\* a registration is still on its way to the wake-up.  The worker re-enqueues
\* an unfinished queue without a wake, and mWaked is one flag for all workers.
NoLostWakeup ==
    (\E q \in Queues : mQueues[q] > 0) =>
        \/ \E w \in Workers : wPc[w] # "asleep"
        \/ \E p \in Pushers : pPc[p] \in {"setWaked", "wake"}

\* What one thread gives a queue is executed once and in the order given.
PerPusherOrder ==
    [][\A q \in Queues, p \in Pushers :
          lastDone'[q][p] # lastDone[q][p] => lastDone'[q][p] > lastDone[q][p]]_vars

\* Queue.h:89 promises that every job completes: a queue with jobs gets through
\* them all (unless the process crashes, see CrashOnlyInsidePush).
JobsComplete == \A q \in Queues : jobCount[q] > 0 ~> (jobCount[q] = 0 \/ crashed)

\* Queue.cpp:62 asserts that TryFlush finds a job whenever the count says there
\* is one.  It fails, and a release build runs a null job, only while a push to
\* that queue stands between its count (line 29) and its enqueue (line 30).
CrashOnlyInsidePush ==
    crashed => \E w \in Workers, p \in Pushers :
                   wPc[w] = "flush" /\ pPc[p] = "enqueue" /\ pQueue[p] = wQueue[w]

-------------------------------------------------------------------------------
(* The queue implements the serial executor.                               *)

WorkerOf(q) == {w \in Workers : wPc[w] = "exec" /\ wQueue[w] = q}
RunningJob(q) == IF WorkerOf(q) = {} THEN NoJob ELSE wJob[CHOOSE w \in WorkerOf(q) : TRUE]

Executor == INSTANCE SerialExecutor
              WITH pending <- mQueue, running <- [q \in Queues |-> RunningJob(q)]

\* Every step of the counter, lists, workers and wake-ups is a step of the
\* serial executor or invisible to it.
ExecutorSpec == Executor!Spec
===============================================================================

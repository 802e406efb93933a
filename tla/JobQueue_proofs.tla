---------------------------- MODULE JobQueue_proofs ----------------------------
(***************************************************************************)
(* Proofs about JobQueue, for any threads, queues and number of jobs.      *)
(*                                                                         *)
(* The argument is about a token: a queue that counts jobs is in exactly   *)
(* one place, which is a pusher about to register it, an entry of mQueues, *)
(* or a worker's hands; a queue that counts none is in no place.           *)
(* What each thread pushed is run once and in order, and SerialExecutor is *)
(* implemented, because two workers inside one queue could take jobs k and *)
(* k+1 and finish them the other way round.  The order also tells the jobs *)
(* apart, so that they can be counted.                                     *)
(***************************************************************************)
EXTENDS JobQueue, SequenceTheorems, FiniteSetTheorems, TLAPS

USE WorkersAssumption, MaxPushAssumption, NoQueueAssumption, NoJobAssumption

\* The pusher and worker program counters agree with their locals.
PcInv ==
    /\ \A p \in Pushers : /\ pPc[p] # "idle" => pQueue[p] \in Queues
                          /\ pPc[p] = "register" => pFirst[p]
                          /\ pPc[p] = "enqueue" => pushed[p] > 0
    /\ \A w \in Workers : /\ wPc[w] \in {"flush", "exec", "requeue"} <=> wQueue[w] \in Queues
                          /\ wPc[w] = "exec" <=> wJob[w] \in Jobs

TokenInv ==
    /\ \A q \in Queues : jobCount[q] = 0 \/ mQueues[q] > 0 =>
          /\ \A p \in Pushers : ~Registers(p, q)
          /\ \A w \in Workers : ~Holds(w, q)
    /\ \A q \in Queues : mQueues[q] <= 1 /\ (jobCount[q] = 0 => mQueues[q] = 0)
    /\ \A q \in Queues : \A o, p \in Pushers : Registers(o, q) /\ Registers(p, q) => o = p
    /\ \A q \in Queues : \A p \in Pushers, w \in Workers : ~(Registers(p, q) /\ Holds(w, q))
    /\ SerialExecution
    /\ NoForgottenQueue

\* The wake-up protocol: someone will look at the list again before sleeping.
WakeInv ==
    (\E q \in Queues : mQueues[q] > 0) =>
        \/ \E p \in Pushers : pPc[p] = "setWaked"
        \/ \E w \in Workers : wPc[w] \in {"drain", "flush", "exec", "requeue", "woken"}
        \/ mWaked /\ \/ \E w \in Workers : wPc[w] = "check"
                     \/ \E p \in Pushers : pPc[p] = "wake"

-------------------------------------------------------------------------------
\* The pieces of a job's name.
LEMMA JobPieces ==
    \A j \in Jobs : /\ j[1] \in Pushers
                    /\ j[2] \in 1..MaxPush
                    /\ j = <<j[1], j[2]>>
BY DEF Jobs

\* Head and Tail of a non-empty sequence are of its type.
LEMMA HeadTailType ==
    ASSUME NEW S, NEW s \in Seq(S), s # <<>>
    PROVE  Head(s) \in S /\ Tail(s) \in Seq(S)
OBVIOUS

LEMMA InitTypeOK == Init => TypeOK /\ PcInv
<1> SUFFICES ASSUME Init PROVE TypeOK /\ PcInv
    OBVIOUS
<1>1. TypeOK
  <2>1. <<>> \in Seq(1..MaxPush)
      OBVIOUS
  <2>2. mQueue \in [Queues -> [Pushers -> Seq(1..MaxPush)]]
      BY <2>1 DEF Init
  <2>3. lastDone \in [Queues -> [Pushers -> 0..MaxPush]] /\ pushed \in [Pushers -> 0..MaxPush]
      BY DEF Init
  <2>4. jobCount \in [Queues -> Nat] /\ mQueues \in [Queues -> Nat]
      BY DEF Init
  <2>5. /\ mWaked \in BOOLEAN /\ crashed \in BOOLEAN
        /\ pFirst \in [Pushers -> BOOLEAN]
        /\ pQueue \in [Pushers -> Queues \cup {NoQueue}]
        /\ wQueue \in [Workers -> Queues \cup {NoQueue}]
        /\ wJob \in [Workers -> Jobs \cup {NoJob}]
      BY DEF Init
  <2>6. /\ pPc \in [Pushers -> {"idle", "enqueue", "register", "setWaked", "wake"}]
        /\ wPc \in [Workers -> {"drain", "flush", "exec", "requeue", "check", "asleep", "woken"}]
      BY DEF Init
  <2> QED BY <2>2, <2>3, <2>4, <2>5, <2>6 DEF TypeOK
<1>2. PcInv
    BY DEF Init, PcInv, Jobs
<1> QED BY <1>1, <1>2

LEMMA NextTypeOK == TypeOK /\ PcInv /\ TokenInv /\ [Next]_vars => TypeOK' /\ PcInv'
<1> SUFFICES ASSUME TypeOK, PcInv, TokenInv, [Next]_vars
             PROVE  TypeOK' /\ PcInv'
    OBVIOUS
<1> USE DEF TypeOK, PcInv
<1>1. ASSUME NEW p \in Pushers, NEW q \in Queues, PushCount(p, q)
      PROVE  TypeOK' /\ PcInv'
    BY <1>1, SMTT(30) DEF PushCount, IsFirst, mgrVars, workerVars
<1>2. ASSUME NEW p \in Pushers, PushEnqueue(p)
      PROVE  TypeOK' /\ PcInv'
  <2>1. pQueue[p] \in Queues /\ pushed[p] \in 1..MaxPush
      BY <1>2 DEF PushEnqueue
  <2>2. mQueue' \in [Queues -> [Pushers -> Seq(1..MaxPush)]]
      BY <1>2, <2>1 DEF PushEnqueue
  <2> QED BY <1>2, <2>1, <2>2 DEF PushEnqueue, mgrVars, workerVars
<1>3. ASSUME NEW p \in Pushers, RegisterEnqueue(p)
      PROVE  TypeOK' /\ PcInv'
    BY <1>3, SMTT(30) DEF RegisterEnqueue, queueVars, workerVars
<1>4. ASSUME NEW p \in Pushers, RegisterSetWaked(p)
      PROVE  TypeOK' /\ PcInv'
    BY <1>4 DEF RegisterSetWaked, queueVars, workerVars
<1>5. ASSUME NEW p \in Pushers, RegisterWake(p)
      PROVE  TypeOK' /\ PcInv'
  <2>1. wPc' = wPc \/ \E w \in Workers : wPc[w] = "asleep" /\ wPc' = [wPc EXCEPT ![w] = "woken"]
      BY <1>5 DEF RegisterWake
  <2>2. /\ wPc' \in [Workers -> {"drain", "flush", "exec", "requeue", "check", "asleep", "woken"}]
        /\ \A w \in Workers : wPc'[w] # wPc[w] => wPc[w] = "asleep" /\ wPc'[w] = "woken"
    <3>1. CASE wPc' = wPc
        BY <3>1
    <3>2. ASSUME NEW v \in Workers, wPc[v] = "asleep", wPc' = [wPc EXCEPT ![v] = "woken"]
          PROVE  <2>2!1 /\ <2>2!2
        BY <3>2
    <3> QED BY <2>1, <3>1, <3>2
  <2>3. /\ UNCHANGED <<queueVars, mgrVars, pQueue, pFirst, pushed, wQueue, wJob, lastDone, crashed>>
        /\ pPc[p] = "wake" /\ pPc' = [pPc EXCEPT ![p] = "idle"]
      BY <1>5 DEF RegisterWake
  <2> QED BY <2>2, <2>3 DEF queueVars, mgrVars
<1>6. ASSUME NEW w \in Workers, NEW q \in Queues, TakeQueue(w, q)
      PROVE  TypeOK' /\ PcInv'
    BY <1>6 DEF TakeQueue, Listed, queueVars, pusherVars
<1>7. ASSUME NEW w \in Workers, DrainEmpty(w)
      PROVE  TypeOK' /\ PcInv'
    BY <1>7 DEF DrainEmpty, queueVars, mgrVars, pusherVars
<1>8. ASSUME NEW w \in Workers, NEW p \in Pushers, StartJob(w, p)
      PROVE  TypeOK' /\ PcInv'
  <2> DEFINE q == wQueue[w]
  <2>1. q \in Queues /\ mQueue[q][p] \in Seq(1..MaxPush)
      BY <1>8 DEF StartJob
  <2>2. Head(mQueue[q][p]) \in 1..MaxPush /\ Tail(mQueue[q][p]) \in Seq(1..MaxPush)
      BY <1>8, <2>1, HeadTailType DEF StartJob
  <2>3. wJob' \in [Workers -> Jobs \cup {NoJob}] /\ wJob'[w] \in Jobs
      BY <1>8, <2>2 DEF StartJob, Jobs
  <2>4. mQueue' \in [Queues -> [Pushers -> Seq(1..MaxPush)]]
      BY <1>8, <2>1, <2>2 DEF StartJob
  <2>5. \A v \in Workers \ {w} : wJob'[v] = wJob[v]
      BY <1>8 DEF StartJob
  <2> QED BY <1>8, <2>3, <2>4, <2>5 DEF StartJob, mgrVars, pusherVars
<1>9. ASSUME NEW w \in Workers, DequeueFails(w)
      PROVE  TypeOK' /\ PcInv'
    BY <1>9 DEF DequeueFails, queueVars, mgrVars, pusherVars, workerVars
<1>10. ASSUME NEW w \in Workers, FinishJob(w)
       PROVE  TypeOK' /\ PcInv'
  <2> DEFINE q == wQueue[w]
             job == wJob[w]
  <2>1. q \in Queues /\ job \in Jobs /\ Holds(w, q)
      BY <1>10 DEF FinishJob, Holds
  <2>2. jobCount[q] \in Nat \ {0}
      BY <2>1 DEF TokenInv
  <2>3. job[1] \in Pushers /\ job[2] \in 0..MaxPush
      BY <2>1, JobPieces
  <2>4. /\ jobCount' \in [Queues -> Nat]
        /\ lastDone' \in [Queues -> [Pushers -> 0..MaxPush]]
      BY <1>10, <2>1, <2>2, <2>3 DEF FinishJob
  <2>5. wJob' = [wJob EXCEPT ![w] = NoJob] /\ NoJob \notin Jobs
      BY <1>10 DEF FinishJob, Jobs
  <2>6. PICK next \in {"drain", "flush", "requeue"} :
            /\ wPc' = [wPc EXCEPT ![w] = next]
            /\ wQueue' = [wQueue EXCEPT ![w] = IF next = "drain" THEN NoQueue ELSE @]
      BY <1>10 DEF FinishJob, AfterJob
  <2>7. UNCHANGED <<mQueue, mgrVars, pusherVars, crashed>>
      BY <1>10 DEF FinishJob
  <2> QED BY <2>1, <2>4, <2>5, <2>6, <2>7 DEF mgrVars, pusherVars
<1>11. ASSUME NEW w \in Workers, Requeue(w)
       PROVE  TypeOK' /\ PcInv'
    BY <1>11 DEF Requeue, queueVars, pusherVars
<1>12. ASSUME NEW w \in Workers, CheckWaked(w)
       PROVE  TypeOK' /\ PcInv'
    BY <1>12 DEF CheckWaked, MustSleep, queueVars, pusherVars
<1>13. ASSUME NEW w \in Workers, Resume(w)
       PROVE  TypeOK' /\ PcInv'
    BY <1>13 DEF Resume, queueVars, pusherVars
<1>14. ASSUME NEW w \in Workers, SpuriousWake(w)
       PROVE  TypeOK' /\ PcInv'
    BY <1>14 DEF SpuriousWake, queueVars, mgrVars, pusherVars
<1>15. ASSUME UNCHANGED vars
       PROVE  TypeOK' /\ PcInv'
    BY <1>15 DEF vars, queueVars, mgrVars, pusherVars, workerVars
<1> QED BY <1>1, <1>2, <1>3, <1>4, <1>5, <1>6, <1>7, <1>8, <1>9, <1>10, <1>11,
           <1>12, <1>13, <1>14, <1>15 DEF Next, PushStep, WorkStep

-------------------------------------------------------------------------------
LEMMA InitTokenInv == Init => TokenInv
BY DEF Init, TokenInv, Registers, Holds, SerialExecution, NoForgottenQueue

\* A step that moves no token and changes no count.
LEMMA TokenFrame ==
    ASSUME TokenInv, UNCHANGED <<jobCount, mQueues>>,
           \A p \in Pushers, q \in Queues : Registers(p, q)' <=> Registers(p, q),
           \A w \in Workers, q \in Queues : Holds(w, q)' <=> Holds(w, q)
    PROVE  TokenInv'
BY DEF TokenInv, SerialExecution, NoForgottenQueue

LEMMA NextTokenInv == TypeOK /\ PcInv /\ TokenInv /\ [Next]_vars => TokenInv'
<1> SUFFICES ASSUME TypeOK, PcInv, TokenInv, [Next]_vars
             PROVE  TokenInv'
    OBVIOUS
<1>0. \A r \in Queues : jobCount[r] \in Nat /\ mQueues[r] \in Nat
    BY DEF TypeOK
<1>1. ASSUME NEW p \in Pushers, NEW q \in Queues, PushCount(p, q)
      PROVE  TokenInv'
  <2>1. /\ \A o \in Pushers, r \in Queues :
              Registers(o, r)' <=> Registers(o, r) \/ (o = p /\ r = q /\ jobCount[q] = 0)
        /\ ~\E r \in Queues : Registers(p, r)
      BY <1>1 DEF PushCount, IsFirst, Registers, TypeOK
  <2>2. \A w \in Workers, r \in Queues : Holds(w, r)' <=> Holds(w, r)
      BY <1>1 DEF PushCount, IsFirst, Holds, workerVars
  <2>3. /\ mQueues' = mQueues
        /\ jobCount'[q] = jobCount[q] + 1 /\ jobCount[q] \in Nat
        /\ \A r \in Queues : r # q => jobCount'[r] = jobCount[r]
      BY <1>1 DEF PushCount, IsFirst, mgrVars, TypeOK
  <2> QED BY <1>0, <2>1, <2>2, <2>3 DEF TokenInv, SerialExecution, NoForgottenQueue
<1>2. ASSUME NEW p \in Pushers, PushEnqueue(p)
      PROVE  TokenInv'
  <2>1. \A o \in Pushers, r \in Queues : Registers(o, r)' <=> Registers(o, r)
      BY <1>2 DEF PushEnqueue, Registers, TypeOK
  <2>2. \A w \in Workers, r \in Queues : Holds(w, r)' <=> Holds(w, r)
      BY <1>2 DEF PushEnqueue, Holds, workerVars
  <2> QED BY <1>2, <2>1, <2>2, TokenFrame DEF PushEnqueue, mgrVars
<1>3. ASSUME NEW p \in Pushers, RegisterEnqueue(p)
      PROVE  TokenInv'
  <2> DEFINE q == pQueue[p]
  <2>1. q \in Queues /\ Registers(p, q)
      BY <1>3 DEF RegisterEnqueue, Registers, PcInv
  <2>2. \A o \in Pushers, r \in Queues : Registers(o, r)' <=> Registers(o, r) /\ o # p
      BY <1>3 DEF RegisterEnqueue, Registers, TypeOK
  <2>3. \A w \in Workers, r \in Queues : Holds(w, r)' <=> Holds(w, r)
      BY <1>3 DEF RegisterEnqueue, Holds, workerVars
  <2>4. /\ jobCount' = jobCount
        /\ mQueues'[q] = mQueues[q] + 1
        /\ \A r \in Queues : r # q => mQueues'[r] = mQueues[r]
      BY <1>3, <2>1 DEF RegisterEnqueue, queueVars, TypeOK
  <2>5. \A r \in Queues : Registers(p, r) => r = q
      BY DEF Registers
  <2> QED BY <1>0, <2>1, <2>2, <2>3, <2>4, <2>5 DEF TokenInv, SerialExecution, NoForgottenQueue
<1>4. ASSUME NEW p \in Pushers, RegisterSetWaked(p) \/ RegisterWake(p)
      PROVE  TokenInv'
  <2>1. \A o \in Pushers, r \in Queues : Registers(o, r)' <=> Registers(o, r)
      BY <1>4 DEF RegisterSetWaked, RegisterWake, Registers, TypeOK
  <2>2. \A w \in Workers : wPc'[w] = wPc[w] \/ (wPc[w] = "asleep" /\ wPc'[w] = "woken")
      BY <1>4 DEF RegisterSetWaked, RegisterWake, TypeOK, workerVars
  <2>3. \A w \in Workers, r \in Queues : Holds(w, r)' <=> Holds(w, r)
      BY <1>4, <2>2 DEF RegisterSetWaked, RegisterWake, Holds, workerVars
  <2> QED BY <1>4, <2>1, <2>3, TokenFrame DEF RegisterSetWaked, RegisterWake, queueVars, mgrVars
<1>5. ASSUME NEW w \in Workers, NEW q \in Queues, TakeQueue(w, q)
      PROVE  TokenInv'
  <2>1. \A p \in Pushers, r \in Queues : Registers(p, r)' <=> Registers(p, r)
      BY <1>5 DEF TakeQueue, Listed, Registers, pusherVars
  <2>2. /\ \A v \in Workers, r \in Queues :
              Holds(v, r)' <=> Holds(v, r) \/ (v = w /\ r = q)
        /\ ~\E r \in Queues : Holds(w, r)
      BY <1>5 DEF TakeQueue, Listed, Holds, TypeOK
  <2>3. /\ jobCount' = jobCount
        /\ mQueues[q] > 0 /\ mQueues'[q] = mQueues[q] - 1
        /\ \A r \in Queues : r # q => mQueues'[r] = mQueues[r]
      BY <1>5 DEF TakeQueue, Listed, queueVars, TypeOK
  <2> QED BY <1>0, <2>1, <2>2, <2>3 DEF TokenInv, SerialExecution, NoForgottenQueue
<1>6. ASSUME NEW w \in Workers,
             \/ DrainEmpty(w) \/ DequeueFails(w) \/ CheckWaked(w) \/ Resume(w)
             \/ SpuriousWake(w) \/ \E p \in Pushers : StartJob(w, p)
      PROVE  TokenInv'
  <2>1. UNCHANGED <<pusherVars, jobCount, mQueues, wQueue>>
      BY <1>6 DEF DrainEmpty, DequeueFails, CheckWaked, MustSleep, Resume, SpuriousWake, StartJob,
                  queueVars, mgrVars, workerVars
  <2>2. \A v \in Workers : \/ wPc'[v] = wPc[v]
                           \/ wPc[v] = "flush" /\ wPc'[v] = "exec"
                           \/ /\ wPc[v] \notin {"flush", "exec", "requeue"}
                              /\ wPc'[v] \notin {"flush", "exec", "requeue"}
      BY <1>6 DEF DrainEmpty, DequeueFails, CheckWaked, MustSleep, Resume, SpuriousWake, StartJob,
                  workerVars, TypeOK
  <2>3. /\ \A v \in Workers, r \in Queues : Holds(v, r)' <=> Holds(v, r)
        /\ \A o \in Pushers, r \in Queues : Registers(o, r)' <=> Registers(o, r)
      BY <2>1, <2>2 DEF Holds, Registers, pusherVars
  <2> QED BY <2>1, <2>3, TokenFrame
<1>7. ASSUME NEW w \in Workers, FinishJob(w)
      PROVE  TokenInv'
  <2> DEFINE q == wQueue[w]
  <2>1. q \in Queues /\ Holds(w, q) /\ jobCount[q] \in Nat \ {0}
      BY <1>7 DEF FinishJob, Holds, PcInv, TypeOK, TokenInv
  <2>2. PICK next \in AfterJob(jobCount[q]) :
            /\ wPc' = [wPc EXCEPT ![w] = next]
            /\ wQueue' = [wQueue EXCEPT ![w] = IF next = "drain" THEN NoQueue ELSE @]
      BY <1>7 DEF FinishJob
  <2>3. next = "drain" <=> jobCount[q] = 1
      BY DEF AfterJob
  <2>4. next \in {"drain", "flush", "requeue"}
      BY DEF AfterJob
  <2>5. \A v \in Workers, r \in Queues :
            Holds(v, r)' <=> Holds(v, r) /\ (v = w => jobCount[q] # 1)
      BY <1>7, <2>1, <2>2, <2>3, <2>4 DEF FinishJob, Holds, TypeOK
  <2>6. \A p \in Pushers, r \in Queues : Registers(p, r)' <=> Registers(p, r)
      BY <1>7 DEF FinishJob, Registers, pusherVars
  <2>7. /\ mQueues' = mQueues
        /\ jobCount'[q] = jobCount[q] - 1
        /\ \A r \in Queues : r # q => jobCount'[r] = jobCount[r]
      BY <1>7, <2>1 DEF FinishJob, mgrVars, TypeOK
  <2>8. \A r \in Queues : Holds(w, r) => r = q
      BY DEF Holds
  <2> QED BY <1>0, <2>1, <2>5, <2>6, <2>7, <2>8 DEF TokenInv, SerialExecution, NoForgottenQueue
<1>8. ASSUME NEW w \in Workers, Requeue(w)
      PROVE  TokenInv'
  <2> DEFINE q == wQueue[w]
  <2>1. q \in Queues /\ Holds(w, q)
      BY <1>8 DEF Requeue, Holds, PcInv
  <2>2. \A v \in Workers, r \in Queues : Holds(v, r)' <=> Holds(v, r) /\ v # w
      BY <1>8 DEF Requeue, Holds, TypeOK
  <2>3. \A p \in Pushers, r \in Queues : Registers(p, r)' <=> Registers(p, r)
      BY <1>8 DEF Requeue, Registers, pusherVars
  <2>4. /\ jobCount' = jobCount
        /\ mQueues'[q] = mQueues[q] + 1
        /\ \A r \in Queues : r # q => mQueues'[r] = mQueues[r]
      BY <1>8, <2>1 DEF Requeue, queueVars, TypeOK
  <2>5. \A r \in Queues : Holds(w, r) => r = q
      BY DEF Holds
  <2> QED BY <1>0, <2>1, <2>2, <2>3, <2>4, <2>5 DEF TokenInv, SerialExecution, NoForgottenQueue
<1>9. ASSUME UNCHANGED vars
      PROVE  TokenInv'
  <2>1. UNCHANGED <<jobCount, mQueues, pPc, pFirst, pQueue, wPc, wQueue>>
      BY <1>9 DEF vars, queueVars, mgrVars, pusherVars, workerVars
  <2>2. /\ \A w \in Workers, r \in Queues : Holds(w, r)' <=> Holds(w, r)
        /\ \A p \in Pushers, r \in Queues : Registers(p, r)' <=> Registers(p, r)
      BY <2>1 DEF Holds, Registers
  <2> QED BY <2>1, <2>2, TokenFrame
<1> QED BY <1>1, <1>2, <1>3, <1>4, <1>5, <1>6, <1>7, <1>8, <1>9
        DEF Next, PushStep, WorkStep

-------------------------------------------------------------------------------
LEMMA InitWakeInv == Init => WakeInv
BY DEF Init, WakeInv

LEMMA NextWakeInv == TypeOK /\ WakeInv /\ [Next]_vars => WakeInv'
<1> SUFFICES ASSUME TypeOK, WakeInv, [Next]_vars
             PROVE  WakeInv'
    OBVIOUS
<1> DEFINE Awake == {"drain", "flush", "exec", "requeue", "woken"}
<1>0. /\ \A q \in Queues : mQueues[q] \in Nat
      /\ pPc \in [Pushers -> {"idle", "enqueue", "register", "setWaked", "wake"}]
      /\ wPc \in [Workers -> Awake \cup {"check", "asleep"}]
    BY DEF TypeOK
<1>1. ASSUME NEW p \in Pushers, RegisterEnqueue(p)
      PROVE  WakeInv'
    BY <1>0, <1>1 DEF RegisterEnqueue, WakeInv
<1>2. ASSUME NEW p \in Pushers, RegisterSetWaked(p)
      PROVE  WakeInv'
    BY <1>0, <1>2 DEF RegisterSetWaked, WakeInv
\* The wake either rouses a sleeper or finds every worker up.
<1>3. ASSUME NEW p \in Pushers, RegisterWake(p)
      PROVE  WakeInv'
  <2>1. UNCHANGED <<mQueues, mWaked>> /\ \A o \in Pushers : o # p => pPc'[o] = pPc[o]
      BY <1>0, <1>3 DEF RegisterWake, mgrVars
  <2>2. ASSUME NEW w \in Workers, wPc[w] = "asleep", wPc' = [wPc EXCEPT ![w] = "woken"]
        PROVE  WakeInv'
    <3>1. wPc'[w] = "woken"
        BY <1>0, <2>2
    <3> QED BY <3>1 DEF WakeInv
  <2>3. CASE /\ \A w \in Workers : wPc[w] # "asleep"
             /\ UNCHANGED wPc
    <3>1. \A w \in Workers : wPc[w] \in Awake \/ wPc[w] = "check"
        BY <1>0, <2>3
    <3>2. \A o \in Pushers : pPc[o] = "setWaked" => pPc'[o] = "setWaked"
        BY <1>3, <2>1 DEF RegisterWake
    <3> QED BY <2>1, <2>3, <3>1, <3>2 DEF WakeInv
  <2> QED BY <1>3, <2>2, <2>3 DEF RegisterWake
<1>4. ASSUME NEW w \in Workers, wPc'[w] \in Awake
      PROVE  WakeInv'
    BY <1>4 DEF WakeInv
<1>5. ASSUME NEW w \in Workers, DrainEmpty(w)
      PROVE  WakeInv'
    BY <1>0, <1>5 DEF DrainEmpty, WakeInv, mgrVars
<1>6. ASSUME NEW w \in Workers, CheckWaked(w)
      PROVE  WakeInv'
  <2>1. CASE mWaked
      BY <1>0, <1>4, <1>6, <2>1 DEF CheckWaked, MustSleep
  <2>2. CASE ~mWaked
    <3>1. UNCHANGED <<mQueues, pPc>> /\ \A v \in Workers : wPc[v] \in Awake => wPc'[v] = wPc[v]
        BY <1>0, <1>6 DEF CheckWaked, MustSleep, pusherVars
    <3> QED BY <2>2, <3>1 DEF WakeInv
  <2> QED BY <2>1, <2>2
<1>7. ASSUME NEW w \in Workers,
             \/ Requeue(w) \/ FinishJob(w) \/ Resume(w) \/ SpuriousWake(w)
             \/ \E q \in Queues : TakeQueue(w, q)
             \/ \E p \in Pushers : StartJob(w, p)
      PROVE  WakeInv'
  <2>1. wPc'[w] \in Awake
      BY <1>0, <1>7 DEF Requeue, FinishJob, Resume, SpuriousWake, TakeQueue, Listed, StartJob, AfterJob
  <2> QED BY <1>4, <2>1
<1>8. ASSUME \/ \E p \in Pushers : PushEnqueue(p) \/ \E q \in Queues : PushCount(p, q)
             \/ \E w \in Workers : DequeueFails(w)
             \/ UNCHANGED vars
      PROVE  WakeInv'
  <2>1. UNCHANGED <<mQueues, mWaked, wPc>>
      BY <1>8 DEF PushCount, IsFirst, PushEnqueue, DequeueFails, vars, mgrVars, workerVars
  <2>2. \A p \in Pushers : pPc[p] \in {"setWaked", "wake"} => pPc'[p] = pPc[p]
      BY <1>0, <1>8 DEF PushCount, IsFirst, PushEnqueue, DequeueFails, vars, pusherVars
  <2> QED BY <2>1, <2>2 DEF WakeInv
<1> QED BY <1>1, <1>2, <1>3, <1>5, <1>6, <1>7, <1>8 DEF Next, PushStep, WorkStep

-------------------------------------------------------------------------------
Inv == TypeOK /\ PcInv /\ TokenInv /\ WakeInv

LEMMA Invariance == Spec => []Inv
<1>1. Init => Inv
    BY InitTypeOK, InitTokenInv, InitWakeInv DEF Inv
<1>2. Inv /\ [Next]_vars => Inv'
    BY NextTypeOK, NextTokenInv, NextWakeInv DEF Inv
<1> QED BY <1>1, <1>2, PTL DEF Spec

\* Every variable keeps its type.  Only the token invariant makes it so:
\* fetch_sub never brings mJobCount below zero because whoever decrements it
\* holds the queue, and a held queue counts at least one job.
THEOREM TypeCorrect == Spec => []TypeOK
<1>1. Inv => TypeOK
    BY DEF Inv
<1> QED BY Invariance, <1>1, PTL

\* For any number of pushers, workers and queues, two workers never flush the
\* same queue at once: the jobs of a JobSerializer need no lock of their own.
THEOREM SerialExecutionHolds == Spec => []SerialExecution
<1>1. Inv => SerialExecution
    BY DEF Inv, TokenInv
<1> QED BY Invariance, <1>1, PTL

\* A queue with jobs is always about to be listed, listed or in a worker's hands.
THEOREM NoForgottenQueueHolds == Spec => []NoForgottenQueue
<1>1. Inv => NoForgottenQueue
    BY DEF Inv, TokenInv
<1> QED BY Invariance, <1>1, PTL

\* All workers sleep over a non-empty list only while a registration is on its
\* way to the wake-up, for any number of workers sharing the one mWaked flag.
THEOREM NoLostWakeupHolds == Spec => []NoLostWakeup
<1>1. Inv => NoLostWakeup
    BY DEF Inv, WakeInv, NoLostWakeup
<1> QED BY Invariance, <1>1, PTL

-------------------------------------------------------------------------------
(* The order of the jobs.                                                  *)

Increasing(s) == \A i, j \in 1..Len(s) : i < j => s[i] < s[j]
Above(s, n) == \A i \in 1..Len(s) : n < s[i]
UpTo(s, n) == \A i \in 1..Len(s) : s[i] <= n

\* The newest job of p that is in a queue or has been.
Newest(p) == IF pPc[p] = "enqueue" THEN pushed[p] - 1 ELSE pushed[p]

\* The jobs of p in q, from the last one finished to the last one enqueued.
Ordered(q, p) ==
    /\ lastDone[q][p] <= Newest(p)
    /\ Above(mQueue[q][p], lastDone[q][p])
    /\ UpTo(mQueue[q][p], Newest(p))
    /\ Increasing(mQueue[q][p])

\* Job k of p, which a worker executes for q, is between the two.
Between(q, p, k) ==
    /\ lastDone[q][p] < k
    /\ k <= Newest(p)
    /\ Above(mQueue[q][p], k)

OrderInv ==
    /\ \A q \in Queues, p \in Pushers : Ordered(q, p)
    /\ \A w \in Workers : wPc[w] = "exec" => Between(wQueue[w], wJob[w][1], wJob[w][2])

-------------------------------------------------------------------------------
\* Appending a number beyond all others keeps a sequence increasing.
LEMMA AppendOrder ==
    ASSUME NEW s \in Seq(Nat), NEW k \in Nat, UpTo(s, k - 1)
    PROVE  /\ Increasing(s) => Increasing(Append(s, k))
           /\ UpTo(Append(s, k), k)
           /\ \A n \in Nat : Above(s, n) /\ n < k => Above(Append(s, k), n)
<1>1. /\ Len(s) \in Nat /\ Len(Append(s, k)) = Len(s) + 1
      /\ \A i \in 1..Len(s) : Append(s, k)[i] = s[i] /\ s[i] \in Nat
      /\ Append(s, k)[Len(s) + 1] = k
    OBVIOUS
<1> DEFINE t == Append(s, k)
<1>2. \A i \in 1..Len(t) : (i \in 1..Len(s) /\ t[i] = s[i]) \/ (i = Len(s) + 1 /\ t[i] = k)
    BY <1>1
<1> HIDE DEF t
<1>3. UpTo(t, k)
  <2> SUFFICES ASSUME NEW i \in 1..Len(t) PROVE t[i] <= k
      BY DEF UpTo
  <2>1. CASE i \in 1..Len(s) /\ t[i] = s[i]
    <3>1. s[i] \in Nat /\ s[i] <= k - 1
        BY <1>1, <2>1 DEF UpTo
    <3> QED BY <2>1, <3>1
  <2>2. CASE t[i] = k
      BY <2>2
  <2> QED BY <1>2, <2>1, <2>2
<1>4. ASSUME NEW n \in Nat, Above(s, n), n < k PROVE Above(t, n)
    BY <1>2, <1>4 DEF Above
<1>5. ASSUME Increasing(s) PROVE Increasing(t)
  <2> SUFFICES ASSUME NEW i \in 1..Len(t), NEW j \in 1..Len(t), i < j
               PROVE  t[i] < t[j]
      BY DEF Increasing
  <2>1. i \in 1..Len(s) /\ t[i] = s[i] /\ s[i] \in Nat /\ s[i] <= k - 1
      BY <1>1, <1>2 DEF UpTo, t
  <2>2. CASE j \in 1..Len(s) /\ t[j] = s[j]
      BY <1>5, <2>1, <2>2 DEF Increasing
  <2>3. CASE j = Len(s) + 1 /\ t[j] = k
      BY <2>1, <2>3
  <2> QED BY <1>2, <2>2, <2>3
<1> QED BY <1>3, <1>4, <1>5 DEF t

\* The head of an increasing sequence comes before its tail.
LEMMA TailOrder ==
    ASSUME NEW s \in Seq(Nat), s # <<>>, Increasing(s)
    PROVE  /\ Head(s) \in Nat /\ Tail(s) \in Seq(Nat)
           /\ Increasing(Tail(s)) /\ Above(Tail(s), Head(s))
           /\ \A n \in Nat : /\ UpTo(s, n) => UpTo(Tail(s), n) /\ Head(s) <= n
                             /\ Above(s, n) => n < Head(s)
<1> DEFINE t == Tail(s)
<1>1. /\ Len(s) \in Nat \ {0} /\ Len(t) = Len(s) - 1 /\ Head(s) = s[1]
      /\ \A i \in 1..Len(t) : t[i] = s[i + 1] /\ i + 1 \in 1..Len(s) /\ t[i] \in Nat
      /\ s[1] \in Nat /\ t \in Seq(Nat)
    OBVIOUS
<1> HIDE DEF t
<1>2. Increasing(t)
  <2> SUFFICES ASSUME NEW i \in 1..Len(t), NEW j \in 1..Len(t), i < j
               PROVE  t[i] < t[j]
      BY DEF Increasing
  <2>1. i + 1 \in 1..Len(s) /\ j + 1 \in 1..Len(s) /\ i + 1 < j + 1
      BY <1>1
  <2>2. s[i + 1] < s[j + 1]
      BY <2>1 DEF Increasing
  <2> QED BY <1>1, <2>2
<1>3. Above(t, s[1])
  <2> SUFFICES ASSUME NEW i \in 1..Len(t)
               PROVE  s[1] < t[i]
      BY DEF Above
  <2>1. 1 \in 1..Len(s) /\ i + 1 \in 1..Len(s) /\ 1 < i + 1
      BY <1>1
  <2>2. s[1] < s[i + 1]
      BY <2>1 DEF Increasing
  <2> QED BY <1>1, <2>2
<1>4. ASSUME NEW n \in Nat
      PROVE  /\ UpTo(s, n) => UpTo(t, n) /\ s[1] <= n
             /\ Above(s, n) => n < s[1]
  <2>1. 1 \in 1..Len(s)
      BY <1>1
  <2>2. UpTo(s, n) => UpTo(t, n) /\ s[1] <= n
      BY <1>1, <2>1 DEF UpTo
  <2>3. Above(s, n) => n < s[1]
      BY <2>1 DEF Above
  <2> QED BY <2>2, <2>3
<1> QED BY <1>1, <1>2, <1>3, <1>4 DEF t

\* A larger bound and a smaller floor.
LEMMA Weaken ==
    \A s \in Seq(Nat), m, n \in Nat :
        m <= n => (UpTo(s, m) => UpTo(s, n)) /\ (Above(s, n) => Above(s, m))
<1> SUFFICES ASSUME NEW s \in Seq(Nat), NEW m \in Nat, NEW n \in Nat, m <= n
             PROVE  (UpTo(s, m) => UpTo(s, n)) /\ (Above(s, n) => Above(s, m))
    OBVIOUS
<1>1. \A i \in 1..Len(s) : s[i] \in Nat
    OBVIOUS
<1> QED BY <1>1 DEF UpTo, Above

\* The parts of a state the order speaks of, typed.
LEMMA OrderTypes ==
    ASSUME TypeOK, PcInv
    PROVE  /\ \A q \in Queues, p \in Pushers :
                 lastDone[q][p] \in Nat /\ mQueue[q][p] \in Seq(Nat)
           /\ \A p \in Pushers : Newest(p) \in Nat
           /\ \A w \in Workers : wPc[w] = "exec" =>
                 /\ wQueue[w] \in Queues
                 /\ wJob[w][1] \in Pushers /\ wJob[w][2] \in 1..MaxPush
                 /\ wJob[w] = <<wJob[w][1], wJob[w][2]>>
<1>1. ASSUME NEW q \in Queues, NEW p \in Pushers
      PROVE  lastDone[q][p] \in Nat /\ mQueue[q][p] \in Seq(Nat)
  <2>1. lastDone[q][p] \in 0..MaxPush /\ mQueue[q][p] \in Seq(1..MaxPush)
      BY DEF TypeOK
  <2>2. ASSUME NEW s \in Seq(1..MaxPush) PROVE s \in Seq(Nat)
    <3>1. 1..MaxPush \subseteq Nat
        OBVIOUS
    <3> QED BY <3>1, SeqMonotonic, Zenon
  <2> QED BY <2>1, <2>2
<1>2. ASSUME NEW p \in Pushers PROVE Newest(p) \in Nat
    BY DEF TypeOK, PcInv, Newest
<1>3. ASSUME NEW w \in Workers, wPc[w] = "exec"
      PROVE  /\ wQueue[w] \in Queues
             /\ wJob[w][1] \in Pushers /\ wJob[w][2] \in 1..MaxPush
             /\ wJob[w] = <<wJob[w][1], wJob[w][2]>>
  <2>1. wQueue[w] \in Queues /\ wJob[w] \in Jobs
      BY <1>3 DEF PcInv
  <2> QED BY <2>1, JobPieces
<1> QED BY <1>1, <1>2, <1>3

-------------------------------------------------------------------------------
LEMMA InitOrderInv == Init => OrderInv
<1> SUFFICES ASSUME Init PROVE OrderInv
    OBVIOUS
<1>1. ASSUME NEW q \in Queues, NEW p \in Pushers PROVE Ordered(q, p)
  <2>1. mQueue[q][p] = <<>> /\ lastDone[q][p] = 0 /\ pushed[p] = 0 /\ pPc[p] = "idle"
      BY DEF Init
  <2> QED BY <2>1 DEF Ordered, Newest, Above, UpTo, Increasing
<1>2. \A w \in Workers : wPc[w] # "exec"
    BY DEF Init
<1> QED BY <1>1, <1>2 DEF OrderInv

\* One queue and one pusher, untouched but for newer jobs on their way.
LEMMA OrderFrame ==
    ASSUME TypeOK, PcInv, TypeOK', PcInv', NEW q \in Queues, NEW p \in Pushers,
           mQueue'[q][p] = mQueue[q][p], lastDone'[q][p] = lastDone[q][p],
           Newest(p) <= Newest(p)'
    PROVE  /\ Ordered(q, p) => Ordered(q, p)'
           /\ \A k \in Nat : Between(q, p, k) => Between(q, p, k)'
<1>1. /\ Newest(p) \in Nat /\ Newest(p)' \in Nat
      /\ lastDone[q][p] \in Nat /\ mQueue[q][p] \in Seq(Nat)
  <2>1. Newest(p)' \in Nat
      BY DEF TypeOK, PcInv, Newest
  <2> QED BY <2>1, OrderTypes
<1>2. UpTo(mQueue[q][p], Newest(p)) => UpTo(mQueue[q][p], Newest(p)')
    BY <1>1, Weaken
<1> QED BY <1>1, <1>2 DEF Ordered, Between

\* Steps that touch neither the jobs nor who executes them keep the order.
LEMMA OrderKept ==
    ASSUME TypeOK, PcInv, TypeOK', PcInv', OrderInv, UNCHANGED <<mQueue, lastDone>>,
           \A p \in Pushers : Newest(p) <= Newest(p)',
           \A w \in Workers : wPc'[w] = "exec" =>
               wPc[w] = "exec" /\ wQueue'[w] = wQueue[w] /\ wJob'[w] = wJob[w]
    PROVE  OrderInv'
<1>1. ASSUME NEW q \in Queues, NEW p \in Pushers PROVE Ordered(q, p)'
    BY OrderFrame DEF OrderInv
<1>2. ASSUME NEW w \in Workers, wPc'[w] = "exec"
      PROVE  Between(wQueue[w], wJob[w][1], wJob[w][2])'
  <2>1. /\ wPc[w] = "exec" /\ wQueue'[w] = wQueue[w] /\ wJob'[w] = wJob[w]
        /\ wQueue[w] \in Queues /\ wJob[w][1] \in Pushers /\ wJob[w][2] \in Nat
      BY <1>2, OrderTypes
  <2>2. Between(wQueue[w], wJob[w][1], wJob[w][2])
      BY <2>1 DEF OrderInv
  <2>3. ASSUME NEW q \in Queues, NEW p \in Pushers, NEW k \in Nat, Between(q, p, k)
        PROVE  Between(q, p, k)'
      BY <2>3, OrderFrame
  <2> QED BY <2>1, <2>2, <2>3 DEF Between, Newest
<1> QED BY <1>1, <1>2 DEF OrderInv

LEMMA NextOrderInv == Inv /\ Inv' /\ OrderInv /\ [Next]_vars => OrderInv'
<1> SUFFICES ASSUME TypeOK, PcInv, TypeOK', PcInv', SerialExecution, OrderInv, [Next]_vars
             PROVE  OrderInv'
    BY DEF Inv, TokenInv
<1>0. /\ pPc \in [Pushers -> {"idle", "enqueue", "register", "setWaked", "wake"}]
      /\ wPc \in [Workers -> {"drain", "flush", "exec", "requeue", "check", "asleep", "woken"}]
      /\ pushed \in [Pushers -> 0..MaxPush]
    BY DEF TypeOK
<1>1. ASSUME NEW p \in Pushers,
             \/ RegisterEnqueue(p) \/ RegisterSetWaked(p) \/ RegisterWake(p)
             \/ \E q \in Queues : PushCount(p, q)
      PROVE  OrderInv'
  <2> USE DEF RegisterEnqueue, RegisterSetWaked, RegisterWake, PushCount
  <2>1. \A o \in Pushers : Newest(o)' = Newest(o)
      BY <1>0, <1>1 DEF Newest
  <2>2. \A o \in Pushers : Newest(o) <= Newest(o)'
      BY <2>1, OrderTypes
  <2>3. \A w \in Workers : wPc'[w] = "exec" => wPc[w] = "exec"
      BY <1>0, <1>1 DEF workerVars
  <2>4. UNCHANGED <<mQueue, lastDone, wQueue, wJob>>
      BY <1>1 DEF workerVars, queueVars
  <2> QED BY <2>2, <2>3, <2>4, OrderKept
\* The job enqueued is the newest of its pusher.
<1>2. ASSUME NEW p \in Pushers, PushEnqueue(p)
      PROVE  OrderInv'
  <2>0. PICK q \in Queues, k \in Nat : q = pQueue[p] /\ k = pushed[p]
      BY <1>0, <1>2 DEF PushEnqueue, PcInv
  <2> DEFINE s == mQueue[q][p]
  <2>1. /\ s \in Seq(Nat) /\ lastDone[q][p] \in Nat
        /\ Newest(p) = k - 1 /\ Newest(p)' = k
      BY <1>0, <1>2, <2>0, OrderTypes DEF PushEnqueue, Newest
  <2>2. /\ mQueue'[q][p] = Append(s, k)
        /\ \A r \in Queues, o \in Pushers :
              r # q \/ o # p => mQueue'[r][o] = mQueue[r][o]
        /\ UNCHANGED <<lastDone, wPc, wQueue, wJob>>
      BY <1>2, <2>0 DEF PushEnqueue, TypeOK, workerVars
  <2>3. \A o \in Pushers : Newest(o) \in Nat /\ Newest(o) <= Newest(o)'
    <3>1. \A o \in Pushers : o # p => Newest(o)' = Newest(o)
        BY <1>0, <1>2 DEF PushEnqueue, Newest
    <3> QED BY <2>1, <3>1, OrderTypes
  <2>4. Ordered(q, p)
      BY <2>1 DEF OrderInv
  <2>5. /\ Increasing(Append(s, k)) /\ UpTo(Append(s, k), k)
        /\ \A n \in Nat : Above(s, n) /\ n < k => Above(Append(s, k), n)
      BY <2>1, <2>4, AppendOrder DEF Ordered
  <2> HIDE DEF s
  <2>6. Ordered(q, p)'
      BY <2>1, <2>2, <2>4, <2>5 DEF Ordered, s
  <2>7. \A j \in Nat : Between(q, p, j) => Between(q, p, j)'
      BY <2>1, <2>2, <2>5 DEF Between, s
  <2>8. ASSUME NEW r \in Queues, NEW o \in Pushers
        PROVE  /\ Ordered(r, o)'
               /\ \A j \in Nat : Between(r, o, j) => Between(r, o, j)'
    <3>1. CASE r = q /\ o = p
        BY <2>6, <2>7, <3>1 DEF Ordered, Between, Newest
    <3>2. CASE r # q \/ o # p
        BY <2>2, <2>3, <3>2, OrderFrame DEF OrderInv
    <3> QED BY <3>1, <3>2
  <2>9. ASSUME NEW w \in Workers, wPc'[w] = "exec"
        PROVE  Between(wQueue[w], wJob[w][1], wJob[w][2])'
    <3>1. /\ wQueue'[w] = wQueue[w] /\ wJob'[w] = wJob[w] /\ wPc[w] = "exec"
          /\ wQueue[w] \in Queues /\ wJob[w][1] \in Pushers /\ wJob[w][2] \in Nat
        BY <2>2, <2>9, OrderTypes
    <3>2. Between(wQueue[w], wJob[w][1], wJob[w][2])
        BY <3>1 DEF OrderInv
    <3> QED BY <2>8, <3>1, <3>2 DEF Between, Newest
  <2> QED BY <2>8, <2>9 DEF OrderInv
\* The job taken is the oldest of its pusher.
<1>3. ASSUME NEW w \in Workers, NEW p \in Pushers, StartJob(w, p)
      PROVE  OrderInv'
  <2>0. PICK q \in Queues : q = wQueue[w]
      BY <1>3 DEF StartJob, PcInv
  <2> DEFINE s == mQueue[q][p]
  <2>1. s \in Seq(Nat) /\ s # <<>> /\ Holds(w, q) /\ lastDone[q][p] \in Nat
      BY <1>3, <2>0, OrderTypes DEF StartJob, Holds
  <2>2. /\ mQueue'[q][p] = Tail(s)
        /\ \A r \in Queues, o \in Pushers :
              r # q \/ o # p => mQueue'[r][o] = mQueue[r][o]
        /\ UNCHANGED <<lastDone, pPc, pushed, wQueue>>
      BY <1>3, <2>0, <2>1 DEF StartJob, TypeOK, pusherVars
  <2>3. /\ wJob'[w] = <<p, Head(s)>>
        /\ \A v \in Workers : v # w => wJob'[v] = wJob[v] /\ wPc'[v] = wPc[v]
      BY <1>0, <1>3, <2>0 DEF StartJob, TypeOK
  <2>4. \A o \in Pushers : Newest(o) \in Nat /\ Newest(o)' = Newest(o) /\ Newest(o) <= Newest(o)'
      BY <2>2, OrderTypes DEF Newest
  <2>5. Ordered(q, p)
      BY <2>1 DEF OrderInv
  <2>6. /\ Head(s) \in Nat
        /\ Increasing(Tail(s)) /\ Above(Tail(s), Head(s)) /\ Tail(s) \in Seq(Nat)
        /\ \A n \in Nat : /\ UpTo(s, n) => UpTo(Tail(s), n) /\ Head(s) <= n
                          /\ Above(s, n) => n < Head(s)
      BY <2>1, <2>5, TailOrder DEF Ordered
  <2>7. lastDone[q][p] < Head(s) /\ Head(s) <= Newest(p) /\ UpTo(Tail(s), Newest(p))
      BY <2>1, <2>4, <2>5, <2>6 DEF Ordered
  <2>8. Above(Tail(s), lastDone[q][p])
    <3>1. lastDone[q][p] \in Nat /\ Head(s) \in Nat /\ lastDone[q][p] <= Head(s)
        BY <2>1, <2>6, <2>7
    <3> QED BY <2>6, <3>1, Weaken, Zenon
  <2> HIDE DEF s
  <2>9. Ordered(q, p)'
      BY <2>2, <2>4, <2>5, <2>6, <2>7, <2>8 DEF Ordered
  <2>11. ASSUME NEW r \in Queues, NEW o \in Pushers PROVE Ordered(r, o)'
    <3>1. CASE r = q /\ o = p
        BY <2>9, <3>1 DEF Ordered, Newest
    <3>2. CASE r # q \/ o # p
        BY <2>2, <2>4, <3>2, OrderFrame DEF OrderInv
    <3> QED BY <3>1, <3>2
  <2>12. \A v \in Workers : v # w /\ wPc[v] = "exec" => wQueue[v] # q
      BY <2>0, <2>1 DEF SerialExecution, Holds
  <2>13. ASSUME NEW v \in Workers, wPc'[v] = "exec"
         PROVE  Between(wQueue[v], wJob[v][1], wJob[v][2])'
    <3>1. CASE v = w
      <4>1. wQueue'[v] = q /\ wJob'[v][1] = p /\ wJob'[v][2] = Head(s)
          BY <2>0, <2>2, <2>3, <3>1
      <4> QED BY <2>2, <2>4, <2>6, <2>7, <4>1 DEF Between, Newest
    <3>2. CASE v # w
      <4>1. /\ wQueue'[v] = wQueue[v] /\ wJob'[v] = wJob[v] /\ wPc[v] = "exec"
            /\ wQueue[v] \in Queues /\ wQueue[v] # q
            /\ wJob[v][1] \in Pushers /\ wJob[v][2] \in Nat
          BY <2>2, <2>3, <2>12, <2>13, <3>2, OrderTypes
      <4>2. Between(wQueue[v], wJob[v][1], wJob[v][2])
          BY <4>1 DEF OrderInv
      <4> QED BY <2>2, <2>4, <4>1, <4>2 DEF Between, Newest
    <3> QED BY <3>1, <3>2
  <2> QED BY <2>11, <2>13 DEF OrderInv
\* The job finished is the one between the finished and the waiting ones.
<1>4. ASSUME NEW w \in Workers, FinishJob(w)
      PROVE  OrderInv'
  <2>1. PICK q \in Queues, p \in Pushers, k \in Nat :
            /\ q = wQueue[w] /\ p = wJob[w][1] /\ k = wJob[w][2]
            /\ wPc[w] = "exec" /\ Holds(w, q)
      BY <1>4, OrderTypes DEF FinishJob, Holds
  <2>2. /\ lastDone'[q][p] = k
        /\ \A r \in Queues, o \in Pushers :
              r # q \/ o # p => lastDone'[r][o] = lastDone[r][o]
        /\ UNCHANGED <<mQueue, pPc, pushed>>
      BY <1>4, <2>1 DEF FinishJob, TypeOK, pusherVars
  <2>3. /\ wPc'[w] # "exec"
        /\ \A v \in Workers : v # w => /\ wJob'[v] = wJob[v] /\ wPc'[v] = wPc[v]
                                       /\ wQueue'[v] = wQueue[v]
      BY <1>0, <1>4 DEF FinishJob, AfterJob, TypeOK
  <2>4. \A o \in Pushers : Newest(o) \in Nat /\ Newest(o)' = Newest(o) /\ Newest(o) <= Newest(o)'
      BY <2>2, OrderTypes DEF Newest
  <2>5. Between(q, p, k) /\ Ordered(q, p)
      BY <2>1 DEF OrderInv
  <2>6. \A v \in Workers : v # w /\ wPc[v] = "exec" => wQueue[v] # q
      BY <2>1 DEF SerialExecution, Holds
  <2>7. ASSUME NEW r \in Queues, NEW o \in Pushers PROVE Ordered(r, o)'
    <3>1. CASE r = q /\ o = p
        BY <2>2, <2>4, <2>5, <3>1 DEF Ordered, Between, Newest
    <3>2. CASE r # q \/ o # p
        BY <2>2, <2>4, <3>2, OrderFrame DEF OrderInv
    <3> QED BY <3>1, <3>2
  <2>8. ASSUME NEW v \in Workers, wPc'[v] = "exec"
        PROVE  Between(wQueue[v], wJob[v][1], wJob[v][2])'
    <3>1. v # w
        BY <2>3, <2>8
    <3>2. /\ wQueue'[v] = wQueue[v] /\ wJob'[v] = wJob[v] /\ wPc[v] = "exec"
          /\ wQueue[v] \in Queues /\ wQueue[v] # q
          /\ wJob[v][1] \in Pushers /\ wJob[v][2] \in Nat
        BY <2>3, <2>6, <2>8, <3>1, OrderTypes
    <3>3. Between(wQueue[v], wJob[v][1], wJob[v][2])
        BY <3>2 DEF OrderInv
    <3> QED BY <2>2, <2>4, <3>2, <3>3 DEF Between, Newest
  <2> QED BY <2>7, <2>8 DEF OrderInv
<1>5. ASSUME \/ \E w \in Workers : \/ DrainEmpty(w) \/ DequeueFails(w) \/ CheckWaked(w)
                                    \/ Resume(w) \/ SpuriousWake(w) \/ Requeue(w)
                                    \/ \E q \in Queues : TakeQueue(w, q)
             \/ UNCHANGED vars
      PROVE  OrderInv'
  <2> USE DEF DrainEmpty, DequeueFails, CheckWaked, MustSleep, Resume, SpuriousWake, Requeue, TakeQueue
  <2>1. UNCHANGED <<mQueue, lastDone, pPc, pushed, wJob>>
      BY <1>5 DEF vars, queueVars, workerVars, pusherVars
  <2>2. \A p \in Pushers : Newest(p) <= Newest(p)'
      BY <2>1, OrderTypes DEF Newest
  <2>3. \A w \in Workers : wPc'[w] = "exec" => wPc[w] = "exec" /\ wQueue'[w] = wQueue[w]
      BY <1>0, <1>5 DEF TypeOK, vars, workerVars
  <2> QED BY <2>1, <2>2, <2>3, OrderKept
<1> QED BY <1>1, <1>2, <1>3, <1>4, <1>5 DEF Next, PushStep, WorkStep

-------------------------------------------------------------------------------
LEMMA OrderInvariance == Spec => [](Inv /\ OrderInv)
<1>1. Init => OrderInv
    BY InitOrderInv
<1>2. Inv /\ Inv' /\ OrderInv /\ [Next]_vars => OrderInv'
    BY NextOrderInv
<1> QED BY <1>1, <1>2, Invariance, PTL DEF Spec

\* Whatever the number of workers, the jobs one thread pushes to one queue are
\* finished once each and in the order it pushed them.
THEOREM PerPusherOrderHolds == Spec => PerPusherOrder
<1>1. Inv /\ OrderInv /\ [Next]_vars =>
          [\A q \in Queues, p \in Pushers :
              lastDone'[q][p] # lastDone[q][p] => lastDone'[q][p] > lastDone[q][p]]_vars
  <2> SUFFICES ASSUME TypeOK, PcInv, OrderInv, [Next]_vars,
                      NEW q \in Queues, NEW p \in Pushers,
                      lastDone'[q][p] # lastDone[q][p]
               PROVE  lastDone'[q][p] > lastDone[q][p]
      BY DEF Inv
  <2>1. PICK w \in Workers : FinishJob(w)
      BY DEF Next, PushStep, WorkStep, PushCount, PushEnqueue, RegisterEnqueue,
             RegisterSetWaked, RegisterWake, TakeQueue, DrainEmpty, StartJob,
             DequeueFails, Requeue, CheckWaked, MustSleep, Resume, SpuriousWake, vars
  <2>2. wPc[w] = "exec" /\ wQueue[w] \in Queues /\ wJob[w][1] \in Pushers /\ wJob[w][2] \in Nat
      BY <2>1, OrderTypes DEF FinishJob
  <2>3. wQueue[w] = q /\ wJob[w][1] = p /\ lastDone'[q][p] = wJob[w][2]
      BY <2>1, <2>2 DEF FinishJob, TypeOK
  <2>4. lastDone[q][p] < wJob[w][2] /\ lastDone[q][p] \in Nat
      BY <2>2, <2>3, OrderTypes DEF OrderInv, Between
  <2> QED BY <2>2, <2>3, <2>4
<1> QED BY <1>1, OrderInvariance, PTL DEF Spec, PerPusherOrder

-------------------------------------------------------------------------------
(* Refinement.                                                             *)

\* While a worker executes a job of q, that job is what q runs.
RunningIsExecuted ==
    \A q \in Queues :
        /\ \A w \in Workers : wPc[w] = "exec" /\ wQueue[w] = q => RunningJob(q) = wJob[w]
        /\ (\A w \in Workers : ~(wPc[w] = "exec" /\ wQueue[w] = q)) => RunningJob(q) = NoJob

LEMMA RunningJobOf == SerialExecution => RunningIsExecuted
<1> SUFFICES ASSUME SerialExecution PROVE RunningIsExecuted
    OBVIOUS
<1>1. ASSUME NEW q \in Queues, NEW w \in Workers, wPc[w] = "exec", wQueue[w] = q
      PROVE  RunningJob(q) = wJob[w]
  <2>1. WorkerOf(q) = {w}
      BY <1>1 DEF WorkerOf, SerialExecution, Holds
  <2> QED BY <2>1 DEF RunningJob
<1>2. ASSUME NEW q \in Queues, \A w \in Workers : ~(wPc[w] = "exec" /\ wQueue[w] = q)
      PROVE  RunningJob(q) = NoJob
    BY <1>2 DEF RunningJob, WorkerOf
<1> QED BY <1>1, <1>2 DEF RunningIsExecuted

\* A queue whose executing worker does not change runs the same job.
LEMMA RunningFrame ==
    ASSUME RunningIsExecuted, RunningIsExecuted', NEW q \in Queues,
           \A w \in Workers : (wPc[w] = "exec" /\ wQueue[w] = q)' <=> wPc[w] = "exec" /\ wQueue[w] = q,
           \A w \in Workers : wPc[w] = "exec" /\ wQueue[w] = q => wJob'[w] = wJob[w]
    PROVE  RunningJob(q)' = RunningJob(q)
<1>1. CASE \E w \in Workers : wPc[w] = "exec" /\ wQueue[w] = q
    BY <1>1 DEF RunningIsExecuted
<1>2. CASE ~\E w \in Workers : wPc[w] = "exec" /\ wQueue[w] = q
    BY <1>2 DEF RunningIsExecuted
<1> QED BY <1>1, <1>2

\* Every step of JobQueue is a step of the executor, or leaves it alone.
LEMMA ExecutorStep ==
    TypeOK /\ PcInv /\ SerialExecution /\ SerialExecution' /\ [Next]_vars
      => [Executor!Next]_(Executor!vars)
<1> SUFFICES ASSUME TypeOK, PcInv, SerialExecution, SerialExecution', [Next]_vars
             PROVE  [Executor!Next]_(Executor!vars)
    OBVIOUS
<1> DEFINE running == [q \in Queues |-> RunningJob(q)]
<1>0. RunningIsExecuted /\ RunningIsExecuted'
  <2>1. SerialExecution' => RunningIsExecuted'
      BY RunningJobOf, PTL
  <2> QED BY <2>1, RunningJobOf
<1>00. wPc \in [Workers -> {"drain", "flush", "exec", "requeue", "check", "asleep", "woken"}]
    BY DEF TypeOK
<1>1. ASSUME NEW p \in Pushers, PushEnqueue(p)
      PROVE  Executor!Next
  <2>1. pQueue[p] \in Queues /\ pushed[p] \in 1..MaxPush
      BY <1>1 DEF PushEnqueue, TypeOK, PcInv
  <2>2. UNCHANGED running
    <3>1. \A q \in Queues : RunningJob(q)' = RunningJob(q)
        BY <1>0, <1>1, RunningFrame DEF PushEnqueue, workerVars
    <3> QED BY <3>1
  <2>3. Executor!Submit(pQueue[p], p, pushed[p])
      BY <1>1, <2>2 DEF PushEnqueue, Executor!Submit
  <2> QED BY <2>1, <2>3 DEF Executor!Next
<1>2. ASSUME NEW w \in Workers, NEW p \in Pushers, StartJob(w, p)
      PROVE  Executor!Next
  <2>0. PICK q \in Queues : q = wQueue[w]
      BY <1>2 DEF StartJob, PcInv
  <2>1. \A v \in Workers : ~(wPc[v] = "exec" /\ wQueue[v] = q)
      BY <1>2, <2>0 DEF StartJob, SerialExecution, Holds
  <2>2. /\ wPc'[w] = "exec" /\ wQueue' = wQueue /\ wJob'[w] = <<p, Head(mQueue[q][p])>>
        /\ \A v \in Workers : v # w => wPc'[v] = wPc[v] /\ wJob'[v] = wJob[v]
      BY <1>00, <1>2, <2>0 DEF StartJob, TypeOK
  <2>3. RunningJob(q) = NoJob /\ RunningJob(q)' = <<p, Head(mQueue[q][p])>>
      BY <1>0, <2>0, <2>1, <2>2 DEF RunningIsExecuted
  <2>4. ASSUME NEW r \in Queues, r # q PROVE RunningJob(r)' = RunningJob(r)
      BY <1>0, <2>0, <2>2, <2>4, RunningFrame
  <2>5. running' = [running EXCEPT ![q] = <<p, Head(mQueue[q][p])>>]
      BY <2>3, <2>4
  <2>6. Executor!Start(q, p)
      BY <1>2, <2>0, <2>3, <2>5 DEF StartJob, Executor!Start
  <2> QED BY <2>6 DEF Executor!Next
<1>3. ASSUME NEW w \in Workers, FinishJob(w)
      PROVE  Executor!Next
  <2>0. PICK q \in Queues, p \in Pushers, k \in 1..MaxPush :
            q = wQueue[w] /\ wJob[w] = <<p, k>> /\ wPc[w] = "exec"
      BY <1>3, OrderTypes DEF FinishJob
  <2>1. \A v \in Workers : v # w => ~(wPc[v] = "exec" /\ wQueue[v] = q)
      BY <2>0 DEF SerialExecution, Holds
  <2>2. /\ wPc'[w] # "exec"
        /\ \A v \in Workers : v # w => wPc'[v] = wPc[v] /\ wJob'[v] = wJob[v] /\ wQueue'[v] = wQueue[v]
      BY <1>00, <1>3 DEF FinishJob, AfterJob, TypeOK
  <2>3. RunningJob(q) = <<p, k>> /\ RunningJob(q)' = NoJob
      BY <1>0, <2>0, <2>1, <2>2 DEF RunningIsExecuted
  <2>4. ASSUME NEW r \in Queues, r # q PROVE RunningJob(r)' = RunningJob(r)
      BY <1>0, <2>0, <2>2, <2>4, RunningFrame
  <2>5. running' = [running EXCEPT ![q] = NoJob]
      BY <2>3, <2>4
  <2>6. lastDone' = [lastDone EXCEPT ![q][p] = k] /\ mQueue' = mQueue
      BY <1>3, <2>0 DEF FinishJob
  <2>7. Executor!Finish(q, p, k)
      BY <2>3, <2>5, <2>6 DEF Executor!Finish
  <2> QED BY <2>7 DEF Executor!Next
<1>4. ASSUME \/ \E p \in Pushers : \/ RegisterEnqueue(p) \/ RegisterSetWaked(p) \/ RegisterWake(p)
                                    \/ \E q \in Queues : PushCount(p, q)
             \/ \E w \in Workers : \/ DrainEmpty(w) \/ DequeueFails(w) \/ CheckWaked(w)
                                    \/ Resume(w) \/ SpuriousWake(w) \/ Requeue(w)
                                    \/ \E q \in Queues : TakeQueue(w, q)
             \/ UNCHANGED vars
      PROVE  UNCHANGED Executor!vars
  <2> USE DEF DrainEmpty, DequeueFails, CheckWaked, MustSleep, Resume, SpuriousWake, Requeue, TakeQueue, Listed,
              RegisterEnqueue, RegisterSetWaked, RegisterWake, PushCount
  <2>1. UNCHANGED <<mQueue, lastDone, wJob>>
      BY <1>4 DEF vars, queueVars, workerVars
  <2>2. \A w \in Workers : /\ wPc'[w] = "exec" <=> wPc[w] = "exec"
                           /\ wPc[w] = "exec" => wQueue'[w] = wQueue[w]
      BY <1>00, <1>4 DEF TypeOK, vars, workerVars
  <2>3. \A q \in Queues : RunningJob(q)' = RunningJob(q)
      BY <1>0, <2>1, <2>2, RunningFrame
  <2> QED BY <2>1, <2>3 DEF Executor!vars
<1> QED BY <1>1, <1>2, <1>3, <1>4 DEF Next, PushStep, WorkStep

\* JobQueue, with its counter, worker threads and wake-ups, implements the
\* serial executor the game code relies on.
THEOREM ImplementsExecutor == Spec => ExecutorSpec
<1>1. Init => Executor!Init
  <2> SUFFICES ASSUME Init PROVE Executor!Init
      OBVIOUS
  <2>1. \A q \in Queues : RunningJob(q) = NoJob
      BY DEF Init, RunningJob, WorkerOf
  <2> QED BY <2>1 DEF Init, Executor!Init
<1>2. Inv /\ Inv' /\ [Next]_vars => [Executor!Next]_(Executor!vars)
    BY ExecutorStep DEF Inv, TokenInv
<1> QED BY <1>1, <1>2, Invariance, PTL DEF Spec, ExecutorSpec, Executor!Spec

-------------------------------------------------------------------------------
(* The count.  mJobCount is the number of jobs a queue owes: those in it,    *)
(* the one a worker executes, and those counted but not yet enqueued.        *)

Contains(s, k) == \E i \in 1..Len(s) : s[i] = k
Waits(q, p, k) == Contains(mQueue[q][p], k)
Executes(w, q, j) == wPc[w] = "exec" /\ wQueue[w] = q /\ wJob[w] = j
Enqueues(p, q, k) == pPc[p] = "enqueue" /\ pQueue[p] = q /\ pushed[p] = k
Owes(q, j) == \/ Waits(q, j[1], j[2])
              \/ \E w \in Workers : Executes(w, q, j)
              \/ Enqueues(j[1], q, j[2])
Owed(q) == {j \in Jobs : Owes(q, j)}

CountInv == \A q \in Queues : IsFiniteSet(Owed(q)) /\ jobCount[q] = Cardinality(Owed(q))

LEMMA ContainsAppend ==
    ASSUME NEW s \in Seq(Nat), NEW k \in Nat, NEW n
    PROVE  Contains(Append(s, k), n) <=> Contains(s, n) \/ n = k
<1> DEFINE t == Append(s, k)
<1>1. /\ Len(s) \in Nat /\ Len(t) = Len(s) + 1 /\ t[Len(s) + 1] = k
      /\ \A i \in 1..Len(s) : t[i] = s[i]
    OBVIOUS
<1> HIDE DEF t
<1>2. Len(s) + 1 \in 1..Len(t) /\ \A i \in 1..Len(t) : i \in 1..Len(s) \/ i = Len(s) + 1
    BY <1>1
<1>3. \A i \in 1..Len(s) : i \in 1..Len(t)
    BY <1>1
<1> QED BY <1>1, <1>2, <1>3 DEF Contains, t

LEMMA ContainsTail ==
    ASSUME NEW s \in Seq(Nat), s # <<>>, NEW n
    PROVE  Contains(s, n) <=> Contains(Tail(s), n) \/ n = Head(s)
<1> DEFINE t == Tail(s)
<1>1. /\ Len(s) \in Nat \ {0} /\ Len(t) = Len(s) - 1 /\ Head(s) = s[1]
      /\ \A i \in 1..Len(t) : t[i] = s[i + 1]
    OBVIOUS
<1> HIDE DEF t
<1>2. 1 \in 1..Len(s) /\ \A i \in 1..Len(t) : i + 1 \in 1..Len(s)
    BY <1>1
<1>3. \A i \in 1..Len(s) : i # 1 => i - 1 \in 1..Len(t) /\ s[i] = t[i - 1]
    BY <1>1
<1> QED BY <1>1, <1>2, <1>3 DEF Contains, t

LEMMA InitCount == Init => CountInv
<1> SUFFICES ASSUME Init, NEW q \in Queues PROVE IsFiniteSet(Owed(q)) /\ jobCount[q] = Cardinality(Owed(q))
    BY DEF CountInv
<1>1. ASSUME NEW j \in Jobs PROVE ~Owes(q, j)
  <2>1. j[1] \in Pushers
      BY JobPieces
  <2>2. mQueue[q][j[1]] = <<>> /\ pPc[j[1]] = "idle" /\ \A w \in Workers : wPc[w] = "drain"
      BY <2>1 DEF Init
  <2> QED BY <2>2 DEF Owes, Waits, Contains, Executes, Enqueues
<1>2. Owed(q) = {}
    BY <1>1 DEF Owed
<1> QED BY <1>2, FS_EmptySet DEF Init

\* A step that owes what was owed before and leaves the count alone.
LEMMA CountFrame ==
    ASSUME CountInv, NEW q \in Queues, jobCount'[q] = jobCount[q],
           \A j \in Jobs : Owes(q, j)' <=> Owes(q, j)
    PROVE  IsFiniteSet(Owed(q)') /\ jobCount'[q] = Cardinality(Owed(q)')
<1>1. Owed(q)' = Owed(q)
    BY DEF Owed, Jobs
<1> QED BY <1>1 DEF CountInv

LEMMA CountPush ==
    ASSUME Inv, OrderInv, CountInv, NEW p \in Pushers, NEW r \in Queues, PushCount(p, r)
    PROVE  CountInv'
<1> DEFINE k == pushed[p] + 1
           job == <<p, k>>
<1>0. TypeOK /\ PcInv
    BY DEF Inv
<1>1. /\ k \in 1..MaxPush /\ pushed[p] \in Nat /\ pPc[p] = "idle"
      /\ pPc'[p] = "enqueue" /\ pQueue'[p] = r /\ pushed'[p] = k
      /\ \A o \in Pushers : o # p => pPc'[o] = pPc[o] /\ pQueue'[o] = pQueue[o] /\ pushed'[o] = pushed[o]
      /\ UNCHANGED <<mQueue, wPc, wQueue, wJob>>
      /\ jobCount'[r] = jobCount[r] + 1
      /\ \A q \in Queues : q # r => jobCount'[q] = jobCount[q]
  <2>1. /\ pPc[p] = "idle" /\ pushed[p] < MaxPush /\ pushed' = [pushed EXCEPT ![p] = @ + 1]
        /\ pQueue' = [pQueue EXCEPT ![p] = r] /\ jobCount' = [jobCount EXCEPT ![r] = @ + 1]
        /\ pPc' = [pPc EXCEPT ![p] = "enqueue"] /\ UNCHANGED <<mQueue, wPc, wQueue, wJob>>
      BY DEF PushCount, workerVars
  <2>2. /\ pushed \in [Pushers -> 0..MaxPush] /\ pQueue \in [Pushers -> Queues \cup {NoQueue}]
        /\ pPc \in [Pushers -> {"idle", "enqueue", "register", "setWaked", "wake"}]
        /\ jobCount \in [Queues -> Nat]
      BY <1>0 DEF TypeOK
  <2>3. pushed[p] \in Nat /\ k \in 1..MaxPush
      BY <2>1, <2>2, MaxPushAssumption
  <2> QED BY <2>1, <2>2, <2>3
<1>2. job \in Jobs /\ job[1] = p /\ job[2] = k
    BY <1>1 DEF Jobs
<1> HIDE DEF k
<1>3. ~Owes(r, job)
  <2>1. ~Waits(r, p, k)
    <3>1. UpTo(mQueue[r][p], pushed[p]) /\ mQueue[r][p] \in Seq(Nat)
        BY <1>0, <1>1, OrderTypes DEF OrderInv, Ordered, Newest
    <3>2. ASSUME NEW i \in 1..Len(mQueue[r][p]) PROVE mQueue[r][p][i] # k
      <4>1. mQueue[r][p][i] \in Nat /\ mQueue[r][p][i] <= pushed[p]
          BY <3>1, ElementOfSeq DEF UpTo
      <4>2. k = pushed[p] + 1 /\ pushed[p] \in Nat
          BY <1>1 DEF k
      <4> QED BY <4>1, <4>2
    <3> QED BY <3>2 DEF Waits, Contains
  <2>2. \A w \in Workers : ~Executes(w, r, job)
    <3>1. ASSUME NEW w \in Workers, Executes(w, r, job) PROVE FALSE
      <4>1. Between(r, p, k)
          BY <1>2, <3>1 DEF OrderInv, Executes
      <4> QED BY <1>1, <4>1 DEF Between, Newest, k
    <3> QED BY <3>1
  <2> QED BY <1>1, <1>2, <2>1, <2>2 DEF Owes, Enqueues
<1>4. ASSUME NEW q \in Queues, NEW j \in Jobs
      PROVE  Owes(q, j)' <=> Owes(q, j) \/ (q = r /\ j = job)
  <2>1. j[1] \in Pushers /\ j = <<j[1], j[2]>>
      BY JobPieces
  <2>2. /\ Waits(q, j[1], j[2])' <=> Waits(q, j[1], j[2])
        /\ \A w \in Workers : Executes(w, q, j)' <=> Executes(w, q, j)
      BY <1>1 DEF Waits, Executes
  <2>3. Enqueues(j[1], q, j[2])' <=> Enqueues(j[1], q, j[2]) \/ (q = r /\ j = job)
      BY <1>1, <1>2, <2>1 DEF Enqueues
  <2> QED BY <2>2, <2>3 DEF Owes
<1>5. Owed(r)' = Owed(r) \cup {job} /\ job \notin Owed(r)
    BY <1>2, <1>3, <1>4 DEF Owed, Jobs
<1>6. IsFiniteSet(Owed(r)') /\ jobCount'[r] = Cardinality(Owed(r)')
  <2>1. IsFiniteSet(Owed(r)) /\ jobCount[r] = Cardinality(Owed(r))
      BY DEF CountInv
  <2>2. IsFiniteSet(Owed(r) \cup {job}) /\ Cardinality(Owed(r) \cup {job}) = Cardinality(Owed(r)) + 1
      BY <1>5, <2>1, FS_AddElement
  <2> QED BY <1>1, <1>5, <2>1, <2>2
<1>7. ASSUME NEW q \in Queues, q # r PROVE IsFiniteSet(Owed(q)') /\ jobCount'[q] = Cardinality(Owed(q)')
    BY <1>1, <1>4, <1>7, CountFrame
<1> QED BY <1>6, <1>7 DEF CountInv

LEMMA CountEnqueue ==
    ASSUME Inv, CountInv, NEW p \in Pushers, PushEnqueue(p)
    PROVE  CountInv'
<1>0. TypeOK /\ PcInv
    BY DEF Inv
<1>1. PICK r \in Queues, k \in Nat : r = pQueue[p] /\ k = pushed[p]
    BY <1>0 DEF PushEnqueue, TypeOK, PcInv
<1>2. /\ pPc[p] = "enqueue" /\ pPc'[p] # "enqueue"
      /\ \A o \in Pushers : o # p => pPc'[o] = pPc[o]
      /\ mQueue'[r][p] = Append(mQueue[r][p], k)
      /\ \A q \in Queues, o \in Pushers : q # r \/ o # p => mQueue'[q][o] = mQueue[q][o]
      /\ UNCHANGED <<pQueue, pushed, wPc, wQueue, wJob, jobCount>>
    BY <1>0, <1>1 DEF PushEnqueue, TypeOK, workerVars
<1>3. ASSUME NEW q \in Queues, NEW j \in Jobs PROVE Owes(q, j)' <=> Owes(q, j)
  <2>1. j[1] \in Pushers
      BY JobPieces
  <2>2. \A w \in Workers : Executes(w, q, j)' <=> Executes(w, q, j)
      BY <1>2 DEF Executes
  <2>3. CASE q = r /\ j[1] = p
    <3>1. Waits(q, j[1], j[2])' <=> Waits(q, j[1], j[2]) \/ j[2] = k
      <4>1. mQueue[r][p] \in Seq(Nat)
          BY <1>0, OrderTypes
      <4>2. Contains(Append(mQueue[r][p], k), j[2]) <=> Contains(mQueue[r][p], j[2]) \/ j[2] = k
          BY <4>1, ContainsAppend
      <4> QED BY <1>2, <2>3, <4>2 DEF Waits
    <3>2. (Enqueues(j[1], q, j[2]) <=> j[2] = k) /\ ~Enqueues(j[1], q, j[2])'
        BY <1>1, <1>2, <2>3 DEF Enqueues
    <3> QED BY <2>2, <3>1, <3>2 DEF Owes
  <2>4. CASE q # r \/ j[1] # p
    <3>1. Waits(q, j[1], j[2])' <=> Waits(q, j[1], j[2])
        BY <1>2, <2>1, <2>4 DEF Waits
    <3>2. Enqueues(j[1], q, j[2])' <=> Enqueues(j[1], q, j[2])
        BY <1>1, <1>2, <2>1, <2>4 DEF Enqueues
    <3> QED BY <2>2, <3>1, <3>2 DEF Owes
  <2> QED BY <2>3, <2>4
<1> QED BY <1>2, <1>3, CountFrame DEF CountInv

LEMMA CountStart ==
    ASSUME Inv, CountInv, NEW w \in Workers, NEW p \in Pushers, StartJob(w, p)
    PROVE  CountInv'
<1>0. TypeOK /\ PcInv
    BY DEF Inv
<1>1. PICK r \in Queues : r = wQueue[w]
    BY <1>0 DEF StartJob, PcInv
<1> DEFINE s == mQueue[r][p]
<1>2. s \in Seq(Nat) /\ s # <<>>
    BY <1>0, <1>1, OrderTypes DEF StartJob
<1>3. /\ wPc[w] = "flush" /\ wPc'[w] = "exec" /\ wJob'[w] = <<p, Head(s)>>
      /\ \A v \in Workers : v # w => wPc'[v] = wPc[v] /\ wJob'[v] = wJob[v]
      /\ mQueue'[r][p] = Tail(s)
      /\ \A q \in Queues, o \in Pushers : q # r \/ o # p => mQueue'[q][o] = mQueue[q][o]
      /\ UNCHANGED <<pQueue, pPc, pushed, wQueue, jobCount>>
    BY <1>0, <1>1 DEF StartJob, TypeOK, pusherVars
<1>4. \A n : Contains(s, n) <=> Contains(Tail(s), n) \/ n = Head(s)
    BY <1>2, ContainsTail
<1> HIDE DEF s
<1>5. ASSUME NEW q \in Queues, NEW j \in Jobs PROVE Owes(q, j)' <=> Owes(q, j)
  <2>1. j[1] \in Pushers /\ j = <<j[1], j[2]>>
      BY JobPieces
  <2>2. Enqueues(j[1], q, j[2])' <=> Enqueues(j[1], q, j[2])
      BY <1>3 DEF Enqueues
  <2>3. /\ \A v \in Workers : v # w => (Executes(v, q, j)' <=> Executes(v, q, j))
        /\ ~Executes(w, q, j)
        /\ Executes(w, q, j)' <=> q = r /\ j = <<p, Head(s)>>
      BY <1>1, <1>3 DEF Executes
  <2>4. CASE q = r /\ j[1] = p
    <3>1. Waits(q, j[1], j[2]) <=> Waits(q, j[1], j[2])' \/ j[2] = Head(s)
        BY <1>3, <1>4, <2>4 DEF Waits, s
    <3>2. Executes(w, q, j)' <=> j[2] = Head(s)
        BY <2>1, <2>3, <2>4
    <3> QED BY <2>2, <2>3, <3>1, <3>2 DEF Owes
  <2>5. CASE q # r \/ j[1] # p
    <3>1. Waits(q, j[1], j[2])' <=> Waits(q, j[1], j[2])
        BY <1>3, <2>1, <2>5 DEF Waits
    <3>2. ~Executes(w, q, j)'
        BY <2>3, <2>5
    <3> QED BY <2>2, <2>3, <3>1, <3>2 DEF Owes
  <2> QED BY <2>4, <2>5
<1> QED BY <1>3, <1>5, CountFrame DEF CountInv

\* The finished job was owed once: the jobs that wait or come are newer, and
\* nobody else executes one of the same queue.
LEMMA CountFinish ==
    ASSUME Inv, OrderInv, CountInv, NEW w \in Workers, FinishJob(w)
    PROVE  CountInv'
<1>0. TypeOK /\ PcInv /\ SerialExecution
    BY DEF Inv, TokenInv
<1>1. PICK r \in Queues, p \in Pushers, k \in 1..MaxPush :
          r = wQueue[w] /\ wJob[w] = <<p, k>> /\ wPc[w] = "exec"
    BY <1>0, OrderTypes DEF FinishJob
<1> DEFINE job == <<p, k>>
<1>2. job \in Jobs /\ job[1] = p /\ job[2] = k /\ k \in Nat
    BY MaxPushAssumption DEF Jobs
<1>3. /\ wPc'[w] # "exec"
      /\ \A v \in Workers : v # w => wPc'[v] = wPc[v] /\ wJob'[v] = wJob[v] /\ wQueue'[v] = wQueue[v]
      /\ UNCHANGED <<mQueue, pPc, pQueue, pushed>>
      /\ jobCount' = [jobCount EXCEPT ![r] = @ - 1]
    BY <1>0, <1>1 DEF FinishJob, AfterJob, TypeOK, pusherVars
<1>4. Between(r, p, k) /\ Newest(p) \in Nat /\ mQueue[r][p] \in Seq(Nat)
    BY <1>0, <1>1, <1>2, OrderTypes DEF OrderInv
<1>5. ~Waits(r, p, k)
  <2>1. \A i \in 1..Len(mQueue[r][p]) : mQueue[r][p][i] # k
    <3>1. \A i \in 1..Len(mQueue[r][p]) : mQueue[r][p][i] \in Nat /\ k < mQueue[r][p][i]
        BY <1>4 DEF Between, Above
    <3> QED BY <1>2, <3>1
  <2> QED BY <2>1 DEF Waits, Contains
<1>6. ~Enqueues(p, r, k)
    BY <1>2, <1>4 DEF Between, Newest, Enqueues
<1>7. \A v \in Workers, j \in Jobs : Executes(v, r, j) => v = w /\ j = job
    BY <1>0, <1>1 DEF Executes, SerialExecution, Holds
<1>8. Executes(w, r, job)
    BY <1>1 DEF Executes
<1>9. ASSUME NEW q \in Queues, NEW j \in Jobs
      PROVE  /\ Waits(q, j[1], j[2])' <=> Waits(q, j[1], j[2])
             /\ Enqueues(j[1], q, j[2])' <=> Enqueues(j[1], q, j[2])
             /\ \A v \in Workers : Executes(v, q, j)' <=> Executes(v, q, j) /\ v # w
    BY <1>3 DEF Waits, Enqueues, Executes
<1>10. ASSUME NEW j \in Jobs PROVE Owes(r, j)' <=> Owes(r, j) /\ j # job
    BY <1>2, <1>5, <1>6, <1>7, <1>9 DEF Owes
<1>11. Owed(r)' = Owed(r) \ {job} /\ job \in Owed(r)
    BY <1>2, <1>8, <1>10 DEF Owed, Owes, Jobs
<1>12. IsFiniteSet(Owed(r)') /\ jobCount'[r] = Cardinality(Owed(r)')
  <2>1. IsFiniteSet(Owed(r)) /\ jobCount[r] = Cardinality(Owed(r))
      BY DEF CountInv
  <2>2. IsFiniteSet(Owed(r) \ {job}) /\ Cardinality(Owed(r) \ {job}) = Cardinality(Owed(r)) - 1
      BY <1>11, <2>1, FS_RemoveElement
  <2>3. jobCount'[r] = jobCount[r] - 1
      BY <1>0, <1>3 DEF TypeOK
  <2> QED BY <1>11, <2>1, <2>2, <2>3
<1>13. ASSUME NEW q \in Queues, q # r PROVE IsFiniteSet(Owed(q)') /\ jobCount'[q] = Cardinality(Owed(q)')
  <2>1. \A j \in Jobs : ~Executes(w, q, j)
      BY <1>1, <1>13 DEF Executes
  <2>2. \A j \in Jobs : Owes(q, j)' <=> Owes(q, j)
      BY <1>9, <2>1 DEF Owes
  <2>3. jobCount'[q] = jobCount[q]
      BY <1>0, <1>3, <1>13 DEF TypeOK
  <2> QED BY <2>2, <2>3, CountFrame
<1> QED BY <1>12, <1>13 DEF CountInv

LEMMA NextCount == Inv /\ OrderInv /\ CountInv /\ [Next]_vars => CountInv'
<1> SUFFICES ASSUME Inv, OrderInv, CountInv, [Next]_vars PROVE CountInv'
    OBVIOUS
<1>0. /\ pPc \in [Pushers -> {"idle", "enqueue", "register", "setWaked", "wake"}]
      /\ wPc \in [Workers -> {"drain", "flush", "exec", "requeue", "check", "asleep", "woken"}]
      /\ wQueue \in [Workers -> Queues \cup {NoQueue}]
    BY DEF Inv, TypeOK
<1>1. ASSUME \/ \E p \in Pushers : RegisterEnqueue(p) \/ RegisterSetWaked(p) \/ RegisterWake(p)
             \/ \E w \in Workers : \/ DrainEmpty(w) \/ DequeueFails(w) \/ CheckWaked(w)
                                    \/ Resume(w) \/ SpuriousWake(w) \/ Requeue(w)
                                    \/ \E q \in Queues : TakeQueue(w, q)
             \/ UNCHANGED vars
      PROVE  CountInv'
  <2> USE DEF DrainEmpty, DequeueFails, CheckWaked, MustSleep, Resume, SpuriousWake, Requeue, TakeQueue, Listed,
              RegisterEnqueue, RegisterSetWaked, RegisterWake
  <2>1. UNCHANGED <<jobCount, mQueue, pQueue, pushed, wJob>>
      BY <1>1 DEF vars, queueVars, workerVars, pusherVars
  <2>2. \A w \in Workers : /\ wPc'[w] = "exec" <=> wPc[w] = "exec"
                           /\ wPc[w] = "exec" => wQueue'[w] = wQueue[w]
      BY <1>0, <1>1 DEF vars, workerVars
  <2>3. \A p \in Pushers : pPc'[p] = "enqueue" <=> pPc[p] = "enqueue"
      BY <1>0, <1>1 DEF vars, pusherVars
  <2>4. ASSUME NEW q \in Queues, NEW j \in Jobs PROVE Owes(q, j)' <=> Owes(q, j)
    <3>1. j[1] \in Pushers
        BY JobPieces
    <3> QED BY <2>1, <2>2, <2>3, <3>1 DEF Owes, Waits, Executes, Enqueues
  <2> QED BY <2>1, <2>4, CountFrame DEF CountInv
<1> QED BY <1>1, CountPush, CountEnqueue, CountStart, CountFinish DEF Next, PushStep, WorkStep

\* A worker that finds nothing holds a queue that counts a job: as it executes
\* none and none is there, one is counted and not yet enqueued.
LEMMA NextCrash == Inv /\ CountInv /\ CrashOnlyInsidePush /\ [Next]_vars => CrashOnlyInsidePush'
<1> SUFFICES ASSUME Inv, CountInv, CrashOnlyInsidePush, [Next]_vars PROVE CrashOnlyInsidePush'
    OBVIOUS
<1>0. TypeOK /\ PcInv /\ TokenInv /\ SerialExecution
    BY DEF Inv, TokenInv
<1>1. ASSUME NEW w \in Workers, DequeueFails(w) PROVE CrashOnlyInsidePush'
  <2>1. PICK q \in Queues : q = wQueue[w] /\ Holds(w, q) /\ wPc[w] = "flush"
      BY <1>0, <1>1 DEF DequeueFails, PcInv, Holds
  <2>2. jobCount[q] # 0
      BY <1>0, <2>1 DEF TokenInv
  <2>3. PICK j \in Jobs : Owes(q, j)
      BY <2>2, FS_EmptySet DEF CountInv, Owed
  <2>4. j[1] \in Pushers
      BY JobPieces
  <2>5. ~Waits(q, j[1], j[2])
      BY <1>1, <2>1, <2>4 DEF DequeueFails, Waits, Contains
  <2>6. \A v \in Workers : ~Executes(v, q, j)
      BY <1>0, <2>1 DEF SerialExecution, Holds, Executes
  <2>7. pPc[j[1]] = "enqueue" /\ pQueue[j[1]] = wQueue[w]
      BY <2>1, <2>3, <2>5, <2>6 DEF Owes, Enqueues
  <2> QED BY <1>1, <2>1, <2>4, <2>7 DEF DequeueFails, pusherVars, workerVars, CrashOnlyInsidePush
<1>2. CASE crashed
    BY <1>2 DEF Next, PushStep, WorkStep, PushCount, PushEnqueue, RegisterEnqueue, RegisterSetWaked, RegisterWake,
                TakeQueue, DrainEmpty, StartJob, DequeueFails, FinishJob, Requeue, CheckWaked, Resume, SpuriousWake,
                vars, pusherVars, workerVars, CrashOnlyInsidePush
<1>3. CASE ~crashed /\ ~\E w \in Workers : DequeueFails(w)
  <2>1. crashed' = crashed
      BY <1>3 DEF Next, PushStep, WorkStep, PushCount, PushEnqueue, RegisterEnqueue, RegisterSetWaked, RegisterWake,
                  TakeQueue, DrainEmpty, StartJob, FinishJob, Requeue, CheckWaked, Resume, SpuriousWake, vars
  <2> QED BY <1>3, <2>1 DEF CrashOnlyInsidePush
<1> QED BY <1>1, <1>2, <1>3

\* TryFlush finds no job (Queue.cpp:62) only while a push to that queue has
\* counted its job and not enqueued it (Queue.cpp:29-30), whatever the number of
\* threads and queues: but for that window mJobCount is the number of jobs there.
THEOREM CrashOnlyInsidePushHolds == Spec => []CrashOnlyInsidePush
<1>1. Init => CountInv /\ CrashOnlyInsidePush
    BY InitCount DEF Init, CrashOnlyInsidePush
<1>2. Inv /\ OrderInv /\ CountInv /\ CrashOnlyInsidePush /\ [Next]_vars => CountInv' /\ CrashOnlyInsidePush'
    BY NextCount, NextCrash
<1> QED BY <1>1, <1>2, OrderInvariance, PTL DEF Spec
===============================================================================

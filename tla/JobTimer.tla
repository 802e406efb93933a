------------------------------ MODULE JobTimer ------------------------------
(***************************************************************************)
(* The job timer (Core/Job/Timer.cpp) with the periodic loops that use it: *)
(* Room::StartBroadcastLoop and Player::StartSendLoop, which schedule      *)
(* themselves through JobSerializer::ScheduleJob.                          *)
(*                                                                         *)
(* Time is discrete and relative: a tick still to come is kept as the time *)
(* left until it, 0 when it has been reached, and Tick lets all of them    *)
(* shrink at once.  One action is one critical section of the timer's      *)
(* lock, one reading of the clock or one call; the scan of Distribute is   *)
(* atomic, at its last reading of the clock.  A loop's JobQueue is the     *)
(* SerialExecutor it implements.                                           *)
(***************************************************************************)
EXTENDS Naturals, Sequences, FiniteSets, FiniteSetsExt

CONSTANTS Loops,       \* room or player with a periodic loop
          Players,     \* the loops among them that end with their player
          LoopMs,      \* loopMs of each loop
          kMaxWaitMs,  \* JobTimer::kMaxWaitMs
          MaxDelay     \* bound: time that passes while the timer thread is on its way
                       \* from one reading of the clock to the next

ASSUME PeriodAssumption == LoopMs \in [Loops -> Nat \ {0}]
ASSUME PlayersAssumption == Players \subseteq Loops
ASSUME WaitAssumption == kMaxWaitMs \in Nat /\ MaxDelay \in Nat

VARIABLES
    runner,          \* where the thread that runs each loop's turn stands
    caller,          \* "main" for the first turn of a loop, "worker" for a job
    nextIn,          \* time left until nextTick of the turn
    delay,           \* delayMs of the turn, then the time left until its execTick
    queued,          \* jobs in the loop's JobQueue
    wakers,          \* threads between the lock and WakeConditionVariable in Schedule
    mScheduledItems, \* pairs of a loop and the time left until execTick
    mExecItems,
    mWaked,
    timer,           \* where the timer thread stands
    pushed,          \* items of mExecItems pushed
    waitMs,          \* waitMs in Distribute and Run; asleep: time left until the time-out
    elapsed,         \* time since startTick
    drift            \* history: time since the scan that waitMs does not account for

loopVars == <<runner, caller, nextIn, delay>>
timerVars == <<timer, pushed, waitMs, elapsed, drift, mExecItems>>
vars == <<loopVars, queued, wakers, mScheduledItems, mWaked, timerVars>>

Init ==
    /\ runner = [l \in Loops |-> "begin"]
    /\ caller = [l \in Loops |-> "main"]
    /\ nextIn = [l \in Loops |-> 0]
    /\ delay = [l \in Loops |-> 0]
    /\ queued = [l \in Loops |-> 0]
    /\ wakers = {}
    /\ mScheduledItems = {}
    /\ mExecItems = <<>>
    /\ mWaked = FALSE
    /\ timer = "scan"
    /\ pushed = 0
    /\ waitMs = 0
    /\ elapsed = 0
    /\ drift = 0

Sooner(t) == IF t = 0 THEN 0 ELSE t - 1

-------------------------------------------------------------------------------
(* A loop's turn                                                           *)

At(l, label) == runner[l] = label
Goto(l, label) == runner' = [runner EXCEPT ![l] = label]

\* A worker executes the loop's job; the queue runs one job at a time.
Execute(l) ==
    /\ At(l, "idle")
    /\ queued[l] > 0
    /\ <<l, "worker">> \notin wakers
    /\ queued' = [queued EXCEPT ![l] = @ - 1]
    /\ caller' = [caller EXCEPT ![l] = "worker"]
    /\ Goto(l, "begin")
    /\ UNCHANGED <<nextIn, delay, wakers, mScheduledItems, mWaked, timerVars>>

\* nextTick, then the loop's buffer goes to everyone in the room, or to the player.
Begin(l) ==
    /\ At(l, "begin")
    /\ nextIn' = [nextIn EXCEPT ![l] = LoopMs[l]]
    /\ Goto(l, "sending")
    /\ UNCHANGED <<caller, delay, queued, wakers, mScheduledItems, mWaked, timerVars>>

\* FindPlayer finds nobody: the loop ends.
EndLoop(l) ==
    /\ l \in Players
    /\ At(l, "begin")
    /\ Goto(l, "ended")
    /\ UNCHANGED <<caller, nextIn, delay, queued, wakers, mScheduledItems, mWaked, timerVars>>

\* delayMs = nextTick - GetTickCount64()
TakeDelay(l) ==
    /\ At(l, "sending")
    /\ delay' = [delay EXCEPT ![l] = nextIn[l]]
    /\ Goto(l, IF nextIn[l] = 0 THEN "push" ELSE "schedule")
    /\ UNCHANGED <<caller, nextIn, queued, wakers, mScheduledItems, mWaked, timerVars>>

\* ScheduleJob without delay: straight into the queue
PushJob(l) ==
    /\ At(l, "push")
    /\ queued' = [queued EXCEPT ![l] = @ + 1]
    /\ delay' = [delay EXCEPT ![l] = 0]
    /\ Goto(l, "idle")
    /\ UNCHANGED <<caller, nextIn, wakers, mScheduledItems, mWaked, timerVars>>

\* Schedule: execTick = GetTickCount64() + delayMs; from here delay runs down
TakeExecTick(l) ==
    /\ At(l, "schedule")
    /\ Goto(l, "insert")
    /\ UNCHANGED <<caller, nextIn, delay, queued, wakers, mScheduledItems, mWaked, timerVars>>

Insert(l) ==
    /\ At(l, "insert")
    /\ mScheduledItems' = mScheduledItems \cup {<<l, delay[l]>>}
    /\ mWaked' = TRUE
    /\ wakers' = wakers \cup {<<l, caller[l]>>}
    /\ delay' = [delay EXCEPT ![l] = 0]
    /\ Goto(l, "idle")
    /\ UNCHANGED <<caller, nextIn, queued, timerVars>>

\* WakeConditionVariable
Wake(w) ==
    /\ w \in wakers
    /\ wakers' = wakers \ {w}
    /\ timer' = IF timer = "asleep" THEN "woken" ELSE timer
    /\ UNCHANGED <<loopVars, queued, mScheduledItems, mWaked, pushed, waitMs, elapsed, drift, mExecItems>>

-------------------------------------------------------------------------------
(* The timer thread                                                        *)

\* nowTick >= execTick; mutant: one tick early
Due_Early(item) == item[2] <= 1
Due(item) == item[2] = 0

\* Distribute: all due items, and the time until the next one
Scan ==
    /\ timer = "scan"
    /\ LET due == {item \in mScheduledItems : Due(item)}
           rest == mScheduledItems \ due
       IN /\ \E order \in [1..Cardinality(due) -> due] :
                /\ \A i, j \in DOMAIN order : i # j => order[i] # order[j]
                /\ mExecItems' = mExecItems \o [i \in DOMAIN order |-> order[i][1]]
          /\ mScheduledItems' = rest
          /\ waitMs' = IF rest = {} THEN kMaxWaitMs ELSE Min({item[2] : item \in rest})
    /\ timer' = "start"
    /\ drift' = 0
    /\ UNCHANGED <<loopVars, queued, wakers, mWaked, pushed, elapsed>>

\* startTick
TakeStartTick ==
    /\ timer = "start"
    /\ timer' = "push"
    /\ elapsed' = 0
    /\ pushed' = 0
    /\ UNCHANGED <<loopVars, queued, wakers, mScheduledItems, mWaked, waitMs, drift, mExecItems>>

PushItem ==
    /\ timer = "push"
    /\ pushed < Len(mExecItems)
    /\ pushed' = pushed + 1
    /\ queued' = [queued EXCEPT ![mExecItems[pushed + 1]] = @ + 1]
    /\ UNCHANGED <<loopVars, wakers, mScheduledItems, mWaked, timer, waitMs, elapsed, drift, mExecItems>>

\* mExecItems.clear(); mutant: the items stay for the next round
ClearedItems_Kept == mExecItems
ClearedItems == <<>>

\* waitMs after the time the pushes took
Remaining == IF waitMs >= elapsed THEN waitMs - elapsed ELSE 0

\* endTick
TakeEndTick ==
    /\ timer = "push"
    /\ pushed = Len(mExecItems)
    /\ mExecItems' = ClearedItems
    /\ waitMs' = Remaining
    /\ pushed' = 0
    /\ elapsed' = 0
    /\ timer' = "check"
    /\ UNCHANGED <<loopVars, queued, wakers, mScheduledItems, mWaked, drift>>

\* Mutant: the flag is not looked at.
MustSleep_Always == TRUE
MustSleep == ~mWaked

\* Run under the lock: sleep, or go on because something was scheduled meanwhile
Check ==
    /\ timer = "check"
    /\ IF MustSleep
       THEN timer' = "asleep" /\ UNCHANGED <<mWaked, waitMs>>
       ELSE timer' = "scan" /\ mWaked' = FALSE /\ waitMs' = 0
    /\ UNCHANGED <<loopVars, queued, wakers, mScheduledItems, pushed, elapsed, drift, mExecItems>>

\* SleepConditionVariableSRW runs out of time; mutant: INFINITE instead of waitMs
TimedOut_Never == FALSE
TimedOut == waitMs = 0

TimeOut ==
    /\ timer = "asleep"
    /\ TimedOut
    /\ timer' = "woken"
    /\ UNCHANGED <<loopVars, queued, wakers, mScheduledItems, mWaked, pushed, waitMs, elapsed, drift, mExecItems>>

\* Condition variables may return for no reason.
SpuriousWake ==
    /\ timer = "asleep"
    /\ timer' = "woken"
    /\ UNCHANGED <<loopVars, queued, wakers, mScheduledItems, mWaked, pushed, waitMs, elapsed, drift, mExecItems>>

\* The lock is taken again and the flag reset.
Resume ==
    /\ timer = "woken"
    /\ timer' = "scan"
    /\ mWaked' = FALSE
    /\ waitMs' = 0
    /\ UNCHANGED <<loopVars, queued, wakers, mScheduledItems, pushed, elapsed, drift, mExecItems>>

-------------------------------------------------------------------------------
\* A tick of GetTickCount64
Tick ==
    /\ timer = "push" => elapsed < MaxDelay
    /\ timer \in {"start", "check"} => drift < MaxDelay
    /\ nextIn' = [l \in Loops |-> Sooner(nextIn[l])]
    /\ delay' = [l \in Loops |-> IF At(l, "insert") THEN Sooner(delay[l]) ELSE delay[l]]
    /\ mScheduledItems' = {<<item[1], Sooner(item[2])>> : item \in mScheduledItems}
    /\ elapsed' = IF timer = "push" THEN elapsed + 1 ELSE elapsed
    /\ drift' = IF timer \in {"start", "check"} THEN drift + 1 ELSE drift
    /\ waitMs' = IF timer = "asleep" THEN Sooner(waitMs) ELSE waitMs
    /\ UNCHANGED <<runner, caller, queued, wakers, mExecItems, mWaked, timer, pushed>>

Turn(l) == Execute(l) \/ Begin(l) \/ EndLoop(l) \/ TakeDelay(l) \/ PushJob(l) \/ TakeExecTick(l) \/ Insert(l)
WakeAny == \E w \in wakers : Wake(w)
TimerStep == Scan \/ TakeStartTick \/ PushItem \/ TakeEndTick \/ Check \/ TimeOut \/ Resume

Next == (\E l \in Loops : Turn(l)) \/ WakeAny \/ TimerStep \/ SpuriousWake \/ Tick

Spec == Init /\ [][Next]_vars

\* The workers, the timer thread and the clock go on; a player need not leave.
FairSpec == /\ Spec
            /\ \A l \in Loops : WF_vars(Turn(l) /\ ~EndLoop(l))
            /\ \A w \in Loops \X {"main", "worker"} : WF_vars(Wake(w))
            /\ WF_vars(TimerStep)
            /\ WF_vars(Tick)

-------------------------------------------------------------------------------
(* Properties                                                              *)

\* Type correctness of the timer, its items and the loops.
TypeOK ==
    /\ runner \in [Loops -> {"idle", "begin", "sending", "push", "schedule", "insert", "ended"}]
    /\ caller \in [Loops -> {"main", "worker"}]
    /\ nextIn \in [Loops -> Nat] /\ \A l \in Loops : nextIn[l] <= LoopMs[l]
    /\ delay \in [Loops -> Nat] /\ \A l \in Loops : delay[l] <= LoopMs[l]
    /\ queued \in [Loops -> Nat]
    /\ wakers \subseteq Loops \X {"main", "worker"}
    /\ mScheduledItems \subseteq Loops \X Nat
    /\ mExecItems \in Seq(Loops)
    /\ mWaked \in BOOLEAN
    /\ timer \in {"scan", "start", "push", "check", "asleep", "woken"}
    /\ pushed \in 0..Len(mExecItems)
    /\ waitMs \in Nat
    /\ elapsed \in 0..MaxDelay
    /\ drift \in 0..MaxDelay

\* Jobs by which loop l goes on, wherever they are.
Turns(l) == (IF runner[l] = "idle" THEN 0 ELSE 1)
            + queued[l]
            + Cardinality({item \in mScheduledItems : item[1] = l})
            + Cardinality({i \in DOMAIN mExecItems : i > pushed /\ mExecItems[i] = l})

\* A loop always has exactly one turn: running, scheduled, between the timer and
\* the queue, or queued.  The timer neither loses a job nor hands it out twice.
OneTurn == \A l \in Loops : Turns(l) = 1

\* A turn never comes before the period that began with the last one is over.
NotTooSoon == \A l \in Loops : queued[l] > 0 => nextIn[l] = 0

\* The timer does not sleep past an item: it wakes before the item is due, or
\* late by no more than the time its own thread lost after the scan.  A job
\* scheduled meanwhile either keeps it awake or is followed by a wake-up.
NoOversleep == timer = "asleep" /\ wakers = {} =>
               \A item \in mScheduledItems : waitMs <= item[2] + drift

\* A loop goes on for ever, unless it is a player's.
LoopsGoOn == \A l \in Loops \ Players : []<>(runner[l] = "sending")
=============================================================================

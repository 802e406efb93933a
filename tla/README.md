# Formal models of the Unity2dMmorpg server

TLA+ models of the server in `src/Server`, the TLC configurations that check
them, and TLAPS proofs of the most important results. The models follow the
C++ code, not its documentation; where a comment of the repository promises
something the code does not do, a run shows the difference (section 5).

To check a module: `tlc -config MCJobQueue.cfg MCJobQueue`; to check the proofs:
`tlapm JobQueue_proofs.tla`. `PROJECT.json` lists the runs, the lines every
definition translates, a mutant of the code for every property, the hazards of
the code and the properties that watch them.

## 1. Inventory

The server is a Windows program on I/O completion ports. `GameServer/Main.cpp`
starts a thread for the game loop, four that dispatch I/O completions, three that
flush job queues and one for the job timer.

| Component (`src/Server/...`) | State | Operations | Hard behaviour | What makes it correct |
|---|---|---|---|---|
| Job queues and workers (`Core/Job/Queue`) | `mJobCount`, lock-free `mQueue` per queue; `mQueues`, `mWaked`, a condition variable in the manager | `Push`, `TryFlush`, `RegisterQueue`, `FlushQueues` | the count and the queue are two shared objects; the last job races a new push; one wake-up flag for all workers | one worker per queue; no queue with jobs forgotten; no wake-up lost; one thread's jobs in order |
| Reader-writer spin lock (`Core/Concurrency/Lock`) | one atomic word | `LockWrite`, `LockRead`, `UnlockWrite`, `UnlockRead` | optimistic compare-exchange on a stale value; a time-out ends the process | writers exclude everyone; each unlock takes its own trace back |
| Deadlock detector (`Core/Concurrency/Deadlock`) | a stack per thread, a graph of lock orders | `PushLock`, `PopLock`, `CheckCycle`, `Dfs` | only the top of a stack is recorded; known edges are not checked again; graph walked in hash order | no circular wait while the process lives; no recursive locking; cycles found exactly when there are some |
| Session (`Core/Network/Session`, `Core/Io/Event.h`) | `mIsConnected`, `mIsSending`, `mSendBufferMgr`, one event per operation | connect, disconnect, send, receive, their completions, `HandleError` | handlers of one session run on many threads; every call may fail at once or later | one send at a time; buffers leave once and in order; one teardown; the end is reported |
| Receive buffer and framing (`Core/Network/Buffer`, `Protocol/Packet/Queue`) | `mReadPos`, `mWritePos`, the bytes | `OnWritten`, `OnRead`, `Clear`, `PacketQueue::Push` | packets cut anywhere; the buffer's end; moving the backlog | packets whole, once, in order; nothing lost |
| Chat room, players, loop (`GameServer`) | `mPlayerId`, the packet queue, `PlayerManager::mPlayers`, `Room::mPlayers` | `OnReceived`, `OnDisconnected`, `ProcessPackets`, the handlers, `Enter`, `Leave`, `Broadcast` | callbacks on I/O threads against handlers on the loop thread; two maps without a common lock; ids chosen by clients | a welcomed player is in the room; no player outlives its session |
| Job timer and serializer (`Core/Job/Timer`, `Serializer.h`) | a priority queue by tick, `mWaked`, a condition variable | `Schedule`, `Distribute`, `Run`, `ScheduleJob` | an earlier job scheduled while the timer sleeps | no job early, every job once, none late by more than the wait |
| Service and listener (`Core/Network/Service`, `Listener`) | the sessions, their count and limit; accept events | `CreateSession`, `AddSession`, `RemoveSession`, `RegisterAccept`, `ProcessAccept` | count and set; accept errors and exhausted limits | the limit holds; an accept stays posted |
| Send buffers (`Core/Network/Buffer`, `Protocol/Packet/Utils.h`) | the pool, a chunk per thread, write position and flag per chunk, references | `MakeSendBuffer`, `Alloc`, `OnWritten`, `Pop`, `Push`, the deleters | a chunk is shared by its thread and its buffers, and the last reference may go on any thread; sizes are narrowed to 16 bits | no byte of a buffer is overwritten while a session has it; a chunk is in one place |
| I/O dispatcher (`Core/Io/Dispatcher`) | the completion port | `Register`, `Dispatch` | any thread takes any completion | part of the session and the listener |
| Threads (`Core/Concurrency/Thread`) | thread list, thread ids | `Launch`, `Join` | launched threads work while others are launched | part of the listener |
| Dummy client (`DummyClient`) | a session's number and agent id, the two maps of `AgentManager`, the packet queue | `ClientService::Run`, `OnConnected`, `OnDisconnected`, `AddAgent`, `RemoveAgent`, `Handle_S2C_EnterRoom` | agents are numbered as connections come up, sessions as they are created; an end without a beginning | the maps agree; an answer finds the agent that asked |
| Application context (`Core/Common/Global`) | dependency graph of components | `Initialize`, `DetectCycle` | order, cycles | used by no code |

Calls and shared state: I/O threads take completions and call session handlers,
these call `GameServer` callbacks, which put packets into the packet queue for
the loop; the loop's handlers use the manager, the room and `Session::SendAsync`.
Jobs go to job queues directly or through the timer and are run by the workers.
Locks are `RwSpinLock`s that report to the detector in debug builds.

## 2. Plan

Order of work: what every other part stands on comes first.

1. (done) `JobQueue`, abstract `SerialExecutor`; `RwSpinLock`, abstract `RwLock`;
   `DeadlockDetector` and `DeadlockDfs` on `LockGraph`; their proofs.
2. (done) `Session`, abstract `Connection`; `ReceiveBuffer`; `GameRoom`.
3. (done) `JobTimer` with discrete time and the periodic loops of `Room` and
   `Player` as its users.
4. (done) `Listener` with the sessions of the service, abstract `Admission`.
5. (done) `SendChunk`: chunks, buffers, the pool, references that go on any thread.
6. (done) `DummyClient`: `ClientService::Run`, agents, the loop; the start of the
   server and the launch of its threads, in `Listener`.
7. (done) The proofs of the safety properties of every component, of the
   refinements of `Connection` and `Admission`, and of `CheckCycle` with `Dfs`.
8. Left: `GameRoom` on top of `Connection` instead of a `phase` per session;
   `AppContext`, should it come into use.

## 3. Modules

### JobQueue, SerialExecutor, MCJobQueue

`Push` is three steps and more: `PushCount` is the `fetch_add` on `mJobCount`,
`PushEnqueue` the `enqueue`, and a push that saw zero goes on with
`RegisterEnqueue`, `RegisterSetWaked` (under the SRWLOCK) and `RegisterWake`.
A worker in `FlushQueues` takes a queue (`TakeQueue`) or finds none
(`DrainEmpty`), runs jobs (`StartJob`, `FinishJob`), puts an unfinished queue
back (`Requeue`), and sleeps when `mWaked` is not set (`CheckWaked`, `Resume`,
`SpuriousWake`). `FinishJob` is the `fetch_sub` after `Execute`; whether the
time-out of 100 ms is reached is a free choice. The lock-free queues of
moodycamel are external: first in first out per producer, in any order between
producers, so `mQueue` is one sequence for each pusher. `DrainEmpty` sees all
lists of the manager empty at one moment, which is more than moodycamel's
`try_dequeue` promises: it looks at the producers one after the other.

`SerialExecutor` is the promise: jobs of a thread are submitted, run one at a
time per queue, and finish in order. `ExecutorSpec` is the refinement.

### RwSpinLock, RwLock, MCRwSpinLock

Each access to the word is an action. `LockRead` loads the masked count
(`LoadRead`) and compares with it later (`LockRead`, `RetryRead`), so the stale
value is in the model. `kReadCountMask` is a parameter; the assumption is that
there are not more threads than it can count (0x0FFFFFFF in the code). Back-off
is left out. `LockTimeout` lets a waiting writer or reader end the process.

### DeadlockDetector, LockGraph

`DeadlockDetector` models the debug-build `PushLock` and `PopLock` in front of
the locks: the entry is pushed and the order recorded before the lock is waited
for, the graph is over names of classes, only the top of the stack is looked at,
and only a new edge is checked. What `CheckCycle` decides is taken as `Cyclic` of
`LockGraph`: a nonempty set of locks each of which leads to another one of the set.
Names this module would share with `RwSpinLock` begin with `Det` here, so that
`Locks_proofs` can extend both.

### DeadlockDfs, MCDeadlockDetector

`CheckCycle` with `Dfs` itself, which run under the detector's lock, so that one
thread is all there is; what is open is the graph and the order in which the hash
sets are walked. The recursion is a stack of calls: `frames` holds the `current` of
each call under way, `unmet` what the loop of each has yet to meet. A step is what
a loop does for one element. `CheckRoot` is a turn of the loop in `CheckCycle`;
`VisitNext`, `PassNext` and `FindCycle` are the three branches of the loop in
`Dfs`; `DfsReturns` covers both ends of `Dfs`; `LogNext` is a turn of the loop that
writes the log. The locks are their ids; `NumberingKeepsCycles` (section 6) takes
the answer back to the names of `DeadlockDetector`. The graph is any that has no
cycle but for one edge, since `PushLock` checks every edge it adds and a cycle ends
the process, as `NoCircularWait`'s proof uses. `FindsCycles` says that `CheckCycle`
decides what `DeadlockDetector` takes it to decide. `MCDeadlockDetector` instantiates
both modules: a behaviour of it is one of the detector or one of the search.

### Session, Connection, MCSession

One session. A step is an atomic access, a critical section or a call of the
socket API. The kernel (external) completes a posted operation at any time with
any outcome of `Errors`, `ConnectErrors`, `DiscErrors`; an error is `"lost"`
when `HandleError` answers it with `DisconnectAsync`, else `"other"`.
`DisconnectAsync` is a subroutine of every handler: `pc` goes to `exchange` and
`ret` says where its caller continues. The unlocked `Clear` of a failing
`RegisterSend` while another thread is inside `Register` is undefined behaviour:
the model ends there (`crashed`).

`Connection` is what the users of a session see: one opening, one end, buffers
in order, none twice. `ConnectionSpec` is the refinement; a session the full
service refuses ends without having opened, as in the code. A send error that
`HandleError` only logs breaks the promise about the buffers (`Break`, `broken`):
what the failed send had may go out later, behind others, or never. The promise
about the two notices stays.

### ReceiveBuffer, MCReceiveBuffer

`ProcessReceive` is one action with all its calls (`OnWritten`,
`PacketQueue::Push`, `OnRead`, `Clear`, `RegisterReceive`): a session has one
receive at a time (`ReceiveAlive` and `TypeOK` of `Session`). A byte is its
position in the peer's stream, so lost, repeated or displaced bytes show.
`Clear` copies with `memcpy`. Its ranges can overlap (section 5), and then it is a
free choice whether the bytes arrive all the same, as with `memmove`, or are lost:
`recvStatus` becomes `undefined` and the execution stops there. The peer frames its
packets as `MakeSendBuffer` does: a size is at least a header's and at most the
capacity, which no size of 16 bits exceeds; packets above `mSize` are among them.
What a malformed size would do (zero or negative, where the debug build asserts,
or shorter than a header) is not modelled. Names the module
would share with `SendChunk` carry `Recv` or `Packet`, so that `Buffers_proofs` can
extend both.

### GameRoom, MCGameRoom

I/O threads take a session's receive (`TakeReceive`), queue the packets in it one by
one (`PushPacket`), give the receive back (`OnReceived`) and run `OnDisconnected`
(`Disconnect`, `Leave`, `RemovePlayer`, `ClearPlayerId`); the loop thread pops a packet
(`TryPop`) and runs `Handle_C2S_EnterRoom` (`SetPlayerId`, `AddPlayer`, `Enter`,
`Reply`) or `Handle_C2S_Chat` (`Broadcast`, `SendTo`, `BroadcastDone`). A packet is a
session, a kind and an id, and a client may send any of them at any time: the handlers
check neither what it sent before nor the id, so a session may enter under several ids,
under another one's or under 0, each time overwriting `mPlayerId`. The two maps of
players are sets of pairs; `insert` and `erase` go by id as in the code. The
packet queue keeps the order of a producer thread only. `late`, `due`, `entered` and
`lastId` are history variables: the sessions that ended with packets unhandled, the
players a chat is owed to, the ids each session has entered under, and the last of
them. A player has an id of its own (`OwnId`) when no other session has entered under
its id and the id is not 0, which every session erases that ends without having entered.

### JobTimer, MCJobTimer

Time is discrete and relative: instead of ticks the state holds the time left
until `nextTick`, `execTick` and the time-out of the sleep, and `Tick` shrinks
all of them; no clock has to be bounded. A turn of a loop is `Begin` (`nextTick`,
the sends), `TakeDelay` (`delayMs`), then `PushJob`, or `TakeExecTick`, `Insert`
(the critical section of `Schedule`) and `Wake`. The timer thread is `Scan` (the
critical section of `Distribute`), `TakeStartTick`, `PushItem`, `TakeEndTick`,
then `Check` in `Run` and the sleep. Time may pass between any two of these
steps; `MaxDelay` bounds how much passes while the timer thread is on its way.
`drift` is a history variable: the time after the scan that `waitMs` does not
take off. Overdue items count as 0 and are taken out in any order, where the
code orders them by their ticks. The loops' job queues are what `JobQueue` proves them to be.
`Player::StartSendLoop` is called by no code at this commit; it ends when the
player is gone, `Room::StartBroadcastLoop` never does.

### SendChunk, MCSendChunk

`MakeSendBuffer` is split where other threads can come between: the choice of
`SendChunkPool::Alloc`, `Pop` (under the pool's lock, with the assignment to
`tSendChunk` that drops the old chunk), `Alloc` of the chunk, and `Write`, which
is the header, the payload, `OnWritten` and the hand-over to up to `MaxHolders`
sessions. `Drop` is a session letting go of a buffer on any thread, `ThreadExit`
the end of a thread with its thread-local chunk. A `shared_ptr` is who refers to
the chunk: its thread, and the buffers cut from it; the step that drops the last
reference leaves the chunk in `dropped` of its thread, whose next step is `Push`
(the deleter). A cell of a chunk holds the buffer whose byte it is, so bytes
overwritten too early show. `Int16` narrows as `static_cast_16` does, with
`Int16Max` as a parameter and the chunk as large as 16 bits count, as in the code.

### DummyClient, MCDummyClient

`main` creates and connects the sessions one by one, each call with both outcomes
(`CreateSession`, `SetReuseAddress`, `BindAnyAddress`, `ConnectAsync`), then
launches the threads. The callbacks of one session come in the order `Connection`
allows: `ConnectFailed`, or `NewAgent` (the id, outside the lock), `AddAgent`
(both maps, under it) and `EnterRoom`, then `FindAgent` and `RemoveAgent` of
`OnDisconnected`; `OnReceived` may still come afterwards. The loop is `Dispatch`.
The server (external) answers an `EnterRoom` with the id it got, once, or sends a
chat; queued packets are handled in any order. `asked` and `logged` are history
variables.

### Listener, Admission, MCListener

The main thread makes the calls that set up sockets, completion port and
listening socket (`InitSockets` to `Listen`; any may fail and end the process),
registers `maxSessionCount` accepts (`RegisterAccept`) and launches the I/O
threads one by one while those launched already work (`Launch`). They take completed accepts (`TakeAccept`), set the
session up (`Setup`), add it to the service (`AddSession`) or refuse it
(`Refuse`), set it connected (`SetConnected`) and register the event again. An I/O
thread at the port may find a connection lost (`LoseConnection`, `RemoveSession`,
`Disconnect`); that loop and worker threads can too (`SendAsync`), and an I/O thread
inside `ProcessConnect` (`RegisterReceive`), is left to `Session`, since they hold no
accept event and take the same steps. Every call of the system may fail; a null session from
`CreateSession` ends the process, as does an error of `StartAccept`. `client` is a
history variable: what has become of each client. Sessions are numbered as
`sNextSessionId` does.

`Admission` is the promise to the clients: each is let in once, refused only while
the service is full, or lost to an error. `AdmissionSpec` is the refinement.

## 4. Runs that pass

| Run | Bounds | Shows |
|---|---|---|
| `MCJobQueue` | 2 pushers, 2 workers, 2 queues, 2 jobs a pusher, 3 in all | `NoForgottenQueue`, `NoLostWakeup`, `PerPusherOrder`, `CrashOnlyInsidePush` (the process ends only when a worker comes between a push's count and its enqueue), `JobsComplete`, `ExecutorSpec` |
| `MCRwSpinLock` | 3 threads, mask 3 | `UnlockValid`, `SomeoneGetsIt`, `LockSpec` |
| `MCDeadlockDetector` | 3 threads, 4 locks of 3 classes, 3 locks held | `NoCircularWait`, `NoRecursiveLock` |
| (same run) | 4 classes, every graph one edge away from one without cycles, every order of the hash sets | `FindsCycles` (`CheckCycle` and `Dfs` against the definition of a cycle: the verdict, and the cycle the log names) |
| `MCSession` | 3 threads, 3 buffers, all errors | `OneSendInFlight`, `OwnedWhilePending`, `DisconnectOnce`, `NoStranded` and `ReceiveAlive` (nothing is stranded unless an error was only logged), `ConnectionSpec`, `EndNotified` (only a failed `DisconnectEx` leaves an end unreported), `BuffersLeave` |
| `MCReceiveBuffer` | size 4, capacity 12, 5 packets of 2, 3, 4 and 6 bytes, every cutting | `BacklogIntact` (bytes are lost only when `memcpy` overlaps, behind a complete packet that was not queued or with a packet above half of the fillable space), `WholePackets` |
| `MCSendChunk` | 2 threads, 3 chunks of 8 bytes, 2 buffers of up to 2 holders, packets of 2 and 3 bytes and two payloads that are too large | `BytesIntact`, `OnePlace`, `EndsOnlyOversized` (only a packet whose size does not fit 16 bits ends the process) |
| `MCGameRoom` | 2 sessions, 2 I/O threads, 3 packets of either kind under any of 2 ids and 0 | `WelcomedIsInRoom`, `RoomMatchesManager`, `CleanEnd`, `ChatReachesRoom` |
| `MCDummyClient` | 3 sessions | `MapsAgree`, `AgentFollowsNumber` (an agent lives as long as the session whose number is its id), `AnswerFindsAgent` |
| `MCJobTimer` | 2 loops with periods 2 and 1, one may end; `kMaxWaitMs` 2; delays of the timer up to 2 | `OneTurn`, `NotTooSoon`, `NoOversleep`, `LoopsGoOn` |
| `MCListener` | 2 accept events and sessions, 2 I/O threads, 3 clients, 1 failure of any call | `EventInOnePlace`, `SlotsAccounted`, `AdmissionSpec`, `ClientsAnswered` |

Mutual exclusion of the lock and of the job queues' workers is not listed again:
it holds of the abstract `RwLock` and `SerialExecutor`, which `LockSpec` and
`ExecutorSpec` show to be implemented, and it is proved (section 6).

Why the bounds are enough. Two pushers, two workers and two queues give every
race the job queue has (push against push, against the last job, two workers
between queues), and a queue needs two jobs of one thread for their order and a
third for a push that finds a count above zero; the safety results are proved
for all bounds as well. In the lock, a writer, a reader and a third thread that
changes the word between load and exchange. A circular wait needs two threads,
one of three needs three classes; two objects of one class show what names hide.
Four locks give `CheckCycle` a cycle behind a path that leads into it, with a lock
beside it that an earlier search has finished; the proofs are for any number.
A session's conflicts are between a sender, a completion and a second sender or
completion: three threads; three buffers give one under way, one registered and
one more. The stream passes the end of the receive buffer several times. Packets of up to 4 bytes overlap their copy
only when packets pile up, a packet of 6 does by itself. In a room two sessions, one of
which enters twice or whose packets share an id, meet every pair of handlers and
callbacks; three packets are two entries and a chat, or one session that has entered under
two ids beside one that has entered; the proofs are for any number. Two loops are scheduled while the timer is at any
step for the other one; a delay of 2 exceeds the shortest wait. Three clients
fill a service of two sessions and leave one to be refused. A chunk of 8 bytes
takes two or three packets, so that it is full, shared and replaced within a few
sends; the third chunk is allocated while two are in use, and two threads are who
cuts a buffer and who drops it. Three sessions of the dummy client come up in
another order than they were created, and one whose agent is removed for another
one's end may ask before or after it; the invariants are proved for any number.

`CHECK_DEADLOCK FALSE` is set where the system really comes to rest: pushers and
clients have a bounded number of jobs and packets, a session ends, a crashed
process does nothing.

Symmetry is used in safety runs only (threads; in `MCGameRoom` the sessions, the I/O
threads and the ids other than 0; in `MCSendChunk` threads, chunks and buffers).

Fairness. `JobQueue`: weak fairness of every worker and of a pusher inside
`Push`, which is what running threads are; nobody has to push, spurious wake-ups
are not needed. `RwSpinLock`: a thread inside a lock operation takes steps and a
guard ends with its scope; `SomeoneGetsIt` claims only that some thread gets
the lock, since readers can keep a writer out for ever (the code ends the
process after 10 s). `Session`: threads go on with what they have begun, and the
kernel completes what is posted and hands it to the I/O threads of
`GameServer/Main.cpp:33`. `JobTimer`: workers, timer thread and clock go on, a
player need not leave. `Listener`: threads finish their handlers and keep taking
completions, and the kernel completes accepts while clients wait.

## 5. Runs that end in a violation

Each states what a comment of the repository says; TLC shows what the code does.

* `MCReceiveBufferWindow` (`CompletePacketsQueued`): `ProcessReceive` passes the
  number of bytes just received, but `PushPackets` takes it for the size of the
  data from the read position. A packet whose first part came earlier stays in
  the buffer although it is complete. With short pieces only, the buffer fills
  up, a receive of length 0 is posted and the session is disconnected; or, once the
  first packets have been read, `Clear` moves the pile to the front with a `memcpy`
  whose ranges overlap.
* `MCGameRoomGhost` (`NoGhostPlayer`): `OnDisconnected` may run before the loop
  has handled the session's `C2S_EnterRoom`; the player then stays in the room. There
  is a second way, without any race: a session that sends `C2S_EnterRoom` again under
  another id keeps only the last id in `mPlayerId` (`Handler.cpp:16`), and
  `OnDisconnected` takes out no other. `CleanEnd` shows that these two are all: a
  session that ends with its packets handled leaves nothing under its last id.

Further observations; where a property states when the behaviour occurs, it is named:

* `Push` counts a job before it enqueues it (`Queue.cpp:29`). A worker that flushes
  the queue meanwhile sees the count and dequeues nothing: `TRY_DEQUEUE_FAILED`
  ends a debug build, a release build executes a null job (`CrashOnlyInsidePush`).
* `Clear` copies with `memcpy` although its ranges can overlap (`Buffer.cpp:51`): the
  bytes waiting in the buffer may then be lost. `BacklogIntact` says when that can
  happen: a packet that came completely was left unqueued (the window above), or the
  next packet is longer than half of what fills the buffer before `Clear` moves
  anything (30720 bytes). `MCReceiveBuffer` reaches both.
* `ProcessSend` returns with `mIsSending` set after an error that `HandleError`
  only logs; later buffers are never sent (`NoStranded`).
* A failing `RegisterSend` clears the buffer manager without the lock while
  another thread may be registering a buffer (`crashed` of `Session`), and if the
  session lives on, the buffers of that send go out behind later ones.
* After a failing `DisconnectEx` `OnDisconnected` is never called (`EndNotified`).
* A session refused by a full service gets `OnDisconnected` without
  `OnConnected`, which the dummy client does not expect. `Connection` permits it.
* The dummy client's `OnDisconnected` takes the session's number for its agent's id
  (`DummyClient/Network/Session.cpp:36`). Ids are given in the order in which
  connections come up, so with several sessions the agent of another one may be
  removed, whose answers then find no agent, or none is found and a null pointer
  is used. `AgentFollowsNumber` and `AnswerFindsAgent` say exactly when.
* `MakeSendBuffer` narrows the size of a payload to 16 bits before anything compares
  it: a payload above 32,763 bytes ends the process or gives a packet of negative
  size (`EndsOnlyOversized`). No payload of this commit is that large.
* Packets of one session may be handled out of order when two I/O threads
  receive them.
* A job queue left in the list by a time-out is announced to nobody, so one worker
  may sleep while two queues wait; the other worker serves both.
* `RegisterAccept` uses the session before it knows that `CreateSession` returned
  one, and calls itself when `AcceptEx` fails, as often as it fails.
  `ClientService::Run` uses the session before it compares it with null.

## 6. Proofs

Checked by TLAPS for every value of the constants under the named assumptions of
the modules (finite or non-empty sets of threads, null values distinct from real
ones, no more readers than the mask counts).

* `JobQueue_proofs`: `TypeCorrect`, `SerialExecutionHolds`,
  `NoForgottenQueueHolds`, `NoLostWakeupHolds`. The inductive invariant is about
  a token (`TokenInv`): a queue that counts jobs is in exactly one place (a
  pusher about to register it, one entry of `mQueues`, a worker's hands) and a
  queue that counts none is in none. `SerialExecution` alone is not inductive:
  a second entry in `mQueues` would break it a step later. `WakeInv` adds who
  will look at the list before the last worker sleeps.
  `PerPusherOrderHolds` and `ImplementsExecutor` rest on `OrderInv`: the numbers
  last finished, running, queued and about to be queued increase; the refinement
  maps a worker in `exec` to the running job. The order also tells the jobs of a
  queue apart: those owed are a finite set, `mJobCount` is its cardinality
  (`CountInv`), and a worker that dequeues nothing must therefore find a push
  between its count and its enqueue, which is `CrashOnlyInsidePushHolds`.
* `Locks_proofs`, about the spin lock: `TypeCorrect`, `MutualExclusionHolds`,
  `UnlockValidHolds`, `FreeWhenUnheldHolds`, `ImplementsRwLock`. `WordInv`: the word is
  the write flag when there is a writer and the number of readers otherwise, by
  counting the readers as a finite set.
  About the deadlock detector: `DetTypeCorrect`, `NoCircularWaitHolds`,
  `NoRecursiveLockHolds`. `StacksRecorded`: neighbours on a stack are an edge of
  the graph. Threads that wait in a circle would give a set of names each with a
  successor in the set, which is `Cyclic`; this replaces an induction over paths.
  About `CheckCycle` and `Dfs`, for any number of locks and any graph `PushLock` can
  give them: `DfsTypeCorrect`, `FindsCyclesHolds`, `SearchBoundedHolds`,
  `SearchAdvancesHolds`, all from `DfsInv` (`DfsInvHolds`). `FramesInv`: the calls
  under way are a path of the graph, visited in that order and with `mParent` pointing
  back along it, and a visited lock is finished or on the path; so a lock that is
  visited, not finished and not later than `current` closes a cycle, and the walk
  along `mParent` meets it (`LogInv`). `DealtInv`: what a call has dealt with is
  finished, but for the lock of its inner call; so when `Dfs` returns its lock leads
  to finished ones only. `FinishedInv` is what that adds up to: what is finished leads
  to nothing else and holds no cycle, since one more lock that no finished one leads to
  closes none (`AcyclicWith`). No step of the proof uses how far the graph is from one
  without cycles.
  `NumberingKeepsCycles` carries `Cyclic` from names to ids and back, for any numbering
  that gives no id to two names, as `PushLock` numbers them: with it, `FindsCyclesHolds`
  is about the graph `DeadlockDetector` keeps.
* `Session_proofs`: `TypeCorrect`, `OneSendInFlightHolds`, `DisconnectOnceHolds`,
  `OwnedWhilePendingHolds`, `ReceiveAliveHolds`, `NoStrandedHolds`. The send path
  (`OneSendInFlight`), the receive path (`ReceiveInv`) and the life of the
  connection (`LifeInv`) are each a token: with the kernel, with one thread, or
  nowhere. They need each other: a receive is registered once because
  `OnConnected` runs once, which is the token of life; an event is posted at most
  once, as `TypeOK` says, because its token is with the posting thread.
  `OwnerInv` ties the owner of each event to the place of its token. `LiveInv`
  adds when a token may be nowhere in a connected session: only once
  `HandleError` has logged an error without ending the connection.
  Its last part is `ConnectionHolds`, the refinement of `Connection`.
  The buffers registered are numbered and `OrderInv` says where the numbers are:
  `wire` holds the first, the event the next while a thread takes them to the
  kernel, the manager the last (`Clean`). A send that fails leaves a gap, but then
  nothing more will be sent (`Over`): `mIsConnected` is reset, or about to be, and
  no thread is past the test of it. A send error that was only logged ends the
  claim, as `broken` does in `Connection`. `OpenInv`: until `OnConnected` has
  returned nobody disconnects the session, so the end is not reported first.
* `GameRoom_proofs`: `WelcomedIsInRoomHolds`, `ChatReachesRoomHolds`,
  `RoomMatchesManagerHolds`, `CleanEndHolds`, for any sessions and packets in any order,
  when clients share ids, send 0 or enter again under other ids. `IdInv`: until it ends a
  session's `mPlayerId` is the last id it entered under, and every player has an id
  its session entered under; so an id of its own is out of reach of the other sessions.
  `LateInv`: a session that is not in `late` has no packet left once
  `OnDisconnected` has begun, so its handlers and its `OnDisconnected`, which no lock
  keeps apart, never overlap; with it `CleanInv` shows that the player under the last id
  is gone from each map when `OnDisconnected` has passed it. `MatchInv` relates the two
  maps.
* `DummyClient_proofs`: `TypeCorrect`, `MapsAgreeHolds`, `AgentFollowsNumberHolds`,
  `AnswerFindsAgentHolds`, for any number of sessions. `NumberInv` counts the ids
  given as a finite set, so that every session gets another one and none exceeds
  the number of sessions; `AgentInv` says what the maps hold (the agents added whose
  id is not the number of an ended session) and that a session past `FindAgent`
  has somebody's agent with its number; `PacketInv` that a queued answer carries the
  id of its session's agent. The properties alone are not inductive: what an
  answer finds depends on which ids were asked with.
* `Listener_proofs`: `TypeCorrect`, `EventInOnePlaceHolds`, `SlotsAccountedHolds` and
  `AdmissionSpecHolds`, for any number of I/O threads, clients, slots and failures.
  `PlaceInv` is the token of each accept event. `EventSessionInv`, `ThreadSessionInv`
  and `ServiceInv` follow a session from its event to the thread that takes the
  accept, into `mSessions` and to the one thread that takes it out again; without
  them `RemoveSession` could find nothing to remove or remove another's session.
  `CountInv` counts the served clients beside the sessions, which is what the
  refinement needs: `IsFull` speaks of sessions, `Admission` of clients.
* `Buffers_proofs`, about `SendChunk`: `TypeCorrect`, `BytesIntactHolds`, `OnePlaceHolds`,
  `EndsOnlyOversizedHolds`, for any threads, chunks, buffers, payloads and width of
  `Int16`. Two claims carry each other. `PlaceInv`: a chunk is in the pool, with the
  thread that returns it, or used, never two of them, and no two threads have the same
  one; so only its own thread cuts buffers from a chunk, and it is cleared only when
  no buffer is left in it. `LayoutInv`: the buffers with holders lie below the write
  position of their chunk, so a buffer written at or above it overwrites none of them
  (`Laid`). `MakerInv` says that the buffer a thread is making is its own and has no
  holders yet. `Int16Facts` is the arithmetic of the narrowing: a size that 16 bits
  hold stays what it is, so only an oversized payload can become a negative size.
  About `ReceiveBuffer`: `RecvTypeCorrect`, `BacklogIntactHolds`, `WholePacketsHolds`, for
  any size and capacity, any number of packets, whose sizes are from a header's to the
  capacity, and any cutting of the stream. `StartOf` and the loop of
  `PacketQueue::Push` are recursive functions; that they satisfy their equations
  (`StartDef`, `PushDefined`) and that `Push` finds exactly the complete packets from the
  read position on (`PushFinds`) are inductions over the naturals, by a set whose least
  missing element cannot exist (`NatInductionSet`). `BacklogIntact` is what the step
  needs: only because the first unread byte begins the packet after the last one queued
  does `Push` read headers where there are some, and only because what it finds ends
  inside the window does `OnRead` never refuse (`RecvTypeCorrect` says so: `recvStatus`
  is never `refused`). Ranges that overlap mean a backlog above half of the space that
  fills before `Clear` moves anything (`ClearKeeps`), and the next packet is then either
  complete in it or longer than it; this bounds the executions that `memcpy` may end.
* `JobTimer_proofs`: `TypeCorrect`, `OneTurnHolds`, `NotTooSoonHolds`,
  `NoOversleepHolds`, for any loops, periods, delays and bound on the time that passes
  while the timer is on its way. `TurnInv`: the turn of a loop is a token and in one
  place (`Placed`), running, scheduled, among the items to push, or queued. `TimeInv`:
  wherever the token waits, it waits at least as long as the period still lasts; the
  property is about the last place only. `WatchInv`: from the scan to the sleep, as long
  as `mWaked` is not set, `waitMs` is right about every item, with what time has taken
  off since (`drift`); an item that is inserted after the scan sets `mWaked` before its
  inserter goes on. The due items that `Scan` takes out are a finite set, which it puts
  in some order without repeating one.

Model-checked only: liveness (`JobsComplete`, `SomeoneGetsIt`, `EndNotified`,
`BuffersLeave`, `LoopsGoOn`, `ClientsAnswered`), which is outside the prover's reach.
That `CheckCycle` comes to an end is not a run's property; what is proved is the half
about its steps: none takes anything back, each adds a lock, an edge dealt with or a
line of the log (`SearchAdvancesHolds`), and there are only so many.

## 7. Not modelled

* `AppContext` (`Core/Common/Global`): no code registers a component or creates the
  context; the globals in use are created in a fixed order before any thread.
* `CommandQueue`, `BufferReader`, `BufferWriter`, `Service::FindSession`: used by no
  code. `Service::Stop` has an empty body.
* `ThreadManager::Join`: called by main only, after the last `Launch`, and never
  returns, since no thread's loop ends.
* The logger, the conversion of addresses, the generated payload classes and the
  packet generator have no behaviour of their own to check.
* Packets whose size field is zero, negative or shorter than a header: the models are
  about peers that frame their packets.
* Byte layouts, protobuf contents, log texts, memory reclamation by `shared_ptr`
  beyond event owners and send chunks, and weak memory orders (the code uses
  sequentially consistent atomics and locks for the state modelled) are
  abstracted.

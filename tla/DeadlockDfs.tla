----------------------------- MODULE DeadlockDfs -----------------------------
(***************************************************************************)
(* DeadlockDetector::CheckCycle and Dfs (Core/Concurrency/Deadlock.cpp),   *)
(* under the detector's lock: one thread, one step for each lock a loop    *)
(* meets.  The calls of Dfs under way are frames; what the walk of a call  *)
(* over its HashSet has yet to meet is unmet, in no particular order.      *)
(* Names the other lock modules have too begin with Dfs.                   *)
(***************************************************************************)
EXTENDS LockGraph, Integers, Sequences

CONSTANT LockCount  \* mNameToId.size()

ASSUME LockCountAssumption == LockCount \in Nat

Ids == 0..(LockCount - 1)

VARIABLES
    lockGraph,        \* mlockGraph, as a set of edges between ids
    mVisitHistory,
    mNextVisitOrder,
    mDfsFinished,
    mParent,
    nextRoot,         \* i in CheckCycle
    frames,           \* current of each call of Dfs, the outermost first
    unmet,            \* of each lock: next locks its Dfs has not dealt with
    walk,             \* current in the loop that writes the log
    log,              \* the ids the log names so far
    outcome           \* "searching", "logging", "acyclic" (CheckCycle has returned),
                      \* or what the process has crashed with

searchVars == <<mVisitHistory, mNextVisitOrder, mDfsFinished, mParent, nextRoot, frames, unmet>>
dfsVars == <<lockGraph, searchVars, walk, log, outcome>>

\* CheckCycle has set its members back, after PushLock has put one more edge into
\* a graph without cycles.
DfsInit ==
    /\ lockGraph \in SUBSET {e \in Ids \X Ids : e[1] # e[2]}
    /\ \E e \in lockGraph : ~Cyclic(Ids, lockGraph \ {e})
    /\ mVisitHistory = [v \in Ids |-> -1]
    /\ mNextVisitOrder = 0
    /\ mDfsFinished = [v \in Ids |-> FALSE]
    /\ mParent = [v \in Ids |-> -1]
    /\ nextRoot = 0
    /\ frames = <<>>
    /\ unmet = [v \in Ids |-> {}]
    /\ walk = -1
    /\ log = <<>>
    /\ outcome = "searching"

-------------------------------------------------------------------------------
NextLocks(v) == {w \in Ids : <<v, w>> \in lockGraph}
Current == frames[Len(frames)]

\* Dfs(v), up to its loop; left: unmet when it is called.
Dfs(v, left) ==
    IF mVisitHistory[v] # -1
    THEN outcome' = "MULTIPLE_DFS" /\ UNCHANGED <<mVisitHistory, mNextVisitOrder, frames, unmet>>
    ELSE /\ mVisitHistory' = [mVisitHistory EXCEPT ![v] = mNextVisitOrder]
         /\ mNextVisitOrder' = mNextVisitOrder + 1
         /\ frames' = Append(frames, v)
         /\ unmet' = [left EXCEPT ![v] = NextLocks(v)]
         /\ UNCHANGED outcome

\* One turn of the loop in CheckCycle.
CheckRoot ==
    /\ outcome = "searching"
    /\ frames = <<>>
    /\ nextRoot < LockCount
    /\ nextRoot' = nextRoot + 1
    /\ IF mDfsFinished[nextRoot]
       THEN UNCHANGED <<mVisitHistory, mNextVisitOrder, frames, unmet, outcome>>
       ELSE Dfs(nextRoot, unmet)
    /\ UNCHANGED <<lockGraph, mDfsFinished, mParent, walk, log>>

\* CheckCycle returns.  The members it clears are left as they are: the next call
\* assigns them anew before anything reads them (Deadlock.cpp:87-90).
CheckReturns ==
    /\ outcome = "searching"
    /\ frames = <<>>
    /\ nextRoot = LockCount
    /\ outcome' = "acyclic"
    /\ UNCHANGED <<lockGraph, searchVars, walk, log>>

\* The loop of the innermost Dfs goes on.
Met(next) == [unmet EXCEPT ![Current] = @ \ {next}]

Meets(next) == outcome = "searching" /\ frames # <<>> /\ next \in unmet[Current]

\* next has not been visited.
VisitNext(next) ==
    /\ Meets(next)
    /\ mVisitHistory[next] = -1
    /\ mParent' = [mParent EXCEPT ![next] = Current]
    /\ Dfs(next, Met(next))
    /\ UNCHANGED <<lockGraph, mDfsFinished, nextRoot, walk, log>>

\* Neither visited later than current, nor finished.
IsBackEdge(next) == mVisitHistory[Current] >= mVisitHistory[next] /\ ~mDfsFinished[next]

\* A lock visited later or finished: nothing to do.
PassNext(next) ==
    /\ Meets(next)
    /\ mVisitHistory[next] # -1
    /\ ~IsBackEdge(next)
    /\ unmet' = Met(next)
    /\ UNCHANGED <<lockGraph, mVisitHistory, mNextVisitOrder, mDfsFinished, mParent, nextRoot, frames,
                   walk, log, outcome>>

FindCycle(next) ==
    /\ Meets(next)
    /\ mVisitHistory[next] # -1
    /\ IsBackEdge(next)
    /\ outcome' = "logging"
    /\ log' = <<next>>
    /\ walk' = Current
    /\ UNCHANGED <<lockGraph, searchVars>>

\* mDfsFinished[current] = true; mutant: forgotten.
WithFinished_Kept == mDfsFinished
WithFinished == [mDfsFinished EXCEPT ![Current] = TRUE]

DfsReturns ==
    /\ outcome = "searching"
    /\ frames # <<>>
    /\ unmet[Current] = {}
    /\ mDfsFinished' = WithFinished
    /\ frames' = SubSeq(frames, 1, Len(frames) - 1)
    /\ UNCHANGED <<lockGraph, mVisitHistory, mNextVisitOrder, mParent, nextRoot, unmet, walk, log, outcome>>

\* One turn of the loop that writes the log.
LogNext ==
    /\ outcome = "logging"
    /\ log' = Append(log, walk)
    /\ IF walk = log[1]
       THEN outcome' = "DEADLOCK_DETECTED" /\ UNCHANGED walk
       ELSE walk' = mParent[walk] /\ UNCHANGED outcome
    /\ UNCHANGED <<lockGraph, searchVars>>

DfsNext ==
    \/ CheckRoot
    \/ CheckReturns
    \/ \E next \in Ids : VisitNext(next) \/ PassNext(next) \/ FindCycle(next)
    \/ DfsReturns
    \/ LogNext

DfsSpec == DfsInit /\ [][DfsNext]_dfsVars

-------------------------------------------------------------------------------
DfsTypeOK ==
    /\ lockGraph \subseteq Ids \X Ids
    /\ mVisitHistory \in [Ids -> Nat \cup {-1}]
    /\ mNextVisitOrder \in Nat
    /\ mDfsFinished \in [Ids -> BOOLEAN]
    /\ mParent \in [Ids -> Ids \cup {-1}]
    /\ nextRoot \in 0..LockCount
    /\ frames \in Seq(Ids)
    /\ unmet \in [Ids -> SUBSET Ids]
    /\ walk \in Ids \cup {-1}
    /\ log \in Seq(Ids)
    /\ outcome \in {"searching", "logging", "acyclic", "MULTIPLE_DFS", "DEADLOCK_DETECTED"}

\* Each lock comes after the one named behind it, the last is the first again, no
\* other is named twice.
LogNamesCycle ==
    /\ Len(log) > 1 /\ log[Len(log)] = log[1]
    /\ \A i \in 1..(Len(log) - 1) : <<log[i + 1], log[i]>> \in lockGraph
    /\ \A i, j \in 2..Len(log) : log[i] = log[j] => i = j

\* CheckCycle decides what DeadlockDetector takes it to decide, whatever order the
\* hash sets are walked in: it returns only when the graph has no cycle, crashes
\* only when it has one, and never for a lock visited twice (Deadlock.cpp:118).  The
\* walk along mParent stays among the locks, and the log names a cycle (:147).
FindsCycles ==
    /\ outcome = "acyclic" => ~Cyclic(Ids, lockGraph)
    /\ outcome = "logging" => Cyclic(Ids, lockGraph) /\ walk \in Ids
    /\ outcome = "DEADLOCK_DETECTED" => Cyclic(Ids, lockGraph) /\ LogNamesCycle
    /\ outcome # "MULTIPLE_DFS"

\* The recursion is never deeper than there are locks, and the loop that writes
\* the log ends: it names no more than all locks, and the first one again.
SearchBounded == Len(frames) <= LockCount /\ Len(log) <= LockCount + 1

\* What the search has behind it.
Visited == {v \in Ids : mVisitHistory[v] # -1}
Finished == {v \in Ids : mDfsFinished[v]}
Dealt == {e \in lockGraph : e[1] \in Visited /\ e[2] \notin unmet[e[1]]}

\* No step of CheckCycle is taken twice: what has been visited, dealt with,
\* finished or logged stays so, and every step adds to it, until it ends.
SearchAdvances ==
    [][/\ nextRoot <= nextRoot' /\ Visited \subseteq Visited' /\ Dealt \subseteq Dealt'
       /\ Finished \subseteq Finished'
       /\ Len(log) <= Len(log') /\ \A i \in 1..Len(log) : log'[i] = log[i]
       /\ \/ nextRoot # nextRoot' \/ Visited # Visited' \/ Dealt # Dealt'
          \/ Finished # Finished' \/ log # log' \/ outcome' = "acyclic"]_dfsVars
===============================================================================

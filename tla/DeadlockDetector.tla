-------------------------- MODULE DeadlockDetector --------------------------
(***************************************************************************)
(* DeadlockDetector (Core/Concurrency/Deadlock.h, Deadlock.cpp) under the  *)
(* locks that report to it (Core/Concurrency/Lock.cpp, debug builds).      *)
(*                                                                         *)
(* PushLock runs before a lock is waited for, under the detector's own     *)
(* SRWLOCK, and PopLock before it is given back.  Locks are told apart by  *)
(* the name of the class that owns them only.  CheckCycle is taken for     *)
(* what it decides, Cyclic, which module DeadlockDfs shows it to decide.   *)
(* Names that RwSpinLock has too begin with Det, so that one module can    *)
(* extend both.                                                            *)
(***************************************************************************)
EXTENDS LockGraph, Naturals, Sequences

CONSTANTS LockingThreads,  \* the threads that use the locks
          Locks,           \* lock objects
          Names,           \* names of the classes that own them
          NameOf,          \* the name each lock reports
          MaxDepth         \* bound: locks one thread holds at a time

ASSUME NameOfAssumption == NameOf \in [Locks -> Names]
ASSUME MaxDepthAssumption == MaxDepth \in Nat

Modes == {"read", "write"}

VARIABLES
    stack,       \* tLockStack, with the lock and the mode of each entry
    waiting,     \* the thread spins for the top entry of its stack
    mlockGraph,  \* mlockGraph, as a set of edges
    ended        \* MULTIPLE_LOCK or DEADLOCK_DETECTED has ended the process

detVars == <<stack, waiting, mlockGraph, ended>>

Entries == Locks \X Modes
Name(t, i) == NameOf[stack[t][i][1]]

DetInit ==
    /\ stack = [t \in LockingThreads |-> <<>>]
    /\ waiting = [t \in LockingThreads |-> FALSE]
    /\ mlockGraph = {}
    /\ ended = FALSE

-------------------------------------------------------------------------------
\* tLockStack.top(); mutant: the order is taken from the first lock held.
Previous_Bottom(t) == Name(t, 1)
Previous(t) == Name(t, Len(stack[t]))

\* prevLockId == lockId
SameLock(prev, name) == prev = name

\* PushLock, and the thread begins to spin.
Push(t, l, mode) ==
    /\ stack' = [stack EXCEPT ![t] = Append(@, <<l, mode>>)]
    /\ waiting' = [waiting EXCEPT ![t] = TRUE]
    /\ UNCHANGED ended

Crash == ended' = TRUE /\ UNCHANGED <<stack, waiting>>

CanPush(t) == ~ended /\ ~waiting[t] /\ Len(stack[t]) < MaxDepth

PushFirst(t, l, mode) ==
    /\ CanPush(t)
    /\ stack[t] = <<>>
    /\ Push(t, l, mode)
    /\ UNCHANGED mlockGraph

PushSame(t, l) ==
    /\ CanPush(t)
    /\ stack[t] # <<>>
    /\ SameLock(Previous(t), NameOf[l])
    /\ Crash
    /\ UNCHANGED mlockGraph

PushNext(t, l, mode) ==
    LET edge == <<Previous(t), NameOf[l]>> IN
    /\ CanPush(t)
    /\ stack[t] # <<>>
    /\ ~SameLock(Previous(t), NameOf[l])
    /\ mlockGraph' = mlockGraph \cup {edge}
    /\ IF edge \notin mlockGraph /\ Cyclic(Names, mlockGraph')
       THEN Crash
       ELSE Push(t, l, mode)

-------------------------------------------------------------------------------
\* Entries of a stack whose lock the thread has.
Held(t) == 1..(IF waiting[t] THEN Len(stack[t]) - 1 ELSE Len(stack[t]))

\* Thread u has a lock that t is waiting for: the same object, unless both read.
Blocks(u, t) ==
    \E i \in Held(u) : /\ stack[u][i][1] = stack[t][Len(stack[t])][1]
                       /\ "write" \in {stack[u][i][2], stack[t][Len(stack[t])][2]}

\* The compare-exchange of LockWrite or LockRead succeeds.
Acquire(t) ==
    /\ ~ended
    /\ waiting[t]
    /\ \A u \in LockingThreads \ {t} : ~Blocks(u, t)
    /\ waiting' = [waiting EXCEPT ![t] = FALSE]
    /\ UNCHANGED <<stack, mlockGraph, ended>>

\* The guard that was created last ends: PopLock, and the lock is free.
Release(t) ==
    /\ ~ended
    /\ ~waiting[t]
    /\ stack[t] # <<>>
    /\ stack' = [stack EXCEPT ![t] = SubSeq(@, 1, Len(@) - 1)]
    /\ UNCHANGED <<waiting, mlockGraph, ended>>

DetNext ==
    \E t \in LockingThreads :
            \/ Acquire(t)
            \/ Release(t)
            \/ \E l \in Locks :
                  \/ PushSame(t, l)
                  \/ \E mode \in Modes : PushFirst(t, l, mode) \/ PushNext(t, l, mode)

DetSpec == DetInit /\ [][DetNext]_detVars

-------------------------------------------------------------------------------
DetTypeOK ==
    /\ stack \in [LockingThreads -> Seq(Entries)]
    /\ waiting \in [LockingThreads -> BOOLEAN]
    /\ \A t \in LockingThreads : waiting[t] => stack[t] # <<>>
    /\ mlockGraph \subseteq {e \in Names \X Names : e[1] # e[2]}
    /\ ended \in BOOLEAN

\* What the detector is for (Deadlock.h:11-12): while the process lives, no set
\* of threads waits in a circle for locks held by one another, although only the
\* top of each stack is recorded and an order already seen is not checked again.
NoCircularWait ==
    ~ended => ~\E S \in SUBSET LockingThreads :
                    S # {} /\ \A t \in S : waiting[t] /\ \E u \in S : Blocks(u, t)

\* Deadlock.h:15: no recursive locking.  PushLock compares with the top of the
\* stack only; a lock further down is found by the cycle it closes.
NoRecursiveLock ==
    ~ended => \A t \in LockingThreads : \A i, j \in DOMAIN stack[t] :
                    stack[t][i][1] = stack[t][j][1] => i = j
===============================================================================

------------------------------ MODULE RwSpinLock ------------------------------
(***************************************************************************)
(* RwSpinLock (Core/Concurrency/Lock.h, Lock.cpp): one atomic word holds   *)
(* the write flag and the number of readers.  Every atomic access to the   *)
(* word is an action; the back-off between two attempts is not modelled.   *)
(* The guards are RAII objects (READ_GUARD, WRITE_GUARD), so a thread      *)
(* releases exactly what it holds, and Lock.h:17 forbids recursion.        *)
(***************************************************************************)
EXTENDS Naturals, FiniteSets

CONSTANTS Threads,
          kReadCountMask   \* 0x0FFFFFFF in the code

ASSUME ThreadsAssumption == IsFiniteSet(Threads)
ASSUME MaskAssumption == kReadCountMask \in Nat /\ Cardinality(Threads) <= kReadCountMask

kEmptyFlag == 0
kWriteFlag == 15 * (kReadCountMask + 1)   \* 0xF0000000: the four bits above the mask

VARIABLES mLockFlag,  \* the atomic word
          pc,         \* what each thread does with the lock
          expected,   \* LockRead's local: the reader count it saw
          crashed     \* LOCK_TIMEOUT or INVALID_UNLOCK ended the process

vars == <<mLockFlag, pc, expected, crashed>>

Init == /\ mLockFlag = kEmptyFlag
        /\ pc = [t \in Threads |-> "idle"]
        /\ expected = [t \in Threads |-> 0]
        /\ crashed = FALSE

Goto(t, from, to) == ~crashed /\ pc[t] = from /\ pc' = [pc EXCEPT ![t] = to]

CallWrite(t) == Goto(t, "idle", "lockWrite") /\ UNCHANGED <<mLockFlag, expected, crashed>>
CallRead(t)  == Goto(t, "idle", "loadRead")  /\ UNCHANGED <<mLockFlag, expected, crashed>>

\* When LockWrite's compare-exchange may succeed.
WriteFree == mLockFlag = kEmptyFlag

\* LockWrite: compare_exchange(kEmptyFlag, kWriteFlag) succeeds.  A failure, the
\* spurious one included, leaves everything as it was.
LockWrite(t) ==
    /\ Goto(t, "lockWrite", "writing")
    /\ WriteFree
    /\ mLockFlag' = kWriteFlag
    /\ UNCHANGED <<expected, crashed>>

\* flag & kReadCountMask; mutant: the mask is forgotten.
ReadCount_Unmasked(flag) == flag
ReadCount(flag) == flag % (kReadCountMask + 1)

\* LockRead: expected = mLockFlag.load() & kReadCountMask.
LoadRead(t) ==
    /\ Goto(t, "loadRead", "casRead")
    /\ expected' = [expected EXCEPT ![t] = ReadCount(mLockFlag)]
    /\ UNCHANGED <<mLockFlag, crashed>>

\* LockRead: compare_exchange(expected, expected + 1) succeeds.
LockRead(t) ==
    /\ Goto(t, "casRead", "reading")
    /\ mLockFlag = expected[t]
    /\ mLockFlag' = expected[t] + 1
    /\ UNCHANGED <<expected, crashed>>

\* LockRead: it fails, perhaps spuriously, and the loop loads again.
RetryRead(t) ==
    /\ Goto(t, "casRead", "loadRead")
    /\ UNCHANGED <<mLockFlag, expected, crashed>>

\* Ten seconds of failed attempts: LOCK_TIMEOUT.
LockTimeout(t) ==
    /\ ~crashed
    /\ \/ pc[t] = "lockWrite" /\ ~WriteFree
       \/ pc[t] = "casRead" /\ mLockFlag # expected[t]
    /\ crashed' = TRUE
    /\ UNCHANGED <<mLockFlag, pc, expected>>

\* UnlockWrite: fetch_and(kEmptyFlag); prevFlag must have been kWriteFlag.
UnlockWrite(t) ==
    /\ Goto(t, "writing", "idle")
    /\ mLockFlag' = kEmptyFlag
    /\ crashed' = (mLockFlag # kWriteFlag)
    /\ UNCHANGED expected

\* What UnlockRead leaves of the count; mutants: it clears the word like
\* UnlockWrite; it forgets to count the reader out.
Decremented_Cleared(flag) == kEmptyFlag
Decremented_Kept(flag) == flag
Decremented(flag) == flag - 1

\* UnlockRead: fetch_sub(1); prevFlag must have counted a reader and no writer.
UnlockRead(t) ==
    /\ Goto(t, "reading", "idle")
    /\ mLockFlag' = Decremented(mLockFlag)
    /\ crashed' = ~(mLockFlag # 0 /\ mLockFlag < kWriteFlag)
    /\ UNCHANGED expected

Call(t) == CallWrite(t) \/ CallRead(t)
Step(t) == \/ LockWrite(t) \/ LoadRead(t) \/ LockRead(t) \/ RetryRead(t)
           \/ UnlockWrite(t) \/ UnlockRead(t)

Next == \E t \in Threads : Call(t) \/ Step(t) \/ LockTimeout(t)

Spec == Init /\ [][Next]_vars

\* A thread that has called the lock keeps running, a compare-exchange does not
\* fail spuriously for ever, and critical sections end.
FairSpec == /\ Spec
            /\ \A t \in Threads : WF_vars(Step(t)) /\ SF_vars(LockRead(t))

-------------------------------------------------------------------------------
TypeOK ==
    /\ mLockFlag \in 0..kReadCountMask \cup {kWriteFlag}
    /\ pc \in [Threads -> {"idle", "lockWrite", "loadRead", "casRead", "writing", "reading"}]
    /\ expected \in [Threads -> 0..kReadCountMask]
    /\ crashed \in BOOLEAN

Readers == {t \in Threads : pc[t] = "reading"}
Writers == {t \in Threads : pc[t] = "writing"}

\* Lock.h:15: a writer excludes every other holder.  One word encodes both
\* sides, so a reader acting on a stale masked load could slip in beside it.
MutualExclusion == Writers # {} => Readers = {} /\ \A t, u \in Writers : t = u

\* The INVALID_UNLOCK assertions (Lock.cpp:72 and 139) hold whenever a holder
\* is about to unlock: nobody else's unlock has wiped its trace from the word.
UnlockValid ==
    /\ \A t \in Readers : mLockFlag # 0 /\ mLockFlag < kWriteFlag
    /\ Writers # {} => mLockFlag = kWriteFlag

\* The word never stays locked with nobody holding it.
FreeWhenUnheld == Readers \cup Writers = {} => mLockFlag = kEmptyFlag

\* Threads cannot make each other fail for ever: when one wants the lock, some
\* thread gets it (or the time-out ends the process).  A particular writer may
\* starve behind a stream of readers; nothing in the code prevents that.
SomeoneGetsIt ==
    (\E t \in Threads : pc[t] \in {"lockWrite", "loadRead", "casRead"})
        ~> (Readers \cup Writers # {} \/ crashed)

\* RwSpinLock implements the readers-writer lock.
Lock == INSTANCE RwLock WITH readers <- Readers, writers <- Writers
LockSpec == Lock!Spec
===============================================================================

----------------------------- MODULE Locks_proofs -----------------------------
(***************************************************************************)
(* Proofs about the locks.                                                 *)
(*                                                                         *)
(* RwSpinLock, for any finite set of threads no larger than the count      *)
(* field: the inductive invariant says what the word means, the number of  *)
(* readers while nobody writes, kWriteFlag while someone does.             *)
(*                                                                         *)
(* DeadlockDetector, for any threads, locks and classes: the graph has an  *)
(* edge for every two neighbours on a stack, and no cycle while the        *)
(* process lives.                                                          *)
(*                                                                         *)
(* DeadlockDfs, for any number of locks and any graph: the calls of Dfs    *)
(* under way are a path of the graph, what is finished leads to nothing    *)
(* else and holds no cycle.                                                *)
(***************************************************************************)
EXTENDS RwSpinLock, DeadlockDetector, DeadlockDfs, FiniteSetTheorems, TLAPS

USE ThreadsAssumption, MaskAssumption

WordInv ==
    /\ Writers = {} => mLockFlag = Cardinality(Readers)
    /\ Writers # {} => mLockFlag = kWriteFlag /\ Readers = {}
    /\ \A t, u \in Writers : t = u

LEMMA CountBound ==
    ASSUME NEW S, S \subseteq Threads
    PROVE  /\ IsFiniteSet(S) /\ Cardinality(S) \in 0..kReadCountMask
           /\ Cardinality(S) = 0 <=> S = {}
           /\ \A t \in Threads \ S : /\ Cardinality(S \cup {t}) = Cardinality(S) + 1
                                     /\ Cardinality(S) + 1 <= kReadCountMask
           /\ \A t \in S : Cardinality(S \ {t}) = Cardinality(S) - 1
<1>1. IsFiniteSet(S) /\ Cardinality(S) \in Nat /\ Cardinality(Threads) \in Nat
    BY FS_Subset, FS_CardinalityType
<1>2. \A T : T \subseteq Threads => Cardinality(T) <= Cardinality(Threads)
    BY FS_Subset
<1>3. \A t \in Threads \ S : Cardinality(S \cup {t}) = Cardinality(S) + 1
    BY <1>1, FS_AddElement
<1>4. \A t \in S : Cardinality(S \ {t}) = Cardinality(S) - 1
    BY <1>1, FS_RemoveElement
<1>5. \A t \in Threads \ S : Cardinality(S \cup {t}) <= Cardinality(Threads)
  <2>1. \A t \in Threads \ S : S \cup {t} \subseteq Threads
      OBVIOUS
  <2> QED BY <1>2, <2>1
<1>6. Cardinality(S) = 0 <=> S = {}
    BY <1>1, FS_EmptySet
<1> QED BY <1>1, <1>2, <1>3, <1>4, <1>5, <1>6

LEMMA InitWord == Init => TypeOK /\ WordInv
<1> SUFFICES ASSUME Init PROVE TypeOK /\ WordInv
    OBVIOUS
<1>1. Readers = {} /\ Writers = {}
    BY DEF Init, Readers, Writers
<1>2. Cardinality({}) = 0
    BY FS_EmptySet
<1>3. WordInv
    BY <1>1, <1>2 DEF Init, WordInv, kEmptyFlag
<1>4. TypeOK
  <2>1. 0 \in 0..kReadCountMask
      OBVIOUS
  <2>2. expected \in [Threads -> 0..kReadCountMask]
      BY <2>1 DEF Init
  <2>3. pc \in [Threads -> {"idle", "lockWrite", "loadRead", "casRead", "writing", "reading"}]
      BY DEF Init
  <2> QED BY <2>1, <2>2, <2>3 DEF Init, TypeOK, kEmptyFlag
<1> QED BY <1>3, <1>4

LEMMA NextWord == TypeOK /\ WordInv /\ [Next]_vars => TypeOK' /\ WordInv'
<1> SUFFICES ASSUME TypeOK, WordInv, [Next]_vars
             PROVE  TypeOK' /\ WordInv'
    OBVIOUS
<1>0. /\ pc \in [Threads -> {"idle", "lockWrite", "loadRead", "casRead", "writing", "reading"}]
      /\ kReadCountMask \in Nat /\ kWriteFlag = 15 * (kReadCountMask + 1)
      /\ Readers \subseteq Threads /\ Writers \subseteq Threads
    BY DEF TypeOK, kWriteFlag, Readers, Writers
<1> USE DEF Goto
\* Steps that neither acquire nor release.
<1>1. ASSUME UNCHANGED mLockFlag, TypeOK',
             \A t \in Threads : pc'[t] # pc[t] =>
                 pc[t] \notin {"reading", "writing"} /\ pc'[t] \notin {"reading", "writing"}
      PROVE  WordInv'
  <2>1. Readers' = Readers /\ Writers' = Writers
      BY <1>1 DEF Readers, Writers
  <2> QED BY <1>1, <2>1 DEF WordInv
<1>2. ASSUME NEW t \in Threads, CallWrite(t) \/ CallRead(t) \/ RetryRead(t) \/ LoadRead(t)
      PROVE  TypeOK' /\ WordInv'
  <2>1. mLockFlag \in Nat /\ ReadCount(mLockFlag) \in 0..kReadCountMask
      BY <1>0 DEF TypeOK, ReadCount
  <2>2. TypeOK'
      BY <1>2, <2>1 DEF TypeOK, CallWrite, CallRead, RetryRead, LoadRead
  <2>3. UNCHANGED mLockFlag
      BY <1>2 DEF CallWrite, CallRead, RetryRead, LoadRead
  <2>4. \A u \in Threads : pc'[u] # pc[u] =>
            pc[u] \notin {"reading", "writing"} /\ pc'[u] \notin {"reading", "writing"}
      BY <1>0, <1>2 DEF CallWrite, CallRead, RetryRead, LoadRead
  <2> QED BY <1>1, <2>2, <2>3, <2>4
<1>3. ASSUME NEW t \in Threads, LockWrite(t)
      PROVE  TypeOK' /\ WordInv'
  <2>1. mLockFlag = 0 /\ mLockFlag' = kWriteFlag
      BY <1>3 DEF LockWrite, WriteFree, kEmptyFlag
  <2>2. Writers = {} /\ Readers = {}
      BY <1>0, <2>1, CountBound DEF WordInv
  <2>3. Writers' = {t} /\ Readers' = {}
      BY <1>0, <1>3, <2>2 DEF LockWrite, Writers, Readers
  <2>4. TypeOK'
      BY <1>3, <2>1 DEF TypeOK, LockWrite
  <2> QED BY <2>1, <2>3, <2>4 DEF WordInv, kWriteFlag
<1>4. ASSUME NEW t \in Threads, LockRead(t)
      PROVE  TypeOK' /\ WordInv'
  <2>1. mLockFlag \in 0..kReadCountMask /\ mLockFlag' = mLockFlag + 1
      BY <1>4 DEF LockRead, TypeOK
  <2>2. Writers = {} /\ mLockFlag = Cardinality(Readers)
      BY <1>0, <2>1 DEF WordInv
  <2>3. t \notin Readers /\ Readers' = Readers \cup {t} /\ Writers' = {}
      BY <1>0, <1>4, <2>2 DEF LockRead, Readers, Writers
  <2>4. mLockFlag' = Cardinality(Readers') /\ mLockFlag' <= kReadCountMask
      BY <1>0, <2>1, <2>2, <2>3, CountBound
  <2>5. TypeOK'
      BY <1>4, <2>1, <2>4 DEF TypeOK, LockRead
  <2> QED BY <2>3, <2>4, <2>5 DEF WordInv
<1>5. ASSUME NEW t \in Threads, UnlockWrite(t)
      PROVE  TypeOK' /\ WordInv'
  <2>1. t \in Writers
      BY <1>5 DEF UnlockWrite, Writers
  <2>2. Readers = {} /\ Writers = {t}
      BY <2>1 DEF WordInv
  <2>3. Readers' = {} /\ Writers' = {}
      BY <1>0, <1>5, <2>2 DEF UnlockWrite, Readers, Writers
  <2>4. mLockFlag' = 0 /\ TypeOK'
      BY <1>5 DEF UnlockWrite, TypeOK, kEmptyFlag
  <2> QED BY <2>3, <2>4, CountBound DEF WordInv
<1>6. ASSUME NEW t \in Threads, UnlockRead(t)
      PROVE  TypeOK' /\ WordInv'
  <2>1. t \in Readers
      BY <1>6 DEF UnlockRead, Readers
  <2>2. Writers = {} /\ mLockFlag = Cardinality(Readers)
      BY <2>1 DEF WordInv
  <2>3. Readers' = Readers \ {t} /\ Writers' = {}
      BY <1>0, <1>6, <2>1, <2>2 DEF UnlockRead, Readers, Writers
  <2>4. mLockFlag \in 1..kReadCountMask /\ mLockFlag' = mLockFlag - 1
      BY <1>0, <1>6, <2>1, <2>2, CountBound DEF UnlockRead, Decremented
  <2>5. mLockFlag' = Cardinality(Readers')
      BY <1>0, <2>1, <2>2, <2>3, <2>4, CountBound
  <2>6. TypeOK'
      BY <1>6, <2>4 DEF TypeOK, UnlockRead
  <2> QED BY <2>3, <2>5, <2>6 DEF WordInv
<1>7. ASSUME (\E t \in Threads : LockTimeout(t)) \/ UNCHANGED vars
      PROVE  TypeOK' /\ WordInv'
    BY <1>1, <1>7 DEF LockTimeout, vars, TypeOK
<1> QED BY <1>2, <1>3, <1>4, <1>5, <1>6, <1>7 DEF Next, Call, Step

LEMMA WordInvariance == Spec => [](TypeOK /\ WordInv)
BY InitWord, NextWord, PTL DEF Spec

\* The word is always a count of readers that fits its field, or kWriteFlag.
THEOREM TypeCorrect == Spec => []TypeOK
BY WordInvariance, PTL

\* A writer is alone, whatever the interleaving of loads and compare-exchanges.
THEOREM MutualExclusionHolds == Spec => []MutualExclusion
<1>1. WordInv => MutualExclusion
    BY DEF WordInv, MutualExclusion
<1> QED BY WordInvariance, <1>1, PTL

\* No unlock fires its INVALID_UNLOCK assertion.
THEOREM UnlockValidHolds == Spec => []UnlockValid
<1>1. TypeOK /\ WordInv => UnlockValid
  <2> SUFFICES ASSUME TypeOK, WordInv PROVE UnlockValid
      OBVIOUS
  <2>1. Readers \subseteq Threads
      BY DEF Readers
  <2>2. ASSUME Readers # {} PROVE mLockFlag # 0 /\ mLockFlag < kWriteFlag
      BY <2>1, <2>2, CountBound DEF WordInv, kWriteFlag
  <2> QED BY <2>2 DEF UnlockValid, WordInv
<1> QED BY WordInvariance, <1>1, PTL

\* An unheld lock is free to take.
THEOREM FreeWhenUnheldHolds == Spec => []FreeWhenUnheld
<1>1. WordInv => FreeWhenUnheld
    BY FS_EmptySet DEF WordInv, FreeWhenUnheld, kEmptyFlag
<1> QED BY WordInvariance, <1>1, PTL

\* RwSpinLock implements the abstract readers-writer lock: each successful
\* compare-exchange is an acquisition, each unlock a release, all else stutters.
THEOREM ImplementsRwLock == Spec => LockSpec
<1>1. Init => Lock!Init
    BY DEF Init, Lock!Init, Readers, Writers
<1>2. TypeOK /\ WordInv /\ [Next]_vars => [Lock!Next]_(Lock!vars)
  <2> SUFFICES ASSUME TypeOK, WordInv, [Next]_vars
               PROVE  [Lock!Next]_(Lock!vars)
      OBVIOUS
  <2>0. /\ pc \in [Threads -> {"idle", "lockWrite", "loadRead", "casRead", "writing", "reading"}]
        /\ Readers \subseteq Threads /\ Writers \subseteq Threads
      BY DEF TypeOK, Readers, Writers
  <2> USE DEF Goto
  <2>1. ASSUME NEW t \in Threads, LockWrite(t) PROVE Lock!AcquireWrite(t)
    <3>1. Writers = {} /\ Readers = {}
        BY <2>0, <2>1, CountBound DEF LockWrite, WriteFree, WordInv, kEmptyFlag, kWriteFlag
    <3>2. Writers' = {t} /\ Readers' = {}
        BY <2>0, <2>1, <3>1 DEF LockWrite, Writers, Readers
    <3> QED BY <3>1, <3>2 DEF Lock!AcquireWrite
  <2>2. ASSUME NEW t \in Threads, LockRead(t) PROVE Lock!AcquireRead(t)
    <3>1. Writers = {}
        BY <2>2 DEF LockRead, WordInv, TypeOK, kWriteFlag
    <3>2. Readers' = Readers \cup {t} /\ Writers' = {}
        BY <2>0, <2>2, <3>1 DEF LockRead, Readers, Writers
    <3> QED BY <3>1, <3>2 DEF Lock!AcquireRead
  <2>3. ASSUME NEW t \in Threads, UnlockWrite(t) \/ UnlockRead(t) PROVE Lock!Release(t)
    <3>1. Readers' = Readers \ {t} /\ Writers' = Writers \ {t} /\ t \in Readers \cup Writers
        BY <2>0, <2>3 DEF UnlockWrite, UnlockRead, Readers, Writers
    <3> QED BY <3>1 DEF Lock!Release
  <2>4. ASSUME \/ \E t \in Threads : \/ CallWrite(t) \/ CallRead(t) \/ LoadRead(t)
                                     \/ RetryRead(t) \/ LockTimeout(t)
               \/ UNCHANGED vars
        PROVE  UNCHANGED Lock!vars
    <3>1. Readers' = Readers /\ Writers' = Writers
        BY <2>0, <2>4 DEF CallWrite, CallRead, LoadRead, RetryRead, LockTimeout, vars,
                          Readers, Writers
    <3> QED BY <3>1 DEF Lock!vars
  <2> QED BY <2>1, <2>2, <2>3, <2>4 DEF Next, Call, Step, Lock!Next
<1> QED BY <1>1, <1>2, WordInvariance, PTL DEF Spec, LockSpec, Lock!Spec
-------------------------------------------------------------------------------
(* The deadlock detector                                                   *)

\* Locks next to each other on a stack are in the graph, in that order.
StacksRecorded ==
    \A t \in LockingThreads : \A i \in 1..(Len(stack[t]) - 1) : <<Name(t, i), Name(t, i + 1)>> \in mlockGraph

DetInv == DetTypeOK /\ StacksRecorded /\ (~ended => ~Cyclic(Names, mlockGraph))

\* The type invariant of the detector.
LEMMA EntryFacts ==
    ASSUME DetTypeOK, NEW t \in LockingThreads
    PROVE  /\ stack[t] \in Seq(Entries)
           /\ Len(stack[t]) \in Nat
           /\ DOMAIN stack[t] = 1..Len(stack[t])
           /\ \A i \in 1..Len(stack[t]) : Name(t, i) \in Names
  <1>1. stack[t] \in Seq(Entries) BY DEF DetTypeOK
  <1>2. Len(stack[t]) \in Nat /\ DOMAIN stack[t] = 1..Len(stack[t]) BY <1>1
  <1>3. ASSUME NEW i \in 1..Len(stack[t]) PROVE Name(t, i) \in Names
    <2>1. stack[t][i] \in Entries BY <1>1, <1>2
    <2>2. stack[t][i][1] \in Locks BY <2>1 DEF Entries
    <2> QED BY <2>2, NameOfAssumption DEF Name
  <1> QED BY <1>1, <1>2, <1>3

\* The empty graph has no cycle.
LEMMA DetInitInv == DetInit => DetInv
  <1> SUFFICES ASSUME DetInit PROVE DetInv OBVIOUS
  <1>1. DetTypeOK
    <2>1. stack \in [LockingThreads -> Seq(Entries)] BY DEF DetInit
    <2>2. waiting \in [LockingThreads -> BOOLEAN] /\ ended \in BOOLEAN BY DEF DetInit
    <2>3. \A t \in LockingThreads : ~waiting[t] BY DEF DetInit
    <2>4. mlockGraph \subseteq {e \in Names \X Names : e[1] # e[2]} BY DEF DetInit
    <2> QED BY <2>1, <2>2, <2>3, <2>4 DEF DetTypeOK
  <1>2. StacksRecorded BY DEF DetInit, StacksRecorded
  <1>3. ~Cyclic(Names, mlockGraph) BY DEF DetInit, Cyclic
  <1> QED BY <1>1, <1>2, <1>3 DEF DetInv

\* Every step keeps the invariant: a push adds the edge it creates or ends the process.
LEMMA DetNextInv == DetInv /\ [DetNext]_detVars => DetInv'
  <1> SUFFICES ASSUME DetInv, [DetNext]_detVars PROVE DetInv' OBVIOUS
  <1>t. DetTypeOK /\ StacksRecorded BY DEF DetInv
  <1>1. CASE UNCHANGED detVars
    <2>1. DetTypeOK' BY <1>1, <1>t DEF detVars, DetTypeOK
    <2>2. StacksRecorded' BY <1>1, <1>t DEF detVars, StacksRecorded, Name
    <2> QED BY <2>1, <2>2, <1>1 DEF DetInv, detVars, Cyclic
  <1>2. ASSUME NEW t \in LockingThreads, NEW l \in Locks, NEW mode \in Modes, PushFirst(t, l, mode) PROVE DetInv'
    <2>1. stack' = [stack EXCEPT ![t] = <<<<l, mode>>>>]
      BY <1>2 DEF PushFirst, Push
    <2>2. <<l, mode>> \in Entries BY DEF Entries
    <2>3. <<<<l, mode>>>> \in Seq(Entries) BY <2>2
    <2>4. stack' \in [LockingThreads -> Seq(Entries)] BY <2>1, <2>3, <1>t DEF DetTypeOK
    <2>5. DetTypeOK' BY <2>1, <2>4, <1>2, <1>t DEF DetTypeOK, PushFirst, Push
    <2>6. StacksRecorded'
      <3> SUFFICES ASSUME NEW u \in LockingThreads, NEW i \in 1..(Len(stack'[u]) - 1)
                   PROVE  <<Name(u, i)', Name(u, i + 1)'>> \in mlockGraph'
        BY DEF StacksRecorded
      <3>1. CASE u = t
        <4>1. stack'[t] = <<<<l, mode>>>> BY <2>1, <1>t DEF DetTypeOK
        <4>2. Len(stack'[t]) = 1 BY <4>1
        <4>3. i \in 1..(1 - 1) BY <4>2, <3>1
        <4> QED BY <4>3
      <3>2. CASE u # t
        <4>1. stack'[u] = stack[u] BY <3>2, <2>1, <1>t DEF DetTypeOK
        <4> QED BY <4>1, <1>2, <1>t DEF StacksRecorded, Name, PushFirst
      <3> QED BY <3>1, <3>2
    <2> QED BY <2>5, <2>6, <1>2 DEF DetInv, PushFirst, Push, Cyclic
  <1>3. ASSUME NEW t \in LockingThreads, NEW l \in Locks, PushSame(t, l) PROVE DetInv'
    <2>1. DetTypeOK' BY <1>3, <1>t DEF DetTypeOK, PushSame, Crash
    <2>2. StacksRecorded' BY <1>3, <1>t DEF StacksRecorded, Name, PushSame, Crash
    <2> QED BY <2>1, <2>2, <1>3 DEF DetInv, PushSame, Crash
  <1>4. ASSUME NEW t \in LockingThreads, NEW l \in Locks, NEW mode \in Modes, PushNext(t, l, mode) PROVE DetInv'
    <2> DEFINE n == Len(stack[t])
               edge == <<Previous(t), NameOf[l]>>
    <2>0. /\ stack[t] \in Seq(Entries) /\ stack[t] # <<>>
          /\ n \in Nat /\ n >= 1
          /\ Name(t, n) \in Names
      BY <1>4, <1>t, EntryFacts DEF PushNext
    <2>1. /\ mlockGraph' = mlockGraph \cup {edge}
          /\ Previous(t) # NameOf[l]
          /\ Previous(t) \in Names /\ NameOf[l] \in Names
      BY <1>4, <2>0, NameOfAssumption DEF PushNext, SameLock, Previous
    <2>2. mlockGraph' \subseteq {e \in Names \X Names : e[1] # e[2]}
      BY <2>1, <1>t DEF DetTypeOK
    <2>3. CASE edge \notin mlockGraph /\ Cyclic(Names, mlockGraph')
      <3>1. ended' = TRUE /\ UNCHANGED <<stack, waiting>>
        BY <1>4, <2>3 DEF PushNext, Crash
      <3>2. DetTypeOK' BY <3>1, <2>2, <1>t DEF DetTypeOK
      <3>3. StacksRecorded' BY <3>1, <2>1, <1>t DEF StacksRecorded, Name
      <3> QED BY <3>1, <3>2, <3>3 DEF DetInv
    <2>4. CASE ~(edge \notin mlockGraph /\ Cyclic(Names, mlockGraph'))
      <3>1. /\ stack' = [stack EXCEPT ![t] = Append(@, <<l, mode>>)]
            /\ waiting' = [waiting EXCEPT ![t] = TRUE]
            /\ ended' = ended
        BY <1>4, <2>4 DEF PushNext, Push
      <3>2. <<l, mode>> \in Entries BY DEF Entries
      <3>3. /\ stack'[t] = Append(stack[t], <<l, mode>>)
            /\ stack' \in [LockingThreads -> Seq(Entries)]
            /\ stack'[t] # <<>>
        BY <3>1, <3>2, <2>0, <1>t DEF DetTypeOK
      <3>4. \A u \in LockingThreads : u # t => stack'[u] = stack[u]
        BY <3>1, <1>t DEF DetTypeOK
      <3>5. DetTypeOK'
        <4>1. waiting' \in [LockingThreads -> BOOLEAN] BY <3>1, <1>t DEF DetTypeOK
        <4>2. \A u \in LockingThreads : waiting'[u] => stack'[u] # <<>>
          BY <3>1, <3>3, <3>4, <1>t DEF DetTypeOK
        <4> QED BY <3>1, <3>3, <4>1, <4>2, <2>2, <1>t DEF DetTypeOK
      <3>6. StacksRecorded'
        <4> SUFFICES ASSUME NEW u \in LockingThreads, NEW i \in 1..(Len(stack'[u]) - 1)
                     PROVE  <<Name(u, i)', Name(u, i + 1)'>> \in mlockGraph'
          BY DEF StacksRecorded
        <4>1. CASE u # t
          BY <4>1, <3>4, <2>1, <1>t DEF StacksRecorded, Name
        <4>2. CASE u = t
          <5>1. Len(stack'[t]) = n + 1 BY <3>3, <2>0
          <5>2. /\ \A j \in 1..n : stack'[t][j] = stack[t][j]
                /\ stack'[t][n + 1] = <<l, mode>>
            BY <3>3, <2>0
          <5>3. i \in 1..n BY <5>1, <4>2, <2>0
          <5>4. CASE i < n
            <6>1. i \in 1..(n - 1) /\ i + 1 \in 1..n BY <5>3, <5>4, <2>0
            <6>2. Name(t, i)' = Name(t, i) /\ Name(t, i + 1)' = Name(t, i + 1)
              BY <6>1, <5>3, <5>2 DEF Name
            <6> QED BY <6>1, <6>2, <4>2, <2>1, <1>t DEF StacksRecorded
          <5>5. CASE i = n
            <6>1. Name(t, i)' = Name(t, n) BY <5>3, <5>5, <5>2 DEF Name
            <6>2. Name(t, i + 1)' = NameOf[l] BY <5>5, <5>2 DEF Name
            <6> QED BY <6>1, <6>2, <4>2, <2>1 DEF Previous
          <5> QED BY <5>3, <5>4, <5>5, <2>0
        <4> QED BY <4>1, <4>2
      <3>7. ~ended' => ~Cyclic(Names, mlockGraph')
        <4>1. CASE edge \in mlockGraph
          <5>1. mlockGraph' = mlockGraph BY <4>1, <2>1
          <5> QED BY <5>1, <3>1 DEF DetInv
        <4>2. CASE edge \notin mlockGraph BY <4>2, <2>4
        <4> QED BY <4>1, <4>2
      <3> QED BY <3>5, <3>6, <3>7 DEF DetInv, Cyclic
    <2> QED BY <2>3, <2>4
  <1>5. ASSUME NEW t \in LockingThreads, Acquire(t) PROVE DetInv'
    <2>1. DetTypeOK' BY <1>5, <1>t DEF DetTypeOK, Acquire
    <2>2. StacksRecorded' BY <1>5, <1>t DEF StacksRecorded, Name, Acquire
    <2> QED BY <2>1, <2>2, <1>5 DEF DetInv, Acquire, Cyclic
  <1>6. ASSUME NEW t \in LockingThreads, Release(t) PROVE DetInv'
    <2> DEFINE n == Len(stack[t])
    <2>0. stack[t] \in Seq(Entries) /\ n \in Nat /\ n >= 1
      BY <1>6, <1>t, EntryFacts DEF Release
    <2>1. stack' = [stack EXCEPT ![t] = SubSeq(@, 1, n - 1)] /\ UNCHANGED <<waiting, mlockGraph, ended>>
      BY <1>6 DEF Release
    <2>2. /\ stack'[t] = SubSeq(stack[t], 1, n - 1)
          /\ stack' \in [LockingThreads -> Seq(Entries)]
          /\ Len(stack'[t]) = n - 1
          /\ \A j \in 1..(n - 1) : stack'[t][j] = stack[t][j]
      <3> HIDE DEF n
      <3>1. \A j \in 1..(n - 1) : stack[t][j] \in Entries BY <2>0 DEF n
      <3>2. /\ SubSeq(stack[t], 1, n - 1) \in Seq(Entries)
            /\ Len(SubSeq(stack[t], 1, n - 1)) = n - 1
            /\ \A j \in 1..(n - 1) : SubSeq(stack[t], 1, n - 1)[j] = stack[t][j]
        BY <2>0, <3>1
      <3>3. stack'[t] = SubSeq(stack[t], 1, n - 1) BY <2>1, <1>t DEF DetTypeOK
      <3>4. stack' \in [LockingThreads -> Seq(Entries)] BY <2>1, <3>2, <1>t DEF DetTypeOK
      <3> QED BY <3>2, <3>3, <3>4
    <2>3. \A u \in LockingThreads : u # t => stack'[u] = stack[u] BY <2>1, <1>t DEF DetTypeOK
    <2>4. ~waiting[t] BY <1>6 DEF Release
    <2>5. DetTypeOK' BY <2>1, <2>2, <2>3, <2>4, <1>t DEF DetTypeOK
    <2>6. StacksRecorded'
      <3> SUFFICES ASSUME NEW u \in LockingThreads, NEW i \in 1..(Len(stack'[u]) - 1)
                   PROVE  <<Name(u, i)', Name(u, i + 1)'>> \in mlockGraph'
        BY DEF StacksRecorded
      <3>1. CASE u # t BY <3>1, <2>1, <2>3, <1>t DEF StacksRecorded, Name
      <3>2. CASE u = t
        <4>1. i \in 1..(n - 1) /\ i + 1 \in 1..(n - 1) BY <3>2, <2>2, <2>0
        <4>2. Name(t, i)' = Name(t, i) /\ Name(t, i + 1)' = Name(t, i + 1)
          BY <4>1, <2>2 DEF Name
        <4> QED BY <4>1, <4>2, <3>2, <2>1, <1>t DEF StacksRecorded
      <3> QED BY <3>1, <3>2
    <2> QED BY <2>5, <2>6, <2>1 DEF DetInv, Cyclic
  <1>7. CASE DetNext
    <2>1. PICK t \in LockingThreads :
            \/ Acquire(t)
            \/ Release(t)
            \/ \E l \in Locks : \/ PushSame(t, l)
                               \/ \E mode \in Modes : PushFirst(t, l, mode) \/ PushNext(t, l, mode)
      BY <1>7 DEF DetNext
    <2> QED BY <2>1, <1>2, <1>3, <1>4, <1>5, <1>6
  <1> QED BY <1>1, <1>7

\* The three parts hold together.
LEMMA DetInvHolds == DetSpec => []DetInv
  BY DetInitInv, DetNextInv, PTL DEF DetSpec

\* The detector's variables keep their types: no edge leads from a name to itself.
THEOREM DetTypeCorrect == DetSpec => []DetTypeOK
  <1>1. DetInv => DetTypeOK BY DEF DetInv
  <1> QED BY <1>1, DetInvHolds, PTL

-------------------------------------------------------------------------------
\* A held lock of a waiting thread has a neighbour above it on the stack.
LEMMA HeldHasNext ==
    ASSUME DetInv, NEW t \in LockingThreads, waiting[t], NEW i \in Held(t)
    PROVE  /\ i \in 1..(Len(stack[t]) - 1)
           /\ i + 1 \in 1..Len(stack[t])
           /\ Name(t, i) \in Names /\ Name(t, i + 1) \in Names
           /\ <<Name(t, i), Name(t, i + 1)>> \in mlockGraph
  <1>1. DetTypeOK /\ StacksRecorded BY DEF DetInv
  <1>2. Len(stack[t]) \in Nat BY <1>1, EntryFacts
  <1>3. i \in 1..(Len(stack[t]) - 1) /\ i + 1 \in 1..Len(stack[t]) /\ i \in 1..Len(stack[t])
    BY <1>2 DEF Held
  <1>4. Name(t, i) \in Names /\ Name(t, i + 1) \in Names BY <1>1, <1>3, EntryFacts
  <1> QED BY <1>1, <1>3, <1>4 DEF StacksRecorded

\* No circle of waiting threads: each would hold a lock the next one waits for,
\* and the names of all these held locks and of those above them close a cycle.
THEOREM NoCircularWaitHolds == DetSpec => []NoCircularWait
  <1>1. DetInv => NoCircularWait
    <2> SUFFICES ASSUME DetInv, ~ended, NEW S \in SUBSET LockingThreads, S # {},
                        \A t \in S : waiting[t] /\ \E u \in S : Blocks(u, t)
                 PROVE  FALSE
      BY DEF NoCircularWait
    <2>0. DetTypeOK BY DEF DetInv
    <2> DEFINE HeldNames == {x \in Names : \E t \in S : \E i \in Held(t) : x = Name(t, i)}
    <2>1. HeldNames # {}
      <3>1. PICK t \in S : TRUE OBVIOUS
      <3>2. PICK u \in S : Blocks(u, t) BY <3>1
      <3>3. PICK i \in Held(u) : TRUE BY <3>2 DEF Blocks
      <3>4. Name(u, i) \in Names BY <3>3, HeldHasNext
      <3> QED BY <3>3, <3>4
    <2>2. ASSUME NEW x \in HeldNames PROVE \E y \in HeldNames : <<x, y>> \in mlockGraph
      <3>1. PICK t \in S : \E i \in Held(t) : x = Name(t, i) BY <2>2
      <3>2. PICK i \in Held(t) : x = Name(t, i) BY <3>1
      <3>3. waiting[t] /\ t \in LockingThreads OBVIOUS
      <3>4. /\ i \in 1..(Len(stack[t]) - 1)
            /\ i + 1 \in 1..Len(stack[t])
            /\ Name(t, i + 1) \in Names
            /\ <<Name(t, i), Name(t, i + 1)>> \in mlockGraph
        BY <3>2, <3>3, HeldHasNext
      <3>5. Len(stack[t]) \in Nat BY <2>0, <3>3, EntryFacts
      <3>6. CASE i + 1 < Len(stack[t])
        <4>1. i + 1 \in Held(t) BY <3>3, <3>4, <3>5, <3>6 DEF Held
        <4>2. Name(t, i + 1) \in HeldNames BY <4>1, <3>4
        <4> QED BY <4>2, <3>2, <3>4
      <3>7. CASE i + 1 = Len(stack[t])
        <4>1. PICK u \in S : Blocks(u, t) BY <3>3
        <4>2. PICK j \in Held(u) : stack[u][j][1] = stack[t][Len(stack[t])][1]
          BY <4>1 DEF Blocks
        <4>3. Name(u, j) = Name(t, i + 1) BY <4>2, <3>7 DEF Name
        <4>4. Name(t, i + 1) \in HeldNames BY <4>2, <4>3, <3>4
        <4> QED BY <4>4, <3>2, <3>4
      <3>8. i + 1 < Len(stack[t]) \/ i + 1 = Len(stack[t])
        <4>1. i + 1 \in 1..Len(stack[t]) BY <3>4
        <4> QED BY <4>1, <3>5
      <3> QED BY <3>8, <3>6, <3>7
    <2>3. Cyclic(Names, mlockGraph) BY <2>1, <2>2 DEF Cyclic
    <2> QED BY <2>3 DEF DetInv
  <1> QED BY <1>1, DetInvHolds, PTL

\* No lock is twice on a stack: the names from one entry up to just below the
\* other would each have the next one among them.
THEOREM NoRecursiveLockHolds == DetSpec => []NoRecursiveLock
  <1>1. DetInv => NoRecursiveLock
    <2> SUFFICES ASSUME DetInv, ~ended PROVE NoRecursiveLock BY DEF NoRecursiveLock
    <2>0. DetTypeOK /\ StacksRecorded BY DEF DetInv
    <2>1. ASSUME NEW t \in LockingThreads, NEW i \in DOMAIN stack[t], NEW j \in DOMAIN stack[t],
                 stack[t][i][1] = stack[t][j][1], i < j
          PROVE  FALSE
      <3> DEFINE n == Len(stack[t])
                 Between == {x \in Names : \E k \in i..(j - 1) : x = Name(t, k)}
      <3>1. /\ n \in Nat /\ i \in 1..n /\ j \in 1..n
            /\ \A k \in 1..n : Name(t, k) \in Names
        BY <2>0, EntryFacts
      <3>2. Name(t, i) = Name(t, j) BY <2>1 DEF Name
      <3>3. Between # {}
        <4>1. i \in i..(j - 1) BY <3>1, <2>1
        <4> QED BY <4>1, <3>1
      <3>4. ASSUME NEW x \in Between PROVE \E y \in Between : <<x, y>> \in mlockGraph
        <4>1. PICK k \in i..(j - 1) : x = Name(t, k) OBVIOUS
        <4>2. k \in 1..(n - 1) /\ k + 1 \in 1..n BY <3>1
        <4>3. <<Name(t, k), Name(t, k + 1)>> \in mlockGraph BY <4>2, <2>0 DEF StacksRecorded
        <4>4. Name(t, k + 1) \in Between
          <5>1. CASE k + 1 = j
            <6>1. i \in i..(j - 1) BY <3>1, <2>1
            <6> QED BY <6>1, <5>1, <3>1, <3>2
          <5>2. CASE k + 1 # j
            <6>1. k + 1 \in i..(j - 1) BY <5>2, <3>1
            <6> QED BY <6>1, <4>2, <3>1
          <5> QED BY <5>1, <5>2
        <4> QED BY <4>1, <4>3, <4>4
      <3>5. Cyclic(Names, mlockGraph) BY <3>3, <3>4 DEF Cyclic
      <3> QED BY <3>5 DEF DetInv
    <2>2. ASSUME NEW t \in LockingThreads, NEW i \in DOMAIN stack[t], NEW j \in DOMAIN stack[t],
                 stack[t][i][1] = stack[t][j][1]
          PROVE  i = j
      <3>1. i \in 1..Len(stack[t]) /\ j \in 1..Len(stack[t]) BY <2>0, EntryFacts
      <3> QED BY <3>1, <2>1, <2>2
    <2> QED BY <2>2, Zenon DEF NoRecursiveLock
  <1> QED BY <1>1, DetInvHolds, PTL

-------------------------------------------------------------------------------
USE LockCountAssumption

OnStack(v) == \E i \in 1..Len(frames) : frames[i] = v

\* A lock that has been visited is finished or its Dfs is under way; the calls
\* under way are a path of the graph, in the order in which they began.
FramesInv ==
    /\ \A v \in Ids : mVisitHistory[v] # -1 <=> (mDfsFinished[v] \/ OnStack(v))
    /\ \A v \in Ids : ~(mDfsFinished[v] /\ OnStack(v))
    /\ \A v \in Ids : mVisitHistory[v] < mNextVisitOrder
    /\ \A i, j \in 1..Len(frames) : i < j => mVisitHistory[frames[i]] < mVisitHistory[frames[j]]
    /\ \A i \in 1..Len(frames) : i < Len(frames) =>
          <<frames[i], frames[i + 1]>> \in lockGraph /\ mParent[frames[i + 1]] = frames[i]
    /\ \A v \in Ids : v < nextRoot => mVisitHistory[v] # -1

\* What a Dfs has dealt with is finished, but for the lock its inner call is for.
DealtInv ==
    /\ \A v \in Ids : unmet[v] \subseteq NextLocks(v)
    /\ \A i \in 1..Len(frames), w \in Ids :
          <<frames[i], w>> \in lockGraph /\ w \notin unmet[frames[i]] =>
              mDfsFinished[w] \/ (i < Len(frames) /\ w = frames[i + 1])

\* What is finished leads to nothing else, and holds no cycle.
FinishedInv ==
    /\ \A v, w \in Ids : mDfsFinished[v] /\ <<v, w>> \in lockGraph => mDfsFinished[w]
    /\ ~Cyclic(Finished, lockGraph)

\* The log from the lock of frame k back to the one of frame j + 1.
Logged(k, j) ==
    /\ Len(log) = Len(frames) - j + 1
    /\ log[1] = frames[k]
    /\ \A i \in 2..Len(log) : log[i] = frames[Len(frames) + 2 - i]

ClosesCycle(k) == k \in 1..Len(frames) /\ <<frames[Len(frames)], frames[k]>> \in lockGraph

LogInv ==
    /\ outcome # "MULTIPLE_DFS"
    /\ outcome \in {"searching", "acyclic"} => log = <<>>
    /\ outcome = "acyclic" => frames = <<>> /\ nextRoot = LockCount
    /\ outcome = "logging" => \E k, j \in 1..Len(frames) :
          k <= j /\ ClosesCycle(k) /\ walk = frames[j] /\ Logged(k, j)
    /\ outcome = "DEADLOCK_DETECTED" => \E k \in 1..Len(frames) : ClosesCycle(k) /\ Logged(k, k - 1)

DfsInv == DfsTypeOK /\ FramesInv /\ DealtInv /\ FinishedInv /\ LogInv

\* The calls of Dfs under way are for locks, each for another one.
LEMMA FramesTyped ==
    ASSUME DfsTypeOK
    PROVE  /\ Len(frames) \in Nat
           /\ \A i \in 1..Len(frames) : frames[i] \in Ids
           /\ frames # <<>> => Len(frames) \in 1..Len(frames) /\ Current \in Ids
<1>1. frames \in Seq(Ids)
    BY DEF DfsTypeOK
<1>2. Len(frames) \in Nat /\ \A i \in 1..Len(frames) : frames[i] \in Ids
    BY <1>1
<1>3. frames # <<>> => Len(frames) \in 1..Len(frames)
    BY <1>1
<1> QED BY <1>2, <1>3 DEF Current

LEMMA FramesDistinct ==
    ASSUME DfsTypeOK, FramesInv
    PROVE  \A i, j \in 1..Len(frames) : frames[i] = frames[j] => i = j
<1> SUFFICES ASSUME NEW i \in 1..Len(frames), NEW j \in 1..Len(frames), frames[i] = frames[j], i # j
             PROVE  FALSE
    OBVIOUS
<1>1. Len(frames) \in Nat /\ frames[i] \in Ids /\ mVisitHistory[frames[i]] \in Int
  <2>1. Len(frames) \in Nat /\ frames[i] \in Ids
      BY FramesTyped
  <2>2. \A v \in Ids : mVisitHistory[v] \in Int
      BY DEF DfsTypeOK
  <2> QED BY <2>1, <2>2
<1>2. i < j \/ j < i
    BY <1>1
<1>3. mVisitHistory[frames[i]] < mVisitHistory[frames[j]] \/ mVisitHistory[frames[j]] < mVisitHistory[frames[i]]
    BY <1>2 DEF FramesInv
<1> QED BY <1>1, <1>3

\* What frames is after Dfs(v) has been called.
LEMMA Appended ==
    ASSUME DfsTypeOK, NEW v \in Ids, frames' = Append(frames, v)
    PROVE  /\ frames' \in Seq(Ids) /\ Len(frames') = Len(frames) + 1 /\ frames'[Len(frames) + 1] = v
           /\ \A i \in 1..Len(frames) : frames'[i] = frames[i]
           /\ \A i \in 1..Len(frames') : i \in 1..Len(frames) \/ i = Len(frames) + 1
<1>1. frames \in Seq(Ids) /\ Len(frames) \in Nat
    BY DEF DfsTypeOK
<1>2. /\ frames' \in Seq(Ids) /\ Len(frames') = Len(frames) + 1 /\ frames'[Len(frames) + 1] = v
      /\ \A i \in 1..Len(frames) : frames'[i] = frames[i]
    BY <1>1
<1> QED BY <1>1, <1>2

\* A lock that is visited now goes to the end of the path.
LEMMA CallFrames ==
    ASSUME DfsTypeOK, FramesInv, NEW v \in Ids, mVisitHistory[v] = -1,
           mVisitHistory' = [mVisitHistory EXCEPT ![v] = mNextVisitOrder],
           mNextVisitOrder' = mNextVisitOrder + 1, frames' = Append(frames, v),
           UNCHANGED <<lockGraph, mDfsFinished>>,
           IF frames = <<>> THEN mParent' = mParent
           ELSE <<Current, v>> \in lockGraph /\ mParent' = [mParent EXCEPT ![v] = Current],
           nextRoot' = nextRoot \/ (nextRoot' = nextRoot + 1 /\ v = nextRoot)
    PROVE  FramesInv'
<1> DEFINE n == Len(frames)
<1>1. /\ n \in Nat /\ mNextVisitOrder \in Nat /\ nextRoot \in Nat
      /\ \A u \in Ids : mVisitHistory[u] \in Int /\ u \in Int
      /\ \A i \in 1..n : frames[i] \in Ids
  <2>1. n \in Nat /\ \A i \in 1..n : frames[i] \in Ids
      BY FramesTyped
  <2>2. mNextVisitOrder \in Nat /\ nextRoot \in Nat /\ \A u \in Ids : mVisitHistory[u] \in Int
      BY DEF DfsTypeOK
  <2>3. \A u \in Ids : u \in Int
      BY DEF Ids
  <2> QED BY <2>1, <2>2, <2>3
<1>2. /\ Len(frames') = n + 1 /\ frames'[n + 1] = v /\ \A i \in 1..n : frames'[i] = frames[i]
      /\ \A i \in 1..Len(frames') : i \in 1..n \/ i = n + 1
    BY Appended
<1>3. /\ mVisitHistory'[v] = mNextVisitOrder /\ \A u \in Ids \ {v} : mVisitHistory'[u] = mVisitHistory[u]
    BY DEF DfsTypeOK
<1>4. \A i \in 1..n : frames[i] # v
  <2>1. ~OnStack(v)
      BY DEF FramesInv
  <2> QED BY <2>1 DEF OnStack
<1>5. \A u \in Ids : OnStack(u)' <=> OnStack(u) \/ u = v
  <2>1. OnStack(v)'
    <3>1. n + 1 \in 1..Len(frames')
        BY <1>1, <1>2
    <3> QED BY <1>2, <3>1 DEF OnStack
  <2>2. ASSUME NEW u \in Ids, OnStack(u) PROVE OnStack(u)'
    <3>1. PICK i \in 1..n : frames[i] = u
        BY <2>2 DEF OnStack
    <3>2. i \in 1..Len(frames')
        BY <1>1, <1>2
    <3> QED BY <1>2, <3>1, <3>2 DEF OnStack
  <2>3. ASSUME NEW u \in Ids, OnStack(u)', u # v PROVE OnStack(u)
    <3>1. PICK i \in 1..Len(frames') : frames'[i] = u
        BY <2>3 DEF OnStack
    <3>2. i \in 1..n
        BY <1>2, <2>3, <3>1
    <3> QED BY <1>2, <3>1, <3>2 DEF OnStack
  <2> QED BY <2>1, <2>2, <2>3
<1>6. ~mDfsFinished[v]
    BY DEF FramesInv
<1>7. \A u \in Ids : mVisitHistory'[u] # -1 <=> (mDfsFinished'[u] \/ OnStack(u)')
  <2>1. mVisitHistory'[v] # -1
      BY <1>1, <1>3
  <2> QED BY <1>3, <1>5, <2>1 DEF FramesInv
<1>8. \A u \in Ids : ~(mDfsFinished'[u] /\ OnStack(u)')
    BY <1>5, <1>6 DEF FramesInv
<1>9. \A u \in Ids : mVisitHistory'[u] < mNextVisitOrder'
  <2>1. \A u \in Ids : mVisitHistory[u] < mNextVisitOrder
      BY DEF FramesInv
  <2>2. mVisitHistory'[v] < mNextVisitOrder'
      BY <1>1, <1>3
  <2>3. ASSUME NEW u \in Ids \ {v} PROVE mVisitHistory'[u] < mNextVisitOrder'
      BY <1>1, <1>3, <2>1
  <2> QED BY <2>2, <2>3
<1>10. ASSUME NEW i \in 1..Len(frames'), NEW j \in 1..Len(frames'), i < j
       PROVE  mVisitHistory'[frames'[i]] < mVisitHistory'[frames'[j]]
  <2>1. i \in 1..n
      BY <1>1, <1>2, <1>10
  <2>2. mVisitHistory'[frames'[i]] = mVisitHistory[frames[i]] /\ frames[i] \in Ids
      BY <1>1, <1>2, <1>3, <1>4, <2>1
  <2>3. CASE j = n + 1
    <3>1. mVisitHistory'[frames'[j]] = mNextVisitOrder
        BY <1>2, <1>3, <2>3
    <3>2. mVisitHistory[frames[i]] < mNextVisitOrder
        BY <2>2 DEF FramesInv
    <3> QED BY <2>2, <3>1, <3>2
  <2>4. CASE j \in 1..n
    <3>1. mVisitHistory'[frames'[j]] = mVisitHistory[frames[j]]
        BY <1>1, <1>2, <1>3, <1>4, <2>4
    <3>2. mVisitHistory[frames[i]] < mVisitHistory[frames[j]]
        BY <1>10, <2>1, <2>4 DEF FramesInv
    <3> QED BY <2>2, <3>1, <3>2
  <2> QED BY <1>2, <2>3, <2>4
<1>11. ASSUME NEW i \in 1..Len(frames'), i < Len(frames')
       PROVE  <<frames'[i], frames'[i + 1]>> \in lockGraph' /\ mParent'[frames'[i + 1]] = frames'[i]
  <2>1. i \in 1..n /\ frames'[i] = frames[i] /\ frames[i] \in Ids
      BY <1>1, <1>2, <1>11
  <2>2. CASE i = n
    <3>1. frames # <<>> /\ frames'[i] = Current
        BY <2>1, <2>2 DEF Current
    <3>2. mParent'[v] = Current
        BY <3>1 DEF DfsTypeOK
    <3> QED BY <1>2, <2>2, <3>1, <3>2
  <2>3. CASE i < n
    <3>1. i + 1 \in 1..n
        BY <1>1, <2>1, <2>3
    <3>2. frames'[i + 1] = frames[i + 1] /\ frames[i + 1] \in Ids /\ frames[i + 1] # v
        BY <1>1, <1>2, <1>4, <3>1
    <3>3. <<frames[i], frames[i + 1]>> \in lockGraph /\ mParent[frames[i + 1]] = frames[i]
        BY <2>1, <2>3 DEF FramesInv
    <3>4. mParent'[frames[i + 1]] = mParent[frames[i + 1]]
        BY <3>2 DEF DfsTypeOK
    <3> QED BY <2>1, <3>2, <3>3, <3>4
  <2>4. i = n \/ i < n
      BY <1>1, <2>1
  <2> QED BY <2>2, <2>3, <2>4
<1>12. ASSUME NEW u \in Ids, u < nextRoot' PROVE mVisitHistory'[u] # -1
  <2>1. CASE u = v
      BY <1>1, <1>3, <2>1
  <2>2. CASE u # v
    <3>1. u < nextRoot
        BY <1>1, <1>12, <2>2
    <3>2. mVisitHistory[u] # -1
        BY <3>1 DEF FramesInv
    <3> QED BY <1>3, <2>2, <3>2
  <2> QED BY <2>1, <2>2
<1> QED BY <1>7, <1>8, <1>9, <1>10, <1>11, <1>12 DEF FramesInv
\* What is left of a sequence when its last element is taken off.
LEMMA FrontOf ==
    ASSUME NEW S, NEW s \in Seq(S), s # <<>>
    PROVE  /\ SubSeq(s, 1, Len(s) - 1) \in Seq(S)
           /\ Len(SubSeq(s, 1, Len(s) - 1)) = Len(s) - 1
           /\ \A i \in 1..(Len(s) - 1) : SubSeq(s, 1, Len(s) - 1)[i] = s[i]
<1> DEFINE n == Len(s) - 1
<1>1. Len(s) \in Nat /\ n \in Nat /\ n < Len(s)
    OBVIOUS
<1>2. \A i \in 1..n : i \in 1..Len(s)
    BY <1>1
<1>3. SubSeq(s, 1, n) = [i \in 1..n |-> s[i]]
    BY <1>1, <1>2
<1>4. \A i \in 1..n : s[i] \in S
    BY <1>1, <1>2
<1>5. [i \in 1..n |-> s[i]] \in Seq(S)
    BY <1>1, <1>4
<1>6. Len([i \in 1..n |-> s[i]]) = n
    BY <1>1, <1>5
<1> QED BY <1>3, <1>5, <1>6


\* The new call has dealt with nothing; its caller has dealt with all but what
\* it had, and with v.
LEMMA CallDealt ==
    ASSUME DfsTypeOK, DealtInv, NEW v \in Ids, ~OnStack(v), frames' = Append(frames, v),
           UNCHANGED <<lockGraph, mDfsFinished>>, NEW left \in [Ids -> SUBSET Ids],
           \A u \in Ids : left[u] \subseteq unmet[u],
           \A i \in 1..Len(frames), w \in Ids :
               w \in unmet[frames[i]] /\ w \notin left[frames[i]] => i = Len(frames) /\ w = v,
           unmet' = [left EXCEPT ![v] = NextLocks(v)]
    PROVE  DealtInv'
<1> DEFINE n == Len(frames)
<1>1. n \in Nat /\ \A i \in 1..n : frames[i] \in Ids
    BY FramesTyped
<1>2. /\ Len(frames') = n + 1 /\ frames'[n + 1] = v /\ \A i \in 1..n : frames'[i] = frames[i]
      /\ \A i \in 1..Len(frames') : i \in 1..n \/ i = n + 1
    BY Appended
<1>3. unmet'[v] = NextLocks(v) /\ \A u \in Ids \ {v} : unmet'[u] = left[u]
    OBVIOUS
<1>4. \A u \in Ids : NextLocks(u)' = NextLocks(u)
    BY DEF NextLocks
<1>5. \A u \in Ids : unmet'[u] \subseteq NextLocks(u)'
    BY <1>3, <1>4 DEF DealtInv
<1>6. ASSUME NEW i \in 1..Len(frames'), NEW w \in Ids,
             <<frames'[i], w>> \in lockGraph', w \notin unmet'[frames'[i]]
      PROVE  mDfsFinished'[w] \/ (i < Len(frames') /\ w = frames'[i + 1])
  <2>1. CASE i = n + 1
      BY <1>2, <1>3, <1>6, <2>1 DEF NextLocks
  <2>2. CASE i \in 1..n
    <3>1. frames'[i] = frames[i] /\ frames[i] \in Ids /\ frames[i] # v
        BY <1>1, <1>2, <2>2 DEF OnStack
    <3>2. w \notin left[frames[i]] /\ <<frames[i], w>> \in lockGraph
        BY <1>3, <1>6, <3>1
    <3>3. CASE w \in unmet[frames[i]]
      <4>1. i = n /\ w = v
          BY <2>2, <3>2, <3>3
      <4> QED BY <1>1, <1>2, <4>1
    <3>4. CASE w \notin unmet[frames[i]]
      <4>1. mDfsFinished[w] \/ (i < n /\ w = frames[i + 1])
          BY <2>2, <3>2, <3>4 DEF DealtInv
      <4>2. ASSUME i < n PROVE i + 1 \in 1..n /\ i < Len(frames')
          BY <1>1, <1>2, <2>2, <4>2
      <4> QED BY <1>2, <4>1, <4>2
    <3> QED BY <3>3, <3>4
  <2> QED BY <1>2, <2>1, <2>2
<1> QED BY <1>5, <1>6 DEF DealtInv

LEMMA FinishedStays ==
    ASSUME FinishedInv, UNCHANGED <<lockGraph, mDfsFinished>>
    PROVE  FinishedInv'
<1>1. Finished' = Finished
    BY DEF Finished
<1> QED BY <1>1 DEF FinishedInv, Cyclic

\* A vertex that leads only to vertices with no way back to it closes no cycle.
LEMMA AcyclicWith ==
    ASSUME NEW V, NEW E, NEW u, u \notin V, ~Cyclic(V, E),
           \A x \in V : <<x, u>> \notin E, <<u, u>> \notin E
    PROVE  ~Cyclic(V \cup {u}, E)
<1> SUFFICES ASSUME NEW S \in SUBSET (V \cup {u}), S # {}, \A x \in S : \E y \in S : <<x, y>> \in E
             PROVE  FALSE
    BY DEF Cyclic
<1>1. PICK x \in S : TRUE
    OBVIOUS
<1>2. \E y \in S : y # u
    BY <1>1
<1>3. S \ {u} \in SUBSET V /\ S \ {u} # {}
    BY <1>2
<1>4. \A z \in S \ {u} : \E y \in S \ {u} : <<z, y>> \in E
    BY <1>3
<1> QED BY <1>3, <1>4 DEF Cyclic

\* The innermost Dfs ends.
LEMMA ReturnStep ==
    ASSUME DfsTypeOK, FramesInv, DealtInv, FinishedInv, DfsReturns
    PROVE  FramesInv' /\ DealtInv' /\ FinishedInv'
<1> DEFINE n == Len(frames)
           c == Current
<1>1. /\ n \in Nat /\ n \in 1..n /\ c \in Ids /\ c = frames[n] /\ frames # <<>>
      /\ \A i \in 1..n : frames[i] \in Ids
    BY FramesTyped DEF DfsReturns, Current
<1>2. /\ frames' = SubSeq(frames, 1, n - 1) /\ unmet[c] = {}
      /\ mDfsFinished' = [mDfsFinished EXCEPT ![c] = TRUE]
      /\ UNCHANGED <<lockGraph, mVisitHistory, mNextVisitOrder, mParent, nextRoot, unmet>>
    BY DEF DfsReturns, WithFinished
<1> HIDE DEF c
<1>3. Len(frames') = n - 1 /\ \A i \in 1..(n - 1) : frames'[i] = frames[i]
  <2>1. frames \in Seq(Ids)
      BY DEF DfsTypeOK
  <2> QED BY <1>1, <1>2, <2>1, FrontOf
<1>4. mDfsFinished'[c] = TRUE /\ \A u \in Ids \ {c} : mDfsFinished'[u] = mDfsFinished[u]
    BY <1>1, <1>2 DEF DfsTypeOK
<1>5. \A i \in 1..(n - 1) : i \in 1..n /\ i < n /\ frames[i] # c
  <2>1. \A i \in 1..(n - 1) : i \in 1..n /\ i < n /\ i # n
      BY <1>1
  <2> QED BY <1>1, <2>1, FramesDistinct
<1>6. \A u \in Ids : OnStack(u)' <=> OnStack(u) /\ u # c
  <2>1. ASSUME NEW u \in Ids, OnStack(u)' PROVE OnStack(u) /\ u # c
    <3>1. PICK i \in 1..(n - 1) : frames'[i] = u
        BY <1>3, <2>1 DEF OnStack
    <3> QED BY <1>3, <1>5, <3>1 DEF OnStack
  <2>2. ASSUME NEW u \in Ids, OnStack(u), u # c PROVE OnStack(u)'
    <3>1. PICK i \in 1..n : frames[i] = u
        BY <2>2 DEF OnStack
    <3>2. i \in 1..(n - 1)
        BY <1>1, <2>2, <3>1
    <3> QED BY <1>3, <3>1, <3>2 DEF OnStack
  <2> QED BY <2>1, <2>2
<1>7. OnStack(c) /\ ~mDfsFinished[c]
    BY <1>1 DEF OnStack, FramesInv
<1>8. FramesInv'
  <2>1. \A u \in Ids : mVisitHistory'[u] # -1 <=> (mDfsFinished'[u] \/ OnStack(u)')
      BY <1>2, <1>4, <1>6, <1>7 DEF FramesInv
  <2>2. \A u \in Ids : ~(mDfsFinished'[u] /\ OnStack(u)')
      BY <1>4, <1>6 DEF FramesInv
  <2>3. /\ \A u \in Ids : mVisitHistory'[u] < mNextVisitOrder'
        /\ \A u \in Ids : u < nextRoot' => mVisitHistory'[u] # -1
      BY <1>2 DEF FramesInv
  <2>4. \A i, j \in 1..Len(frames') : i < j => mVisitHistory'[frames'[i]] < mVisitHistory'[frames'[j]]
      BY <1>2, <1>3, <1>5 DEF FramesInv
  <2>5. ASSUME NEW i \in 1..Len(frames'), i < Len(frames')
        PROVE  <<frames'[i], frames'[i + 1]>> \in lockGraph' /\ mParent'[frames'[i + 1]] = frames'[i]
    <3>1. i \in 1..(n - 1) /\ i + 1 \in 1..(n - 1) /\ i \in 1..n /\ i < n
        BY <1>1, <1>3, <2>5
    <3> QED BY <1>2, <1>3, <3>1 DEF FramesInv
  <2> QED BY <2>1, <2>2, <2>3, <2>4, <2>5 DEF FramesInv
<1>9. DealtInv'
  <2>1. \A u \in Ids : unmet'[u] \subseteq NextLocks(u)'
      BY <1>2 DEF DealtInv, NextLocks
  <2>2. ASSUME NEW i \in 1..Len(frames'), NEW w \in Ids,
               <<frames'[i], w>> \in lockGraph', w \notin unmet'[frames'[i]]
        PROVE  mDfsFinished'[w] \/ (i < Len(frames') /\ w = frames'[i + 1])
    <3>1. i \in 1..(n - 1) /\ i \in 1..n /\ i < n /\ frames'[i] = frames[i]
        BY <1>3, <1>5
    <3>2. mDfsFinished[w] \/ w = frames[i + 1]
        BY <1>2, <2>2, <3>1 DEF DealtInv
    <3>3. CASE mDfsFinished[w]
        BY <1>4, <3>3
    <3>4. CASE w = frames[i + 1] /\ i + 1 = n
        BY <1>1, <1>4, <3>4
    <3>5. CASE w = frames[i + 1] /\ i + 1 # n
      <4>1. i + 1 \in 1..(n - 1) /\ i < n - 1
          BY <1>1, <3>1, <3>5
      <4> QED BY <1>3, <3>5, <4>1
    <3> QED BY <3>2, <3>3, <3>4, <3>5
  <2> QED BY <2>1, <2>2 DEF DealtInv
<1>10. FinishedInv'
  <2>1. ASSUME NEW w \in Ids, <<c, w>> \in lockGraph PROVE mDfsFinished[w]
    <3>1. mDfsFinished[w] \/ (n < n /\ w = frames[n + 1])
        BY <1>1, <1>2, <2>1 DEF DealtInv
    <3> QED BY <1>1, <3>1
  <2>2. \A v, w \in Ids : mDfsFinished'[v] /\ <<v, w>> \in lockGraph' => mDfsFinished'[w]
      BY <1>2, <1>4, <2>1 DEF FinishedInv
  <2>3. Finished' = Finished \cup {c} /\ c \notin Finished
      BY <1>1, <1>4, <1>7 DEF Finished
  <2>4. \A x \in Finished : <<x, c>> \notin lockGraph
      BY <1>1, <1>7 DEF Finished, FinishedInv
  <2>5. <<c, c>> \notin lockGraph
      BY <1>1, <1>7, <2>1
  <2>6. ~Cyclic(Finished \cup {c}, lockGraph)
      BY <2>3, <2>4, <2>5, AcyclicWith DEF FinishedInv
  <2>7. ~Cyclic(Finished, lockGraph)'
      BY <1>2, <2>3, <2>6 DEF Cyclic
  <2> QED BY <2>2, <2>7 DEF FinishedInv
<1> QED BY <1>8, <1>9, <1>10
\* While the search goes on nothing is logged.
LEMMA SearchGoesOn ==
    ASSUME outcome' = "searching", log' = <<>>
    PROVE  LogInv'
BY DEF LogInv

LEMMA DfsInitInv ==
    ASSUME DfsInit
    PROVE  DfsInv
<1>1. /\ mVisitHistory = [v \in Ids |-> -1] /\ mNextVisitOrder = 0
      /\ mDfsFinished = [v \in Ids |-> FALSE] /\ mParent = [v \in Ids |-> -1] /\ nextRoot = 0
      /\ frames = <<>> /\ unmet = [v \in Ids |-> {}] /\ walk = -1 /\ log = <<>> /\ outcome = "searching"
      /\ lockGraph \subseteq Ids \X Ids
    BY DEF DfsInit
<1>2. DfsTypeOK
  <2>1. nextRoot \in 0..LockCount
      BY <1>1
  <2> QED BY <1>1, <2>1 DEF DfsTypeOK
<1>3. Len(frames) = 0 /\ 1..Len(frames) = {} /\ \A v \in Ids : v >= 0
    BY <1>1 DEF Ids
<1>4. FramesInv
  <2>1. \A v \in Ids : mVisitHistory[v] = -1 /\ ~mDfsFinished[v] /\ ~OnStack(v)
      BY <1>1, <1>3 DEF OnStack
  <2>2. \A v \in Ids : mVisitHistory[v] < mNextVisitOrder
      BY <1>1, <2>1
  <2>3. \A v \in Ids : ~(v < nextRoot)
      BY <1>1, <1>3 DEF Ids
  <2> QED BY <1>3, <2>1, <2>2, <2>3 DEF FramesInv
<1>5. DealtInv
    BY <1>1, <1>3 DEF DealtInv
<1>6. FinishedInv
  <2>1. Finished = {}
      BY <1>1 DEF Finished
  <2> QED BY <1>1, <2>1 DEF FinishedInv, Cyclic
<1>7. LogInv
    BY <1>1 DEF LogInv
<1> QED BY <1>2, <1>4, <1>5, <1>6, <1>7 DEF DfsInv

\* What a call of Dfs assigns has the types of what it was.
LEMMA CallTypes ==
    ASSUME DfsTypeOK, NEW v \in Ids, NEW left \in [Ids -> SUBSET Ids], Dfs(v, left), mVisitHistory[v] = -1
    PROVE  /\ mVisitHistory' \in [Ids -> Nat \cup {-1}]
           /\ mNextVisitOrder' \in Nat
           /\ frames' \in Seq(Ids)
           /\ unmet' \in [Ids -> SUBSET Ids]
<1>1. NextLocks(v) \in SUBSET Ids
    BY DEF NextLocks
<1>2. /\ mVisitHistory \in [Ids -> Nat \cup {-1}] /\ mNextVisitOrder \in Nat /\ frames \in Seq(Ids)
    BY DEF DfsTypeOK
<1>3. /\ mVisitHistory' = [mVisitHistory EXCEPT ![v] = mNextVisitOrder]
      /\ mNextVisitOrder' = mNextVisitOrder + 1
      /\ frames' = Append(frames, v) /\ unmet' = [left EXCEPT ![v] = NextLocks(v)]
    BY DEF Dfs
<1> QED BY <1>1, <1>2, <1>3

\* The loop of CheckCycle goes on to its next lock.
LEMMA CheckRootStep ==
    ASSUME DfsInv, CheckRoot
    PROVE  DfsInv'
<1>1. DfsTypeOK /\ FramesInv /\ DealtInv /\ FinishedInv /\ LogInv
    BY DEF DfsInv
<1>2. /\ nextRoot \in Nat /\ nextRoot \in Ids /\ nextRoot' = nextRoot + 1 /\ nextRoot' \in 0..LockCount
      /\ frames = <<>> /\ outcome = "searching" /\ log = <<>>
      /\ UNCHANGED <<lockGraph, mDfsFinished, mParent, walk, log>>
    BY <1>1 DEF CheckRoot, DfsTypeOK, Ids, LogInv
<1>3. Len(frames) = 0 /\ 1..Len(frames) = {} /\ \A u \in Ids : ~OnStack(u)
    BY <1>2 DEF OnStack
<1>4. FinishedInv'
    BY <1>1, <1>2, FinishedStays
<1>5. CASE mDfsFinished[nextRoot]
  <2>1. UNCHANGED <<mVisitHistory, mNextVisitOrder, frames, unmet, outcome>>
      BY <1>5 DEF CheckRoot
  <2>2. DfsTypeOK'
      BY <1>1, <1>2, <2>1 DEF DfsTypeOK
  <2>3. \A u \in Ids : u < nextRoot' => mVisitHistory'[u] # -1
    <3>1. mVisitHistory[nextRoot] # -1
        BY <1>1, <1>2, <1>5 DEF FramesInv
    <3>2. \A u \in Ids : u < nextRoot + 1 => u < nextRoot \/ u = nextRoot
        BY <1>2 DEF Ids
    <3> QED BY <1>1, <1>2, <2>1, <3>1, <3>2 DEF FramesInv
  <2>4. FramesInv'
      BY <1>1, <1>2, <2>1, <2>3 DEF FramesInv, OnStack
  <2>5. DealtInv'
      BY <1>1, <1>2, <2>1 DEF DealtInv, NextLocks
  <2>6. LogInv'
      BY <1>2, <2>1, SearchGoesOn
  <2> QED BY <1>4, <2>2, <2>4, <2>5, <2>6 DEF DfsInv
<1>6. CASE ~mDfsFinished[nextRoot]
  <2>1. Dfs(nextRoot, unmet)
      BY <1>6 DEF CheckRoot
  <2>2. mVisitHistory[nextRoot] = -1
      BY <1>1, <1>2, <1>3, <1>6 DEF FramesInv
  <2>3. /\ mVisitHistory' = [mVisitHistory EXCEPT ![nextRoot] = mNextVisitOrder]
        /\ mNextVisitOrder' = mNextVisitOrder + 1
        /\ frames' = Append(frames, nextRoot)
        /\ unmet' = [unmet EXCEPT ![nextRoot] = NextLocks(nextRoot)]
        /\ outcome' = outcome
      BY <2>1, <2>2 DEF Dfs
  <2>4. unmet \in [Ids -> SUBSET Ids]
      BY <1>1 DEF DfsTypeOK
  <2>5. DfsTypeOK'
    <3>1. /\ mVisitHistory' \in [Ids -> Nat \cup {-1}] /\ mNextVisitOrder' \in Nat
          /\ frames' \in Seq(Ids) /\ unmet' \in [Ids -> SUBSET Ids]
        BY <1>1, <1>2, <2>1, <2>2, <2>4, CallTypes
    <3> QED BY <1>1, <1>2, <2>3, <3>1 DEF DfsTypeOK
  <2>6. FramesInv'
      BY <1>1, <1>2, <2>2, <2>3, CallFrames
  <2>7. DealtInv'
      BY <1>1, <1>2, <1>3, <2>3, <2>4, CallDealt
  <2>8. LogInv'
      BY <1>2, <2>3, SearchGoesOn
  <2> QED BY <1>4, <2>5, <2>6, <2>7, <2>8 DEF DfsInv
<1> QED BY <1>5, <1>6

\* What the loop of the innermost Dfs has before it when it has met next.
LEMMA MetOne ==
    ASSUME DfsTypeOK, FramesInv, NEW next \in Ids, Meets(next)
    PROVE  /\ Met(next) \in [Ids -> SUBSET Ids]
           /\ \A u \in Ids : Met(next)[u] \subseteq unmet[u]
           /\ \A i \in 1..Len(frames), w \in Ids :
                 w \in unmet[frames[i]] /\ w \notin Met(next)[frames[i]] => i = Len(frames) /\ w = next
<1>1. /\ Len(frames) \in 1..Len(frames) /\ Current \in Ids /\ Current = frames[Len(frames)]
      /\ \A i \in 1..Len(frames) : frames[i] \in Ids
    BY FramesTyped DEF Meets, Current
<1>2. unmet \in [Ids -> SUBSET Ids] /\ Met(next) = [unmet EXCEPT ![Current] = @ \ {next}]
    BY DEF DfsTypeOK, Met
<1>3. /\ Met(next)[Current] = unmet[Current] \ {next}
      /\ \A u \in Ids \ {Current} : Met(next)[u] = unmet[u]
    BY <1>1, <1>2
<1>4. Met(next) \in [Ids -> SUBSET Ids]
  <2>1. unmet[Current] \ {next} \in SUBSET Ids
      BY <1>1, <1>2
  <2> QED BY <1>2, <2>1
<1>5. \A i \in 1..Len(frames) : frames[i] = Current => i = Len(frames)
    BY <1>1, FramesDistinct
<1> QED BY <1>1, <1>3, <1>4, <1>5

\* What is met is a next lock of the innermost one.
LEMMA MetEdge ==
    ASSUME DfsTypeOK, DealtInv, NEW next \in Ids, Meets(next)
    PROVE  Current \in Ids /\ <<Current, next>> \in lockGraph
<1>1. Current \in Ids /\ next \in unmet[Current]
    BY FramesTyped DEF Meets
<1> QED BY <1>1 DEF DealtInv, NextLocks

LEMMA VisitNextStep ==
    ASSUME DfsInv, NEW next \in Ids, VisitNext(next)
    PROVE  DfsInv'
<1>1. DfsTypeOK /\ FramesInv /\ DealtInv /\ FinishedInv /\ LogInv
    BY DEF DfsInv
<1>2. /\ Meets(next) /\ mVisitHistory[next] = -1 /\ Dfs(next, Met(next)) /\ frames # <<>>
      /\ outcome = "searching" /\ log = <<>>
      /\ mParent' = [mParent EXCEPT ![next] = Current]
      /\ UNCHANGED <<lockGraph, mDfsFinished, nextRoot, walk, log>>
    BY <1>1 DEF VisitNext, Meets, LogInv
<1>3. /\ mVisitHistory' = [mVisitHistory EXCEPT ![next] = mNextVisitOrder]
      /\ mNextVisitOrder' = mNextVisitOrder + 1
      /\ frames' = Append(frames, next)
      /\ unmet' = [Met(next) EXCEPT ![next] = NextLocks(next)]
      /\ outcome' = outcome
    BY <1>2 DEF Dfs
<1>4. Current \in Ids /\ <<Current, next>> \in lockGraph
    BY <1>1, <1>2, MetEdge
<1>5. /\ Met(next) \in [Ids -> SUBSET Ids]
      /\ \A u \in Ids : Met(next)[u] \subseteq unmet[u]
      /\ \A i \in 1..Len(frames), w \in Ids :
            w \in unmet[frames[i]] /\ w \notin Met(next)[frames[i]] => i = Len(frames) /\ w = next
    BY <1>1, <1>2, MetOne
<1>6. ~OnStack(next)
    BY <1>1, <1>2 DEF FramesInv
<1>7. DfsTypeOK'
  <2>1. /\ mVisitHistory' \in [Ids -> Nat \cup {-1}] /\ mNextVisitOrder' \in Nat
        /\ frames' \in Seq(Ids) /\ unmet' \in [Ids -> SUBSET Ids]
      BY <1>1, <1>2, <1>5, CallTypes
  <2>2. mParent' \in [Ids -> Ids \cup {-1}]
      BY <1>1, <1>2, <1>4 DEF DfsTypeOK
  <2> QED BY <1>1, <1>2, <1>3, <2>1, <2>2 DEF DfsTypeOK
<1>8. FramesInv'
    BY <1>1, <1>2, <1>3, <1>4, CallFrames
<1>9. DealtInv'
    BY <1>1, <1>2, <1>3, <1>5, <1>6, CallDealt
<1>10. FinishedInv'
    BY <1>1, <1>2, FinishedStays
<1>11. LogInv'
    BY <1>2, <1>3, SearchGoesOn
<1> QED BY <1>7, <1>8, <1>9, <1>10, <1>11 DEF DfsInv

\* A lock of the path was visited no later than the last one.
LEMMA BehindCurrent ==
    ASSUME DfsTypeOK, FramesInv, frames # <<>>, NEW i \in 1..Len(frames)
    PROVE  mVisitHistory[Current] >= mVisitHistory[frames[i]]
<1>1. /\ Len(frames) \in 1..Len(frames) /\ Current = frames[Len(frames)] /\ Len(frames) \in Nat
      /\ Current \in Ids /\ frames[i] \in Ids
    BY FramesTyped DEF Current
<1>2. mVisitHistory[Current] \in Int /\ mVisitHistory[frames[i]] \in Int
    BY <1>1 DEF DfsTypeOK
<1>3. CASE i = Len(frames)
    BY <1>1, <1>2, <1>3
<1>4. CASE i < Len(frames)
  <2>1. mVisitHistory[frames[i]] < mVisitHistory[Current]
      BY <1>1, <1>4 DEF FramesInv
  <2> QED BY <1>2, <2>1
<1>5. i = Len(frames) \/ i < Len(frames)
    BY <1>1
<1> QED BY <1>3, <1>4, <1>5

\* A next lock that is passed by is finished: had it been on the path, it would
\* have closed a cycle.
LEMMA PassNextStep ==
    ASSUME DfsInv, NEW next \in Ids, PassNext(next)
    PROVE  DfsInv'
<1>1. DfsTypeOK /\ FramesInv /\ DealtInv /\ FinishedInv /\ LogInv
    BY DEF DfsInv
<1>2. /\ Meets(next) /\ mVisitHistory[next] # -1 /\ ~IsBackEdge(next) /\ unmet' = Met(next)
      /\ frames # <<>> /\ outcome = "searching" /\ log = <<>>
      /\ UNCHANGED <<lockGraph, mVisitHistory, mNextVisitOrder, mDfsFinished, mParent, nextRoot, frames,
                     walk, log, outcome>>
    BY <1>1 DEF PassNext, Meets, LogInv
<1>3. mDfsFinished[next]
  <2>1. SUFFICES ASSUME OnStack(next) PROVE mVisitHistory[Current] >= mVisitHistory[next]
      BY <1>1, <1>2 DEF IsBackEdge, FramesInv
  <2>2. PICK i \in 1..Len(frames) : frames[i] = next
      BY <2>1 DEF OnStack
  <2> QED BY <1>1, <1>2, <2>2, BehindCurrent
<1>4. /\ Met(next) \in [Ids -> SUBSET Ids]
      /\ \A u \in Ids : Met(next)[u] \subseteq unmet[u]
      /\ \A i \in 1..Len(frames), w \in Ids :
            w \in unmet[frames[i]] /\ w \notin Met(next)[frames[i]] => i = Len(frames) /\ w = next
    BY <1>1, <1>2, MetOne
<1>5. DfsTypeOK'
    BY <1>1, <1>2, <1>4 DEF DfsTypeOK
<1>6. FramesInv'
    BY <1>1, <1>2 DEF FramesInv, OnStack
<1>7. DealtInv'
  <2>1. \A u \in Ids : unmet'[u] \subseteq NextLocks(u)'
      BY <1>1, <1>2, <1>4 DEF DealtInv, NextLocks
  <2>2. ASSUME NEW i \in 1..Len(frames), NEW w \in Ids,
               <<frames[i], w>> \in lockGraph, w \notin Met(next)[frames[i]]
        PROVE  mDfsFinished[w] \/ (i < Len(frames) /\ w = frames[i + 1])
    <3>1. CASE w \in unmet[frames[i]]
        BY <1>3, <1>4, <2>2, <3>1
    <3>2. CASE w \notin unmet[frames[i]]
        BY <1>1, <2>2, <3>2 DEF DealtInv
    <3> QED BY <3>1, <3>2
  <2> QED BY <1>2, <2>1, <2>2 DEF DealtInv
<1>8. FinishedInv'
    BY <1>1, <1>2, FinishedStays
<1>9. LogInv'
    BY <1>2, SearchGoesOn
<1> QED BY <1>5, <1>6, <1>7, <1>8, <1>9 DEF DfsInv

\* The conjuncts about the search hold on while none of its variables changes.
LEMMA SearchKept ==
    ASSUME FramesInv, DealtInv, FinishedInv, UNCHANGED <<lockGraph, searchVars>>
    PROVE  FramesInv' /\ DealtInv' /\ FinishedInv'
<1>1. FramesInv'
    BY DEF FramesInv, OnStack, searchVars
<1>2. DealtInv'
    BY DEF DealtInv, NextLocks, searchVars
<1>3. FinishedInv'
    BY FinishedStays DEF searchVars
<1> QED BY <1>1, <1>2, <1>3

\* An edge back to the path: the log begins with the lock it leads to.
LEMMA FindCycleStep ==
    ASSUME DfsInv, NEW next \in Ids, FindCycle(next)
    PROVE  DfsInv'
<1>1. DfsTypeOK /\ FramesInv /\ DealtInv /\ FinishedInv /\ LogInv
    BY DEF DfsInv
<1>2. /\ Meets(next) /\ mVisitHistory[next] # -1 /\ ~mDfsFinished[next] /\ frames # <<>>
      /\ outcome' = "logging" /\ log' = <<next>> /\ walk' = Current
      /\ UNCHANGED <<lockGraph, searchVars>>
    BY DEF FindCycle, IsBackEdge, Meets
<1>3. /\ Current \in Ids /\ <<Current, next>> \in lockGraph
      /\ Len(frames) \in 1..Len(frames) /\ Current = frames[Len(frames)] /\ Len(frames) \in Nat
    BY <1>1, <1>2, MetEdge, FramesTyped DEF Current
<1>4. PICK k \in 1..Len(frames) : frames[k] = next
    BY <1>1, <1>2 DEF FramesInv, OnStack
<1>5. frames' = frames /\ lockGraph' = lockGraph
    BY <1>2 DEF searchVars
<1>6. DfsTypeOK'
    BY <1>1, <1>2, <1>3 DEF DfsTypeOK, searchVars
<1>7. LogInv'
  <2>1. Logged(k, Len(frames))'
    <3>1. Len(log') = 1 /\ log'[1] = next /\ Len(frames) - Len(frames) + 1 = 1 /\ 2..1 = {}
        BY <1>2, <1>3
    <3> QED BY <1>4, <1>5, <3>1 DEF Logged
  <2>2. ClosesCycle(k)'
      BY <1>3, <1>4, <1>5 DEF ClosesCycle
  <2>3. k <= Len(frames)
      OBVIOUS
  <2>4. \E i, j \in 1..Len(frames') : i <= j /\ ClosesCycle(i)' /\ walk' = frames'[j] /\ Logged(i, j)'
      BY <1>2, <1>3, <1>4, <1>5, <2>1, <2>2, <2>3
  <2> QED BY <1>2, <2>4 DEF LogInv
<1> QED BY <1>1, <1>2, <1>6, <1>7, SearchKept DEF DfsInv

\* One more lock of the path is logged.
LEMMA LogGrows ==
    ASSUME DfsTypeOK, NEW k \in 1..Len(frames), NEW j \in 1..Len(frames), Logged(k, j),
           log' = Append(log, frames[j]), frames' = frames
    PROVE  Logged(k, j - 1)' /\ log' \in Seq(Ids) /\ Len(log) >= 1 /\ log[1] = frames[k]
<1>1. log \in Seq(Ids) /\ Len(frames) \in Nat /\ frames[j] \in Ids
    BY FramesTyped DEF DfsTypeOK
<1>2. Len(log) = Len(frames) - j + 1 /\ log[1] = frames[k]
    BY DEF Logged
<1>3. Len(log) \in Nat /\ Len(log) >= 1 /\ Len(frames) + 2 - (Len(log) + 1) = j
    BY <1>1, <1>2
<1>4. /\ log' \in Seq(Ids) /\ Len(log') = Len(log) + 1 /\ log'[Len(log) + 1] = frames[j]
      /\ \A i \in 1..Len(log) : log'[i] = log[i]
    BY <1>1
<1>5. Len(log') = Len(frames') - (j - 1) + 1
    BY <1>1, <1>2, <1>4
<1>6. log'[1] = frames'[k]
    BY <1>2, <1>3, <1>4
<1>7. ASSUME NEW i \in 2..Len(log') PROVE log'[i] = frames'[Len(frames') + 2 - i]
  <2>1. CASE i = Len(log) + 1
      BY <1>3, <1>4, <2>1
  <2>2. CASE i \in 2..Len(log)
    <3>1. log[i] = frames[Len(frames) + 2 - i]
        BY <2>2 DEF Logged
    <3>2. i \in 1..Len(log)
        BY <1>3, <2>2
    <3> QED BY <1>4, <3>1, <3>2
  <2>3. i = Len(log) + 1 \/ i \in 2..Len(log)
      BY <1>3, <1>4
  <2> QED BY <2>1, <2>2, <2>3
<1>8. Logged(k, j - 1)'
    BY <1>5, <1>6, <1>7 DEF Logged
<1> QED BY <1>2, <1>3, <1>4, <1>8

LEMMA LogNextStep ==
    ASSUME DfsInv, LogNext
    PROVE  DfsInv'
<1>1. DfsTypeOK /\ FramesInv /\ DealtInv /\ FinishedInv /\ LogInv
    BY DEF DfsInv
<1>2. /\ outcome = "logging" /\ log' = Append(log, walk) /\ UNCHANGED <<lockGraph, searchVars>>
      /\ IF walk = log[1] THEN outcome' = "DEADLOCK_DETECTED" /\ UNCHANGED walk
                          ELSE walk' = mParent[walk] /\ UNCHANGED outcome
    BY DEF LogNext
<1>3. PICK k, j \in 1..Len(frames) : k <= j /\ ClosesCycle(k) /\ walk = frames[j] /\ Logged(k, j)
    BY <1>1, <1>2 DEF LogInv
<1>4. frames' = frames /\ lockGraph' = lockGraph /\ mParent' = mParent
    BY <1>2 DEF searchVars
<1>5. Logged(k, j - 1)' /\ log' \in Seq(Ids) /\ log[1] = frames[k]
    BY <1>1, <1>2, <1>3, <1>4, LogGrows
<1>6. Len(frames) \in Nat /\ \A i \in 1..Len(frames) : frames[i] \in Ids
    BY <1>1, FramesTyped
<1>7. ClosesCycle(k)'
    BY <1>3, <1>4 DEF ClosesCycle
<1>8. FramesInv' /\ DealtInv' /\ FinishedInv'
    BY <1>1, <1>2, SearchKept
<1>9. CASE walk = log[1]
  <2>1. j = k
      BY <1>1, <1>3, <1>5, <1>9, FramesDistinct
  <2>2. outcome' = "DEADLOCK_DETECTED" /\ walk' = walk
      BY <1>2, <1>9
  <2>3. DfsTypeOK'
      BY <1>1, <1>2, <1>5, <2>2 DEF DfsTypeOK, searchVars
  <2>4. \E i \in 1..Len(frames') : ClosesCycle(i)' /\ Logged(i, i - 1)'
      BY <1>4, <1>5, <1>7, <2>1
  <2>5. LogInv'
      BY <2>2, <2>4 DEF LogInv
  <2> QED BY <1>8, <2>3, <2>5 DEF DfsInv
<1>10. CASE walk # log[1]
  <2>1. outcome' = "logging" /\ walk' = mParent[walk]
      BY <1>2, <1>10
  <2>2. j - 1 \in 1..Len(frames) /\ k <= j - 1 /\ j - 1 < Len(frames) /\ j - 1 + 1 = j
      BY <1>3, <1>5, <1>6, <1>10
  <2>3. walk' = frames[j - 1] /\ walk' \in Ids
      BY <1>1, <1>3, <1>6, <2>1, <2>2 DEF FramesInv
  <2>4. DfsTypeOK'
      BY <1>1, <1>2, <1>5, <2>1, <2>3 DEF DfsTypeOK, searchVars
  <2>5. \E a, b \in 1..Len(frames') : a <= b /\ ClosesCycle(a)' /\ walk' = frames'[b] /\ Logged(a, b)'
      BY <1>4, <1>5, <1>7, <2>2, <2>3
  <2>6. LogInv'
      BY <2>1, <2>5 DEF LogInv
  <2> QED BY <1>8, <2>4, <2>6 DEF DfsInv
<1> QED BY <1>9, <1>10

LEMMA CheckReturnsStep ==
    ASSUME DfsInv, CheckReturns
    PROVE  DfsInv'
<1>1. DfsTypeOK /\ FramesInv /\ DealtInv /\ FinishedInv /\ LogInv
    BY DEF DfsInv
<1>2. /\ frames = <<>> /\ nextRoot = LockCount /\ outcome' = "acyclic" /\ log = <<>>
      /\ UNCHANGED <<lockGraph, searchVars, walk, log>>
    BY <1>1 DEF CheckReturns, LogInv
<1>3. DfsTypeOK'
    BY <1>1, <1>2 DEF DfsTypeOK, searchVars
<1>4. LogInv'
    BY <1>2 DEF LogInv, searchVars
<1> QED BY <1>1, <1>2, <1>3, <1>4, SearchKept DEF DfsInv

LEMMA DfsReturnsStep ==
    ASSUME DfsInv, DfsReturns
    PROVE  DfsInv'
<1>1. DfsTypeOK /\ FramesInv /\ DealtInv /\ FinishedInv /\ LogInv
    BY DEF DfsInv
<1>2. /\ frames # <<>> /\ outcome = "searching" /\ log = <<>>
      /\ frames' = SubSeq(frames, 1, Len(frames) - 1)
      /\ mDfsFinished' = [mDfsFinished EXCEPT ![Current] = TRUE]
      /\ UNCHANGED <<lockGraph, mVisitHistory, mNextVisitOrder, mParent, nextRoot, unmet, walk, log, outcome>>
    BY <1>1 DEF DfsReturns, WithFinished, LogInv
<1>3. DfsTypeOK'
  <2>1. frames' \in Seq(Ids)
      BY <1>1, <1>2, FrontOf DEF DfsTypeOK
  <2>2. mDfsFinished' \in [Ids -> BOOLEAN]
      BY <1>1, <1>2 DEF DfsTypeOK
  <2> QED BY <1>1, <1>2, <2>1, <2>2 DEF DfsTypeOK
<1>4. LogInv'
    BY <1>2, SearchGoesOn
<1> QED BY <1>1, <1>3, <1>4, ReturnStep DEF DfsInv

LEMMA DfsInvStep ==
    ASSUME DfsInv, [DfsNext]_dfsVars
    PROVE  DfsInv'
<1>1. CASE CheckRoot
    BY <1>1, CheckRootStep
<1>2. CASE CheckReturns
    BY <1>2, CheckReturnsStep
<1>3. ASSUME NEW next \in Ids, VisitNext(next) PROVE DfsInv'
    BY <1>3, VisitNextStep
<1>4. ASSUME NEW next \in Ids, PassNext(next) PROVE DfsInv'
    BY <1>4, PassNextStep
<1>5. ASSUME NEW next \in Ids, FindCycle(next) PROVE DfsInv'
    BY <1>5, FindCycleStep
<1>6. CASE DfsReturns
    BY <1>6, DfsReturnsStep
<1>7. CASE LogNext
    BY <1>7, LogNextStep
<1>8. CASE UNCHANGED dfsVars
  <2>1. DfsTypeOK' /\ LogInv'
      BY <1>8 DEF DfsInv, DfsTypeOK, LogInv, ClosesCycle, Logged, dfsVars, searchVars
  <2>2. UNCHANGED <<lockGraph, searchVars>>
      BY <1>8 DEF dfsVars
  <2> QED BY <2>1, <2>2, SearchKept DEF DfsInv
<1> QED BY <1>1, <1>2, <1>3, <1>4, <1>5, <1>6, <1>7, <1>8 DEF DfsNext

\* The calls under way are no more than there are locks.
LEMMA DepthBound ==
    ASSUME DfsInv
    PROVE  Len(frames) \in Nat /\ Len(frames) <= LockCount
<1> DEFINE n == Len(frames)
           f == [i \in 1..n |-> frames[i]]
<1>1. n \in Nat /\ \A i \in 1..n : frames[i] \in Ids
    BY FramesTyped DEF DfsInv
<1>2. \A i, j \in 1..n : frames[i] = frames[j] => i = j
    BY FramesDistinct DEF DfsInv
<1>3. f \in Injection(1..n, Ids)
  <2>1. f \in [1..n -> Ids]
      BY <1>1
  <2>2. \A i, j \in 1..n : f[i] = f[j] => i = j
      BY <1>2
  <2> HIDE DEF f
  <2> QED BY <2>1, <2>2 DEF Injection, IsInjective
<1>4. IsFiniteSet(Ids) /\ Cardinality(Ids) = LockCount
  <2>1. 0 \in Int /\ LockCount - 1 \in Int
      OBVIOUS
  <2>2. IsFiniteSet(0..(LockCount - 1))
      BY <2>1, FS_Interval
  <2>3. Cardinality(0..(LockCount - 1)) = IF 0 > LockCount - 1 THEN 0 ELSE LockCount - 1 - 0 + 1
      BY <2>1, FS_Interval
  <2>4. (IF 0 > LockCount - 1 THEN 0 ELSE LockCount - 1 - 0 + 1) = LockCount
      OBVIOUS
  <2> QED BY <2>2, <2>3, <2>4 DEF Ids
<1>5. Cardinality(1..n) = n
  <2>1. 1 \in Int /\ n \in Int
      BY <1>1
  <2>2. Cardinality(1..n) = IF 1 > n THEN 0 ELSE n - 1 + 1
      BY <2>1, FS_Interval
  <2> QED BY <1>1, <2>2
<1> HIDE DEF f
<1>6. Cardinality(1..n) <= Cardinality(Ids)
    BY <1>3, <1>4, FS_Injection
<1> QED BY <1>1, <1>4, <1>5, <1>6

\* The locks of the path from frame k on, with the edge back to it.
LEMMA PathCloses ==
    ASSUME DfsInv, NEW k, ClosesCycle(k)
    PROVE  Cyclic(Ids, lockGraph)
<1> DEFINE n == Len(frames)
           S == {v \in Ids : \E i \in k..n : frames[i] = v}
<1>1. k \in 1..n /\ <<frames[n], frames[k]>> \in lockGraph
    BY DEF ClosesCycle
<1>2. n \in Nat /\ \A i \in 1..n : frames[i] \in Ids
    BY FramesTyped DEF DfsInv
<1>3. \A i \in k..n : i \in 1..n /\ (i = n \/ (i < n /\ i + 1 \in k..n))
    BY <1>1, <1>2
<1>4. k \in k..n
    BY <1>1, <1>2
<1>5. \A i \in k..n : frames[i] \in S
    BY <1>2, <1>3
<1>6. ASSUME NEW x \in S PROVE \E y \in S : <<x, y>> \in lockGraph
  <2>1. PICK i \in k..n : frames[i] = x
      OBVIOUS
  <2>2. CASE i = n
      BY <1>1, <1>4, <1>5, <2>1, <2>2
  <2>3. CASE i < n /\ i + 1 \in k..n
    <3>1. <<frames[i], frames[i + 1]>> \in lockGraph
        BY <1>3, <2>3 DEF DfsInv, FramesInv
    <3> QED BY <1>5, <2>1, <2>3, <3>1
  <2> QED BY <1>3, <2>2, <2>3
<1>7. S \in SUBSET Ids /\ S # {}
    BY <1>4, <1>5
<1> HIDE DEF S
<1> QED BY <1>6, <1>7 DEF Cyclic

\* The log, once it is complete, names the path from frame k on, backwards,
\* between two mentions of the lock of frame k.
LEMMA CompleteLog ==
    ASSUME DfsInv, NEW k, ClosesCycle(k), Logged(k, k - 1)
    PROVE  LogNamesCycle
<1> DEFINE n == Len(frames)
<1>1. k \in 1..n /\ <<frames[n], frames[k]>> \in lockGraph /\ n \in Nat
    BY FramesTyped DEF ClosesCycle, DfsInv
<1>2. Len(log) = n - k + 2 /\ Len(log) \in 2..(n + 1) /\ log[1] = frames[k]
    BY <1>1 DEF Logged
<1>3. \A i \in 2..Len(log) : log[i] = frames[n + 2 - i] /\ n + 2 - i \in 1..n
  <2>1. \A i \in 2..Len(log) : log[i] = frames[n + 2 - i]
      BY DEF Logged
  <2>2. \A m \in 2..(n + 1) : \A i \in 2..m : n + 2 - i \in 1..n
      BY <1>1
  <2> QED BY <1>2, <2>1, <2>2
<1>4. Len(log) > 1 /\ log[Len(log)] = log[1]
  <2>1. Len(log) \in 2..Len(log) /\ n + 2 - Len(log) = k
      BY <1>1, <1>2
  <2> QED BY <1>2, <1>3, <2>1
<1>5. ASSUME NEW i \in 1..(Len(log) - 1) PROVE <<log[i + 1], log[i]>> \in lockGraph
  <2>1. i + 1 \in 2..Len(log)
      BY <1>2
  <2>2. CASE i = 1
    <3>1. n + 2 - (i + 1) = n
        BY <1>1, <2>2
    <3>2. log[i + 1] = frames[n]
        BY <1>3, <2>1, <3>1
    <3> QED BY <1>1, <1>2, <2>2, <3>2
  <2>3. CASE i # 1
    <3> DEFINE m == n + 2 - (i + 1)
    <3>1. i \in 2..Len(log) /\ m \in 1..n /\ m < n /\ n + 2 - i = m + 1
        BY <1>1, <1>2, <2>3
    <3>2. log[i + 1] = frames[m] /\ log[i] = frames[m + 1]
        BY <1>3, <2>1, <3>1
    <3> HIDE DEF m
    <3>3. <<frames[m], frames[m + 1]>> \in lockGraph
        BY <3>1 DEF DfsInv, FramesInv
    <3> QED BY <3>2, <3>3
  <2> QED BY <2>2, <2>3
<1>6. ASSUME NEW i \in 2..Len(log), NEW j \in 2..Len(log), log[i] = log[j] PROVE i = j
  <2>1. n + 2 - i = n + 2 - j
    <3>1. frames[n + 2 - i] = frames[n + 2 - j] /\ n + 2 - i \in 1..n /\ n + 2 - j \in 1..n
        BY <1>3, <1>6
    <3>2. \A a, b \in 1..n : frames[a] = frames[b] => a = b
        BY FramesDistinct DEF DfsInv
    <3> QED BY <3>1, <3>2
  <2> QED BY <1>1, <2>1
<1> QED BY <1>4, <1>5, <1>6 DEF LogNamesCycle

LEMMA InvFindsCycles ==
    ASSUME DfsInv
    PROVE  FindsCycles
<1>1. ASSUME outcome = "acyclic" PROVE ~Cyclic(Ids, lockGraph)
  <2>1. frames = <<>> /\ nextRoot = LockCount
      BY <1>1 DEF DfsInv, LogInv
  <2>2. \A v \in Ids : v < nextRoot /\ ~OnStack(v)
      BY <2>1 DEF Ids, OnStack
  <2>3. \A v \in Ids : mDfsFinished[v]
      BY <2>2 DEF DfsInv, FramesInv
  <2>4. Finished = Ids
      BY <2>3 DEF Finished
  <2> QED BY <2>4 DEF DfsInv, FinishedInv
<1>2. ASSUME outcome \in {"logging", "DEADLOCK_DETECTED"} PROVE Cyclic(Ids, lockGraph)
  <2>1. \E k \in 1..Len(frames) : ClosesCycle(k)
      BY <1>2 DEF DfsInv, LogInv
  <2> QED BY <2>1, PathCloses
<1>3. ASSUME outcome = "logging" PROVE walk \in Ids
  <2>1. \A i \in 1..Len(frames) : frames[i] \in Ids
      BY FramesTyped DEF DfsInv
  <2> QED BY <1>3, <2>1 DEF DfsInv, LogInv
<1>4. ASSUME outcome = "DEADLOCK_DETECTED" PROVE LogNamesCycle
  <2>1. PICK k : ClosesCycle(k) /\ Logged(k, k - 1)
      BY <1>4 DEF DfsInv, LogInv
  <2> QED BY <2>1, CompleteLog
<1>5. outcome # "MULTIPLE_DFS"
    BY DEF DfsInv, LogInv
<1> QED BY <1>1, <1>2, <1>3, <1>4, <1>5 DEF FindsCycles

LEMMA InvSearchBounded ==
    ASSUME DfsInv
    PROVE  SearchBounded
<1>1. Len(frames) \in Nat /\ Len(frames) <= LockCount
    BY DepthBound
<1>2. Len(log) <= LockCount + 1
  <2>1. CASE outcome \in {"searching", "acyclic"}
    <3>1. log = <<>>
        BY <2>1 DEF DfsInv, LogInv
    <3> QED BY <3>1
  <2>2. CASE outcome = "logging"
    <3>1. PICK k, j \in 1..Len(frames) : Logged(k, j)
        BY <2>2 DEF DfsInv, LogInv
    <3>2. Len(log) = Len(frames) - j + 1
        BY <3>1 DEF Logged
    <3> QED BY <1>1, <3>2
  <2>3. CASE outcome = "DEADLOCK_DETECTED"
    <3>1. PICK k \in 1..Len(frames) : Logged(k, k - 1)
        BY <2>3 DEF DfsInv, LogInv
    <3>2. Len(log) = Len(frames) - (k - 1) + 1
        BY <3>1 DEF Logged
    <3> QED BY <1>1, <3>2
  <2> QED BY <2>1, <2>2, <2>3 DEF DfsInv, DfsTypeOK, LogInv
<1> QED BY <1>1, <1>2 DEF SearchBounded

\* A lock that is visited now: the search has more behind it.
LEMMA CallAdvances ==
    ASSUME DfsTypeOK, NEW v \in Ids, mVisitHistory[v] = -1,
           NEW left \in [Ids -> SUBSET Ids], \A u \in Ids : left[u] \subseteq unmet[u],
           mVisitHistory' = [mVisitHistory EXCEPT ![v] = mNextVisitOrder],
           unmet' = [left EXCEPT ![v] = NextLocks(v)], lockGraph' = lockGraph
    PROVE  Visited \subseteq Visited' /\ Visited # Visited' /\ Dealt \subseteq Dealt'
<1>1. /\ mVisitHistory'[v] = mNextVisitOrder /\ mNextVisitOrder # -1
      /\ \A u \in Ids \ {v} : mVisitHistory'[u] = mVisitHistory[u]
    BY DEF DfsTypeOK
<1>2. \A u \in Ids \ {v} : unmet'[u] = left[u]
    OBVIOUS
<1>3. v \notin Visited /\ v \in Visited' /\ Visited \subseteq Visited'
    BY <1>1 DEF Visited
<1>4. ASSUME NEW e \in Dealt PROVE e \in Dealt'
  <2>1. e \in lockGraph /\ e[1] \in Visited /\ e[2] \notin unmet[e[1]]
      BY DEF Dealt
  <2>2. e[1] \in Ids \ {v}
      BY <1>3, <2>1 DEF Visited
  <2>3. e[2] \notin unmet'[e[1]]
      BY <1>2, <2>1, <2>2
  <2> QED BY <1>3, <2>1, <2>3 DEF Dealt
<1> QED BY <1>3, <1>4

\* A next lock that is passed by: one more edge has been dealt with.
LEMMA PassAdvances ==
    ASSUME DfsInv, NEW next \in Ids, PassNext(next)
    PROVE  Visited' = Visited /\ Dealt \subseteq Dealt' /\ Dealt # Dealt'
<1>1. /\ Meets(next) /\ unmet' = Met(next) /\ next \in unmet[Current]
      /\ UNCHANGED <<lockGraph, mVisitHistory>>
    BY DEF PassNext, Meets
<1>2. /\ \A u \in Ids : Met(next)[u] \subseteq unmet[u]
      /\ Current \in Ids /\ <<Current, next>> \in lockGraph
    BY <1>1, MetOne, MetEdge DEF DfsInv
<1>3. Visited' = Visited
    BY <1>1 DEF Visited
<1>4. Current \in Visited
  <2>1. Len(frames) \in 1..Len(frames) /\ Current = frames[Len(frames)]
      BY <1>1, FramesTyped DEF DfsInv, Meets, Current
  <2>2. OnStack(Current)
      BY <2>1 DEF OnStack
  <2> QED BY <1>2, <2>2 DEF DfsInv, FramesInv, Visited
<1>5. next \notin Met(next)[Current]
    BY <1>2 DEF Met, DfsInv, DfsTypeOK
<1>6. <<Current, next>> \notin Dealt /\ <<Current, next>> \in Dealt'
    BY <1>1, <1>2, <1>3, <1>4, <1>5 DEF Dealt
<1>7. ASSUME NEW e \in Dealt PROVE e \in Dealt'
  <2>1. e \in lockGraph /\ e[1] \in Visited /\ e[1] \in Ids /\ e[2] \notin unmet[e[1]]
      BY DEF Dealt, Visited
  <2>2. e[2] \notin unmet'[e[1]]
      BY <1>1, <1>2, <2>1
  <2> QED BY <1>1, <1>3, <2>1, <2>2 DEF Dealt
<1> QED BY <1>3, <1>6, <1>7

\* What a step leaves behind it while no variable of the search changes.
LEMMA NothingLost ==
    ASSUME UNCHANGED <<lockGraph, searchVars>>
    PROVE  nextRoot' = nextRoot /\ Visited' = Visited /\ Dealt' = Dealt /\ Finished' = Finished
BY DEF searchVars, Visited, Dealt, Finished

LEMMA StepAdvances ==
    ASSUME DfsInv, DfsNext
    PROVE  /\ nextRoot <= nextRoot' /\ Visited \subseteq Visited' /\ Dealt \subseteq Dealt'
           /\ Finished \subseteq Finished'
           /\ Len(log) <= Len(log') /\ \A i \in 1..Len(log) : log'[i] = log[i]
           /\ \/ nextRoot # nextRoot' \/ Visited # Visited' \/ Dealt # Dealt'
              \/ Finished # Finished' \/ log # log' \/ outcome' = "acyclic"
<1> DEFINE Goal == /\ nextRoot <= nextRoot' /\ Visited \subseteq Visited' /\ Dealt \subseteq Dealt'
                   /\ Finished \subseteq Finished'
                   /\ Len(log) <= Len(log') /\ \A i \in 1..Len(log) : log'[i] = log[i]
                   /\ \/ nextRoot # nextRoot' \/ Visited # Visited' \/ Dealt # Dealt'
                      \/ Finished # Finished' \/ log # log' \/ outcome' = "acyclic"
<1> SUFFICES Goal
    OBVIOUS
<1>1. DfsTypeOK /\ nextRoot \in Int /\ log \in Seq(Ids) /\ Len(log) \in Nat
    BY DEF DfsInv, DfsTypeOK
<1>2. unmet \in [Ids -> SUBSET Ids]
    BY <1>1 DEF DfsTypeOK
<1>3. log' = log => Len(log) <= Len(log') /\ \A i \in 1..Len(log) : log'[i] = log[i]
    BY <1>1
<1>4. mDfsFinished' = mDfsFinished => Finished' = Finished
    BY DEF Finished
<1>5. CASE CheckRoot
  <2>1. /\ nextRoot' = nextRoot + 1 /\ nextRoot \in Ids /\ lockGraph' = lockGraph /\ log' = log
        /\ mDfsFinished' = mDfsFinished /\ frames = <<>>
      BY <1>1, <1>5 DEF CheckRoot, DfsTypeOK, Ids
  <2>2. nextRoot <= nextRoot' /\ nextRoot # nextRoot'
      BY <1>1, <2>1
  <2>3. Visited \subseteq Visited' /\ Dealt \subseteq Dealt'
    <3>1. CASE ~mDfsFinished[nextRoot]
      <4>1. ~OnStack(nextRoot)
          BY <2>1 DEF OnStack
      <4>2. mVisitHistory[nextRoot] = -1
          BY <2>1, <3>1, <4>1 DEF DfsInv, FramesInv
      <4>3. /\ mVisitHistory' = [mVisitHistory EXCEPT ![nextRoot] = mNextVisitOrder]
            /\ unmet' = [unmet EXCEPT ![nextRoot] = NextLocks(nextRoot)]
          BY <1>5, <3>1, <4>2 DEF CheckRoot, Dfs
      <4> QED BY <1>1, <1>2, <2>1, <4>2, <4>3, CallAdvances
    <3>2. CASE mDfsFinished[nextRoot]
      <4>1. UNCHANGED <<lockGraph, mVisitHistory, unmet>>
          BY <1>5, <3>2 DEF CheckRoot
      <4> QED BY <4>1 DEF Visited, Dealt
    <3> QED BY <3>1, <3>2
  <2> QED BY <1>3, <1>4, <2>1, <2>2, <2>3
<1>6. CASE CheckReturns
  <2>1. UNCHANGED <<lockGraph, searchVars>> /\ log' = log /\ outcome' = "acyclic"
      BY <1>6 DEF CheckReturns
  <2> QED BY <1>1, <1>3, <2>1, NothingLost
<1>7. ASSUME NEW next \in Ids, VisitNext(next) PROVE Goal
  <2>1. /\ Meets(next) /\ mVisitHistory[next] = -1 /\ lockGraph' = lockGraph /\ log' = log
        /\ mDfsFinished' = mDfsFinished /\ nextRoot' = nextRoot
        /\ mVisitHistory' = [mVisitHistory EXCEPT ![next] = mNextVisitOrder]
        /\ unmet' = [Met(next) EXCEPT ![next] = NextLocks(next)]
      BY <1>7 DEF VisitNext, Dfs
  <2>2. Met(next) \in [Ids -> SUBSET Ids] /\ \A u \in Ids : Met(next)[u] \subseteq unmet[u]
      BY <2>1, MetOne DEF DfsInv
  <2>3. Visited \subseteq Visited' /\ Visited # Visited' /\ Dealt \subseteq Dealt'
      BY <1>1, <2>1, <2>2, CallAdvances
  <2> QED BY <1>1, <1>3, <1>4, <2>1, <2>3
<1>8. ASSUME NEW next \in Ids, PassNext(next) PROVE Goal
  <2>1. log' = log /\ mDfsFinished' = mDfsFinished /\ nextRoot' = nextRoot
      BY <1>8 DEF PassNext
  <2>2. Visited' = Visited /\ Dealt \subseteq Dealt' /\ Dealt # Dealt'
      BY <1>8, PassAdvances
  <2> QED BY <1>1, <1>3, <1>4, <2>1, <2>2
<1>9. ASSUME NEW next \in Ids, FindCycle(next) PROVE Goal
  <2>1. log = <<>> /\ log' = <<next>> /\ UNCHANGED <<lockGraph, searchVars>>
      BY <1>9 DEF FindCycle, Meets, DfsInv, LogInv
  <2>2. Len(log) = 0 /\ Len(log') = 1 /\ log # log' /\ 1..Len(log) = {}
      BY <2>1
  <2> QED BY <1>1, <2>1, <2>2, NothingLost
<1>10. CASE DfsReturns
  <2>1. /\ mDfsFinished' = [mDfsFinished EXCEPT ![Current] = TRUE] /\ frames # <<>> /\ log' = log
        /\ UNCHANGED <<lockGraph, mVisitHistory, unmet, nextRoot>>
      BY <1>10 DEF DfsReturns, WithFinished
  <2>2. Current \in Ids /\ ~mDfsFinished[Current]
    <3>1. Current \in Ids /\ OnStack(Current)
        BY <1>1, <2>1, FramesTyped DEF OnStack, Current
    <3> QED BY <3>1 DEF DfsInv, FramesInv
  <2>3. Finished \subseteq Finished' /\ Current \in Finished' /\ Current \notin Finished
      BY <1>1, <2>1, <2>2 DEF Finished, DfsTypeOK
  <2>4. Visited' = Visited /\ Dealt' = Dealt
      BY <2>1 DEF Visited, Dealt
  <2> QED BY <1>1, <1>3, <2>1, <2>3, <2>4
<1>11. CASE LogNext
  <2>1. outcome = "logging" /\ log' = Append(log, walk) /\ UNCHANGED <<lockGraph, searchVars>>
      BY <1>11 DEF LogNext
  <2>2. walk \in Ids
      BY <2>1, InvFindsCycles DEF FindsCycles
  <2>3. Len(log') = Len(log) + 1 /\ \A i \in 1..Len(log) : log'[i] = log[i]
      BY <1>1, <2>1, <2>2
  <2>4. Len(log) <= Len(log') /\ log # log'
      BY <1>1, <2>3
  <2> QED BY <1>1, <2>1, <2>3, <2>4, NothingLost
<1> HIDE DEF Goal
<1> QED BY <1>5, <1>6, <1>7, <1>8, <1>9, <1>10, <1>11 DEF DfsNext

\* The search never leaves what its inductive invariant says: the calls of Dfs
\* under way are a path of the graph, and what is finished leads to nothing else
\* and holds no cycle.
THEOREM DfsInvHolds == DfsSpec => []DfsInv
<1>1. DfsInv /\ [DfsNext]_dfsVars => DfsInv'
    BY DfsInvStep
<1> QED BY DfsInitInv, <1>1, PTL DEF DfsSpec

\* The members of CheckCycle keep their types, whatever number of locks there is.
THEOREM DfsTypeCorrect == DfsSpec => []DfsTypeOK
<1>1. DfsInv => DfsTypeOK
    BY DEF DfsInv
<1> QED BY <1>1, DfsInvHolds, PTL

\* CheckCycle returns only when the graph has no cycle and crashes only when it has
\* one, which the log names, for any number of locks and any order in which the hash
\* sets are walked.
THEOREM FindsCyclesHolds == DfsSpec => []FindsCycles
<1>1. DfsInv => FindsCycles
    BY InvFindsCycles
<1> QED BY <1>1, DfsInvHolds, PTL

\* No more calls of Dfs are under way than there are locks, and the log never names
\* more than all of them and one again.
THEOREM SearchBoundedHolds == DfsSpec => []SearchBounded
<1>1. DfsInv => SearchBounded
    BY InvSearchBounded
<1> QED BY <1>1, DfsInvHolds, PTL

\* Every step of CheckCycle adds to what is behind it and takes nothing back: with
\* finitely many locks it can take only finitely many.
THEOREM SearchAdvancesHolds == DfsSpec => SearchAdvances
<1> DEFINE Advances == /\ nextRoot <= nextRoot' /\ Visited \subseteq Visited' /\ Dealt \subseteq Dealt'
                       /\ Finished \subseteq Finished'
                       /\ Len(log) <= Len(log') /\ \A i \in 1..Len(log) : log'[i] = log[i]
                       /\ \/ nextRoot # nextRoot' \/ Visited # Visited' \/ Dealt # Dealt'
                          \/ Finished # Finished' \/ log # log' \/ outcome' = "acyclic"
<1>1. DfsInv /\ [DfsNext]_dfsVars => [Advances]_dfsVars
    BY StepAdvances
<1> HIDE DEF Advances
<1>2. DfsSpec => [][Advances]_dfsVars
    BY <1>1, DfsInvHolds, PTL DEF DfsSpec
<1> QED BY <1>2 DEF SearchAdvances, Advances

\* Searching the graph of ids answers for the graph of names: mNameToId gives no id
\* to two names (Deadlock.cpp:12-22), and a numbering like that keeps every cycle
\* and makes none.
THEOREM NumberingKeepsCycles ==
    ASSUME NEW L, NEW N, NEW V \in SUBSET L, NEW num \in [V -> N],
           \A x, y \in V : num[x] = num[y] => x = y,
           NEW G, G \subseteq V \X V
    PROVE  Cyclic(L, G) <=> Cyclic(N, {<<num[e[1]], num[e[2]]>> : e \in G})
<1> DEFINE H == {<<num[e[1]], num[e[2]]>> : e \in G}
<1>1. \A e \in G : e[1] \in V /\ e[2] \in V /\ e = <<e[1], e[2]>>
    OBVIOUS
<1>2. ASSUME Cyclic(L, G) PROVE Cyclic(N, H)
  <2>1. PICK S \in SUBSET L : S # {} /\ \A x \in S : \E y \in S : <<x, y>> \in G
      BY <1>2 DEF Cyclic
  <2>2. \A x, y \in S : <<x, y>> \in G => x \in V /\ y \in V
      OBVIOUS
  <2>3. \A x \in S : x \in V
      BY <2>1, <2>2
  <2> DEFINE T == {num[x] : x \in S}
  <2>4. T \in SUBSET N /\ T # {}
      BY <2>1, <2>3
  <2>5. ASSUME NEW t \in T PROVE \E u \in T : <<t, u>> \in H
    <3>1. PICK x \in S : t = num[x]
        OBVIOUS
    <3>2. PICK y \in S : <<x, y>> \in G
        BY <2>1
    <3>3. <<num[x], num[y]>> \in H
      <4>1. <<x, y>>[1] = x /\ <<x, y>>[2] = y
          OBVIOUS
      <4> QED BY <3>2, <4>1
    <3>4. num[y] \in T
        OBVIOUS
    <3> QED BY <3>1, <3>3, <3>4
  <2> HIDE DEF T, H
  <2> QED BY <2>4, <2>5 DEF Cyclic
<1>3. ASSUME Cyclic(N, H) PROVE Cyclic(L, G)
  <2>1. PICK T \in SUBSET N : T # {} /\ \A t \in T : \E u \in T : <<t, u>> \in H
      BY <1>3 DEF Cyclic
  <2> DEFINE S == {x \in V : num[x] \in T}
  <2>2. \A t, u \in T : <<t, u>> \in H => \E e \in G : t = num[e[1]] /\ u = num[e[2]]
      OBVIOUS
  <2>3. S # {}
    <3>1. PICK t \in T : TRUE
        BY <2>1
    <3>2. PICK e \in G : t = num[e[1]]
        BY <2>1, <2>2
    <3> QED BY <1>1, <3>2
  <2>4. ASSUME NEW x \in S PROVE \E y \in S : <<x, y>> \in G
    <3>1. PICK u \in T : <<num[x], u>> \in H
        BY <2>1
    <3>2. PICK e \in G : num[x] = num[e[1]] /\ u = num[e[2]]
        BY <2>2, <3>1
    <3>3. x = e[1] /\ e[2] \in S /\ e = <<e[1], e[2]>>
        BY <1>1, <3>1, <3>2
    <3> QED BY <3>3
  <2>5. S \in SUBSET L
      OBVIOUS
  <2> HIDE DEF S
  <2> QED BY <2>3, <2>4, <2>5 DEF Cyclic
<1> QED BY <1>2, <1>3
===============================================================================

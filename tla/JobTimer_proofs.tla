---------------------------- MODULE JobTimer_proofs ----------------------------
(***************************************************************************)
(* Proofs about JobTimer for any loops, periods and delays.                *)
(*                                                                         *)
(* The turn of a loop is a token: it runs, is scheduled, is among the      *)
(* items the timer thread pushes, or is queued.  Wherever it waits, it     *)
(* waits at least as long as the loop's period still lasts; and what the   *)
(* timer thread has not seen when it falls asleep has set mWaked.          *)
(***************************************************************************)
EXTENDS JobTimer, FiniteSetTheorems, SequenceTheorems, TLAPS

USE PeriodAssumption, PlayersAssumption, WaitAssumption

Scheduled(l) == \E item \in mScheduledItems : item[1] = l
Owed(l) == \E i \in 1..Len(mExecItems) : i > pushed /\ mExecItems[i] = l

\* The items to push are there from the scan to the end of the pushes.
ExecInv ==
    /\ timer \in {"scan", "check", "asleep", "woken"} => mExecItems = <<>>
    /\ timer # "push" => pushed = 0

\* The token is in one place.
Placed(l) ==
    \/ runner[l] # "idle" /\ queued[l] = 0 /\ ~Scheduled(l) /\ ~Owed(l)
    \/ runner[l] = "idle" /\ queued[l] = 1 /\ ~Scheduled(l) /\ ~Owed(l)
    \/ runner[l] = "idle" /\ queued[l] = 0 /\ Scheduled(l) /\ ~Owed(l)
    \/ runner[l] = "idle" /\ queued[l] = 0 /\ ~Scheduled(l) /\ Owed(l)

TurnInv ==
    /\ IsFiniteSet(mScheduledItems)
    /\ \A item, other \in mScheduledItems : item[1] = other[1] => item = other
    /\ \A i, j \in 1..Len(mExecItems) :
           i > pushed /\ j > pushed /\ mExecItems[i] = mExecItems[j] => i = j
    /\ \A l \in Loops : Placed(l)

\* A turn that waits does so until the period of the last one is over.
TimeInv ==
    /\ \A l \in Loops : queued[l] > 0 \/ Owed(l) \/ runner[l] = "push" => nextIn[l] = 0
    /\ \A l \in Loops : runner[l] \in {"schedule", "insert"} => nextIn[l] <= delay[l]
    /\ \A item \in mScheduledItems : nextIn[item[1]] <= item[2]

\* While mWaked is not set since the scan, waitMs is right about every item.
WatchInv ==
    /\ timer \in {"start", "push", "check", "asleep"} /\ ~mWaked =>
           \A item \in mScheduledItems :
               waitMs <= item[2] + drift + (IF timer = "push" THEN elapsed ELSE 0)
    /\ timer = "asleep" /\ mWaked => wakers # {}

Inv == TypeOK /\ ExecInv /\ TurnInv /\ TimeInv /\ WatchInv

-------------------------------------------------------------------------------
(* Lemmas about data                                                       *)

\* A set of naturals that is not empty has a least member.
LEMMA MinFacts ==
    ASSUME NEW S, S \subseteq Nat, S # {}
    PROVE  Min(S) \in S /\ \A x \in S : Min(S) <= x
<1>1. PICK x \in S : \A y \in S : ~(<<y, x>> \in OpToRel(<, Nat))
    BY NatLessThanWellFounded, WFMin
<1>2. \A y \in S : x <= y
  <2> SUFFICES ASSUME NEW y \in S PROVE x <= y
      OBVIOUS
  <2>1. ~(y < x)
      BY <1>1 DEF OpToRel
  <2> QED BY <2>1
<1>3. \E z \in S : \A y \in S : z =< y
    BY <1>2
<1> QED BY <1>3 DEF Min

\* What a scan takes and leaves.
LEMMA ScanFacts ==
    ASSUME TypeOK, IsFiniteSet(mScheduledItems), mExecItems = <<>>, Scan
    PROVE  /\ mExecItems' \in Seq(Loops)
           /\ \A i \in 1..Len(mExecItems') : <<mExecItems'[i], 0>> \in mScheduledItems
           /\ \A item \in mScheduledItems : item[2] = 0 =>
                  \E i \in 1..Len(mExecItems') : mExecItems'[i] = item[1]
           /\ \A i, j \in 1..Len(mExecItems') : mExecItems'[i] = mExecItems'[j] => i = j
           /\ mScheduledItems' = {item \in mScheduledItems : item[2] # 0}
           /\ waitMs' \in Nat /\ \A item \in mScheduledItems' : waitMs' <= item[2]
<1> DEFINE due == {item \in mScheduledItems : Due(item)}
           n == Cardinality(due)
           rest == mScheduledItems \ due
<1>0. mScheduledItems \subseteq Loops \X Nat
    BY DEF TypeOK
<1>1. IsFiniteSet(due) /\ n \in Nat
    BY FS_Subset, FS_CardinalityType
<1>2. PICK order \in [1..n -> due] :
         /\ \A i, j \in DOMAIN order : i # j => order[i] # order[j]
         /\ mExecItems' = mExecItems \o [i \in DOMAIN order |-> order[i][1]]
    BY DEF Scan
<1>3. \A item \in due : \E i \in 1..n : order[i] = item
  <2>1. order \in Injection(1..n, due)
      BY <1>2 DEF Injection, IsInjective
  <2>2. Cardinality(1..n) = n
      BY <1>1, FS_Interval
  <2>3. order \in Surjection(1..n, due)
      BY <1>1, <2>1, <2>2, FS_Injection
  <2> QED BY <2>3 DEF Surjection
<1>4. /\ mExecItems' \in Seq(Loops) /\ Len(mExecItems') = n
      /\ \A i \in 1..n : mExecItems'[i] = order[i][1]
  <2> DEFINE s == [i \in 1..n |-> order[i][1]]
  <2>1. \A i \in 1..n : order[i][1] \in Loops
      BY <1>0, <1>2
  <2>2. s \in Seq(Loops) /\ Len(s) = n /\ \A i \in 1..n : s[i] = order[i][1]
      BY <1>1, <2>1
  <2>3. mExecItems' = <<>> \o s
      BY <1>2
  <2> HIDE DEF s
  <2>4. <<>> \o s = s
      BY <2>2
  <2> QED BY <2>2, <2>3, <2>4
<1>5. \A item \in due : item = <<item[1], 0>>
    BY <1>0 DEF Due
<1>6. \A i \in 1..n : order[i] = <<mExecItems'[i], 0>> /\ order[i] \in mScheduledItems
    BY <1>2, <1>4, <1>5
<1>7. mScheduledItems' = rest /\ rest = {item \in mScheduledItems : item[2] # 0}
    BY DEF Scan, Due
<1>8. waitMs' \in Nat /\ \A item \in rest : waitMs' <= item[2]
  <2>1. waitMs' = IF rest = {} THEN kMaxWaitMs ELSE Min({item[2] : item \in rest})
      BY DEF Scan
  <2>2. CASE rest = {}
      BY <2>1, <2>2
  <2>3. CASE rest # {}
    <3> DEFINE W == {item[2] : item \in rest}
    <3>1. W \subseteq Nat /\ W # {}
        BY <1>0, <2>3
    <3> HIDE DEF W
    <3>2. Min(W) \in Nat /\ \A x \in W : Min(W) <= x
        BY <3>1, MinFacts
    <3> QED BY <2>1, <2>3, <3>2 DEF W
  <2> QED BY <2>2, <2>3
<1>9. \A i, j \in 1..n : mExecItems'[i] = mExecItems'[j] => i = j
    BY <1>2, <1>6
<1>10. \A item \in mScheduledItems : item[2] = 0 => \E i \in 1..n : mExecItems'[i] = item[1]
    BY <1>3, <1>4 DEF Due
<1> HIDE DEF due, n, rest
<1>11. /\ \A i \in 1..Len(mExecItems') : <<mExecItems'[i], 0>> \in mScheduledItems
       /\ \A i, j \in 1..Len(mExecItems') : mExecItems'[i] = mExecItems'[j] => i = j
    BY <1>4, <1>6, <1>9
<1>12. \A item \in mScheduledItems : item[2] = 0 =>
           \E i \in 1..Len(mExecItems') : mExecItems'[i] = item[1]
    BY <1>4, <1>10
<1>13. waitMs' \in Nat /\ \A item \in mScheduledItems' : waitMs' <= item[2]
    BY <1>7, <1>8
<1> QED BY <1>4, <1>7, <1>11, <1>12, <1>13

-------------------------------------------------------------------------------
(* Types                                                                   *)

LEMMA TypeInit == Init => TypeOK /\ ExecInv
<1> SUFFICES ASSUME Init PROVE TypeOK /\ ExecInv
    OBVIOUS
<1>1. /\ nextIn \in [Loops -> Nat] /\ \A l \in Loops : nextIn[l] <= LoopMs[l]
      /\ delay \in [Loops -> Nat] /\ \A l \in Loops : delay[l] <= LoopMs[l]
    BY DEF Init
<1>2. mExecItems \in Seq(Loops) /\ Len(mExecItems) = 0
    BY DEF Init
<1>3. pushed \in 0..Len(mExecItems) /\ elapsed \in 0..MaxDelay /\ drift \in 0..MaxDelay
    BY <1>2 DEF Init
<1>4. queued \in [Loops -> Nat]
    BY DEF Init
<1> QED BY <1>1, <1>2, <1>3, <1>4 DEF Init, TypeOK, ExecInv

\* A delay that is over is within any period.
LEMMA DelayReset == \A l \in Loops : LoopMs[l] \in Nat /\ 0 <= LoopMs[l]
<1>1. \A l \in Loops : LoopMs[l] \in Nat \ {0}
    OBVIOUS
<1> QED BY <1>1

LEMMA TypeNext == TypeOK /\ ExecInv /\ TurnInv /\ [Next]_vars => TypeOK' /\ ExecInv'
<1> SUFFICES ASSUME TypeOK, ExecInv, TurnInv, [Next]_vars PROVE TypeOK' /\ ExecInv'
    OBVIOUS
<1> USE DEF At, Goto, loopVars, timerVars
<1>1. ASSUME NEW l \in Loops, Turn(l) PROVE TypeOK' /\ ExecInv'
  <2>0. UNCHANGED <<mExecItems, timer, pushed, waitMs, elapsed, drift>>
      BY <1>1 DEF Turn, Execute, Begin, EndLoop, TakeDelay, PushJob, TakeExecTick, Insert
  <2>1. ExecInv'
      BY <2>0 DEF ExecInv
  <2>2. CASE Execute(l)
    <3>1. queued[l] - 1 \in Nat
        BY <2>2 DEF Execute, TypeOK
    <3>2. /\ runner' \in [Loops -> {"idle", "begin", "sending", "push", "schedule", "insert", "ended"}]
          /\ caller' \in [Loops -> {"main", "worker"}]
        BY <2>2 DEF Execute, TypeOK
    <3>3. queued' \in [Loops -> Nat]
        BY <2>2, <3>1 DEF Execute, TypeOK
    <3>4. UNCHANGED <<nextIn, delay, wakers, mScheduledItems, mWaked, timerVars>>
        BY <2>2 DEF Execute
    <3> QED BY <2>1, <3>2, <3>3, <3>4 DEF TypeOK
  <2>3. CASE Begin(l)
    <3>1. runner' \in [Loops -> {"idle", "begin", "sending", "push", "schedule", "insert", "ended"}]
        BY <2>3 DEF Begin, TypeOK
    <3>2. nextIn' \in [Loops -> Nat] /\ \A k \in Loops : nextIn'[k] <= LoopMs[k]
      <4>1. LoopMs[l] \in Nat /\ LoopMs[l] <= LoopMs[l]
          OBVIOUS
      <4> QED BY <2>3, <4>1 DEF Begin, TypeOK
    <3>3. UNCHANGED <<caller, delay, queued, wakers, mScheduledItems, mWaked, timerVars>>
        BY <2>3 DEF Begin
    <3> QED BY <2>1, <3>1, <3>2, <3>3 DEF TypeOK
  <2>4. CASE EndLoop(l) \/ TakeExecTick(l)
    <3>1. runner' \in [Loops -> {"idle", "begin", "sending", "push", "schedule", "insert", "ended"}]
        BY <2>4 DEF EndLoop, TakeExecTick, TypeOK
    <3>2. UNCHANGED <<caller, nextIn, delay, queued, wakers, mScheduledItems, mWaked, timerVars>>
        BY <2>4 DEF EndLoop, TakeExecTick
    <3> QED BY <2>1, <3>1, <3>2 DEF TypeOK
  <2>5. CASE TakeDelay(l)
    <3>1. runner' \in [Loops -> {"idle", "begin", "sending", "push", "schedule", "insert", "ended"}]
        BY <2>5 DEF TakeDelay, TypeOK
    <3>2. delay' \in [Loops -> Nat] /\ \A k \in Loops : delay'[k] <= LoopMs[k]
        BY <2>5 DEF TakeDelay, TypeOK
    <3>3. UNCHANGED <<caller, nextIn, queued, wakers, mScheduledItems, mWaked, timerVars>>
        BY <2>5 DEF TakeDelay
    <3> QED BY <2>1, <3>1, <3>2, <3>3 DEF TypeOK
  <2>6. CASE PushJob(l)
    <3>1. queued[l] + 1 \in Nat
        BY DEF TypeOK
    <3>2. queued' \in [Loops -> Nat]
        BY <2>6, <3>1 DEF PushJob, TypeOK
    <3>3. delay' \in [Loops -> Nat] /\ \A k \in Loops : delay'[k] <= LoopMs[k]
        BY <2>6, DelayReset DEF PushJob, TypeOK
    <3>4. runner' \in [Loops -> {"idle", "begin", "sending", "push", "schedule", "insert", "ended"}]
        BY <2>6 DEF PushJob, TypeOK
    <3>5. UNCHANGED <<caller, nextIn, wakers, mScheduledItems, mWaked, timerVars>>
        BY <2>6 DEF PushJob
    <3> QED BY <2>1, <3>2, <3>3, <3>4, <3>5 DEF TypeOK
  <2>7. CASE Insert(l)
    <3>1. runner' \in [Loops -> {"idle", "begin", "sending", "push", "schedule", "insert", "ended"}]
        BY <2>7 DEF Insert, TypeOK
    <3>2. delay' \in [Loops -> Nat] /\ \A k \in Loops : delay'[k] <= LoopMs[k]
        BY <2>7, DelayReset DEF Insert, TypeOK
    <3>3. /\ mScheduledItems' \subseteq Loops \X Nat
          /\ wakers' \subseteq Loops \X {"main", "worker"} /\ mWaked' \in BOOLEAN
        BY <2>7 DEF Insert, TypeOK
    <3>4. UNCHANGED <<caller, nextIn, queued, timerVars>>
        BY <2>7 DEF Insert
    <3> QED BY <2>1, <3>1, <3>2, <3>3, <3>4 DEF TypeOK
  <2> QED BY <1>1, <2>2, <2>3, <2>4, <2>5, <2>6, <2>7 DEF Turn
<1>2. CASE WakeAny \/ SpuriousWake \/ TimeOut \/ UNCHANGED vars
  <2>1. /\ wakers' \subseteq wakers
        /\ timer' \in {timer, "woken"} /\ (timer' # timer => timer = "asleep")
        /\ UNCHANGED <<loopVars, queued, mScheduledItems, mWaked, pushed, waitMs, elapsed, drift, mExecItems>>
      BY <1>2 DEF WakeAny, Wake, SpuriousWake, TimeOut, vars
  <2>2. ExecInv'
      BY <2>1 DEF ExecInv
  <2> QED BY <2>1, <2>2 DEF TypeOK
<1>3. CASE Scan
  <2>0. timer = "scan" /\ mExecItems = <<>> /\ IsFiniteSet(mScheduledItems)
      BY <1>3 DEF Scan, ExecInv, TurnInv
  <2>1. mExecItems' \in Seq(Loops) /\ waitMs' \in Nat /\ mScheduledItems' \subseteq mScheduledItems
      BY <1>3, <2>0, ScanFacts
  <2>2. pushed' = 0 /\ timer' = "start" /\ drift' = 0
      BY <1>3 DEF Scan, ExecInv
  <2>3. pushed' \in 0..Len(mExecItems')
      BY <2>1, <2>2
  <2>4. UNCHANGED <<loopVars, queued, wakers, mWaked, elapsed>>
      BY <1>3 DEF Scan
  <2>5. ExecInv'
      BY <2>2 DEF ExecInv
  <2> QED BY <2>1, <2>2, <2>3, <2>4, <2>5 DEF TypeOK
<1>4. CASE TakeStartTick
  <2>1. /\ timer = "start" /\ timer' = "push" /\ elapsed' = 0 /\ pushed' = 0
        /\ UNCHANGED <<loopVars, queued, wakers, mScheduledItems, mWaked, waitMs, drift, mExecItems>>
      BY <1>4 DEF TakeStartTick
  <2>2. pushed' \in 0..Len(mExecItems') /\ elapsed' \in 0..MaxDelay
      BY <2>1 DEF TypeOK
  <2>3. ExecInv'
      BY <2>1 DEF ExecInv
  <2> QED BY <2>1, <2>2, <2>3 DEF TypeOK
<1>5. CASE PushItem
  <2>1. /\ pushed < Len(mExecItems) /\ pushed' = pushed + 1 /\ timer' = "push" /\ timer = "push"
        /\ UNCHANGED <<loopVars, wakers, mScheduledItems, mWaked, waitMs, elapsed, drift, mExecItems>>
      BY <1>5 DEF PushItem
  <2>2. queued' \in [Loops -> Nat]
    <3>1. \A l \in Loops : queued[l] + 1 \in Nat
        BY DEF TypeOK
    <3> QED BY <1>5, <3>1 DEF PushItem, TypeOK
  <2>3. pushed' \in 0..Len(mExecItems')
    <3>1. mExecItems' = mExecItems /\ Len(mExecItems) \in Nat /\ pushed \in 0..Len(mExecItems)
        BY <2>1 DEF TypeOK
    <3> QED BY <2>1, <3>1
  <2>4. ExecInv'
      BY <2>1 DEF ExecInv
  <2> QED BY <2>1, <2>2, <2>3, <2>4 DEF TypeOK
<1>6. CASE TakeEndTick
  <2>1. /\ timer = "push" /\ mExecItems' = <<>> /\ pushed' = 0 /\ elapsed' = 0 /\ timer' = "check"
        /\ waitMs' = Remaining
        /\ UNCHANGED <<loopVars, queued, wakers, mScheduledItems, mWaked, drift>>
      BY <1>6 DEF TakeEndTick, ClearedItems
  <2>2. waitMs' \in Nat
      BY <2>1 DEF Remaining, TypeOK
  <2>3. mExecItems' \in Seq(Loops) /\ pushed' \in 0..Len(mExecItems') /\ elapsed' \in 0..MaxDelay
      BY <2>1
  <2>4. ExecInv'
      BY <2>1 DEF ExecInv
  <2> QED BY <2>1, <2>2, <2>3, <2>4 DEF TypeOK
<1>7. CASE Check \/ Resume
  <2>1. /\ timer \in {"check", "woken"} /\ timer' \in {"asleep", "scan"}
        /\ mWaked' \in BOOLEAN /\ waitMs' \in Nat
        /\ UNCHANGED <<loopVars, queued, wakers, mScheduledItems, pushed, elapsed, drift, mExecItems>>
    <3>1. CASE Check
      <4>1. CASE mWaked
        <5>1. timer = "check" /\ timer' = "scan" /\ mWaked' = FALSE /\ waitMs' = 0
            BY <3>1, <4>1 DEF Check, MustSleep
        <5> QED BY <3>1, <5>1 DEF Check
      <4>2. CASE ~mWaked
          BY <3>1, <4>2 DEF Check, MustSleep, TypeOK
      <4> QED BY <4>1, <4>2
    <3>2. CASE Resume
        BY <3>2 DEF Resume, TypeOK
    <3> QED BY <1>7, <3>1, <3>2
  <2> QED BY <2>1 DEF TypeOK, ExecInv
<1>8. CASE Tick
  <2>1. \A t \in Nat : Sooner(t) \in Nat /\ Sooner(t) <= t
      BY DEF Sooner
  <2>2. /\ nextIn' \in [Loops -> Nat] /\ \A l \in Loops : nextIn'[l] <= LoopMs[l]
        /\ delay' \in [Loops -> Nat] /\ \A l \in Loops : delay'[l] <= LoopMs[l]
    <3>1. \A l \in Loops : LoopMs[l] \in Nat /\ nextIn[l] \in Nat /\ delay[l] \in Nat
        BY DEF TypeOK
    <3>2. /\ nextIn' = [l \in Loops |-> Sooner(nextIn[l])]
          /\ delay' = [l \in Loops |-> IF At(l, "insert") THEN Sooner(delay[l]) ELSE delay[l]]
        BY <1>8 DEF Tick
    <3>3. \A l \in Loops : Sooner(nextIn[l]) \in Nat /\ Sooner(nextIn[l]) <= nextIn[l]
                          /\ Sooner(delay[l]) \in Nat /\ Sooner(delay[l]) <= delay[l]
        BY <2>1, <3>1
    <3> QED BY <3>1, <3>2, <3>3 DEF TypeOK
  <2>3. mScheduledItems' \subseteq Loops \X Nat
    <3>1. \A item \in mScheduledItems : item[1] \in Loops /\ Sooner(item[2]) \in Nat
        BY <2>1 DEF TypeOK
    <3> QED BY <1>8, <3>1 DEF Tick
  <2>4. waitMs' \in Nat /\ elapsed' \in 0..MaxDelay /\ drift' \in 0..MaxDelay
    <3>1. elapsed' \in 0..MaxDelay /\ drift' \in 0..MaxDelay
        BY <1>8 DEF Tick, TypeOK
    <3>2. waitMs' = waitMs \/ waitMs' = Sooner(waitMs)
        BY <1>8 DEF Tick
    <3> QED BY <2>1, <3>1, <3>2 DEF TypeOK
  <2> QED BY <1>8, <2>2, <2>3, <2>4 DEF Tick, TypeOK, ExecInv
<1> QED BY <1>1, <1>2, <1>3, <1>4, <1>5, <1>6, <1>7, <1>8 DEF Next, TimerStep
-------------------------------------------------------------------------------
(* The token of a loop's turn                                              *)

\* How a time left runs down.
LEMMA SoonerFacts ==
    \A s, t \in Nat : /\ Sooner(t) \in Nat /\ Sooner(t) <= t /\ t <= Sooner(t) + 1
                      /\ s <= t => Sooner(s) <= Sooner(t)
BY DEF Sooner

\* What Tick does to the items.
LEMMA TickItems ==
    ASSUME TypeOK, TurnInv, Tick
    PROVE  /\ IsFiniteSet(mScheduledItems')
           /\ \A item \in mScheduledItems : <<item[1], Sooner(item[2])>> \in mScheduledItems'
           /\ \A item \in mScheduledItems' : \E old \in mScheduledItems :
                  item[1] = old[1] /\ item[2] = Sooner(old[2])
           /\ \A item, other \in mScheduledItems' : item[1] = other[1] => item = other
<1>1. mScheduledItems' = {<<item[1], Sooner(item[2])>> : item \in mScheduledItems}
    BY DEF Tick
<1>2. IsFiniteSet(mScheduledItems')
  <2> DEFINE f == [item \in mScheduledItems |-> <<item[1], Sooner(item[2])>>]
  <2>1. f \in Surjection(mScheduledItems, mScheduledItems')
      BY <1>1 DEF Surjection
  <2> QED BY <2>1, FS_Surjection DEF TurnInv
<1>3. \A item \in mScheduledItems' : \E old \in mScheduledItems :
          item = <<old[1], Sooner(old[2])>>
    BY <1>1
<1>4. \A item, other \in mScheduledItems' : item[1] = other[1] => item = other
    BY <1>3 DEF TurnInv
<1> QED BY <1>1, <1>2, <1>3, <1>4

LEMMA TurnInit == Init => TurnInv
<1> SUFFICES ASSUME Init PROVE TurnInv
    OBVIOUS
<1>1. IsFiniteSet(mScheduledItems) /\ Len(mExecItems) = 0
    BY FS_EmptySet DEF Init
<1>2. ASSUME NEW l \in Loops PROVE Placed(l)
    BY <1>1 DEF Init, Placed, Scheduled, Owed
<1> QED BY <1>1, <1>2 DEF Init, TurnInv

LEMMA TurnNext == TypeOK /\ ExecInv /\ TurnInv /\ [Next]_vars => TurnInv'
<1> SUFFICES ASSUME TypeOK, ExecInv, TurnInv, [Next]_vars PROVE TurnInv'
    OBVIOUS
<1> USE DEF At, Goto, loopVars, timerVars
<1>1. ASSUME NEW l \in Loops, Turn(l) PROVE TurnInv'
  <2>0. UNCHANGED <<mExecItems, pushed>>
      BY <1>1 DEF Turn, Execute, Begin, EndLoop, TakeDelay, PushJob, TakeExecTick, Insert
  <2>1. \A k \in Loops : Owed(k)' <=> Owed(k)
      BY <2>0 DEF Owed
  <2>2. ASSUME ~Insert(l) PROVE TurnInv'
    <3>1. /\ UNCHANGED mScheduledItems
          /\ \A k \in Loops \ {l} : runner'[k] = runner[k] /\ queued'[k] = queued[k]
        BY <1>1, <2>2 DEF Turn, Execute, Begin, EndLoop, TakeDelay, PushJob, TakeExecTick, TypeOK
    <3>2. \A k \in Loops : Scheduled(k)' <=> Scheduled(k)
        BY <3>1 DEF Scheduled
    <3>3. CASE Execute(l)
      <4>1. runner[l] = "idle" /\ queued[l] = 1 /\ ~Scheduled(l) /\ ~Owed(l)
          BY <3>3 DEF Execute, TurnInv, Placed
      <4>2. runner'[l] # "idle" /\ queued'[l] = 0
          BY <3>3, <4>1 DEF Execute, TypeOK
      <4>3. \A k \in Loops : Placed(k)'
          BY <2>1, <3>1, <3>2, <4>1, <4>2 DEF TurnInv, Placed
      <4> QED BY <2>0, <3>1, <4>3 DEF TurnInv
    <3>4. CASE PushJob(l)
      <4>1. runner[l] # "idle" /\ queued[l] = 0 /\ ~Scheduled(l) /\ ~Owed(l)
          BY <3>4 DEF PushJob, TurnInv, Placed
      <4>2. runner'[l] = "idle" /\ queued'[l] = 1
          BY <3>4, <4>1 DEF PushJob, TypeOK
      <4>3. \A k \in Loops : Placed(k)'
          BY <2>1, <3>1, <3>2, <4>1, <4>2 DEF TurnInv, Placed
      <4> QED BY <2>0, <3>1, <4>3 DEF TurnInv
    <3>5. CASE Begin(l) \/ EndLoop(l) \/ TakeDelay(l) \/ TakeExecTick(l)
      <4>1. runner[l] # "idle" /\ runner'[l] # "idle" /\ queued'[l] = queued[l]
          BY <3>5 DEF Begin, EndLoop, TakeDelay, TakeExecTick, TypeOK
      <4>2. \A k \in Loops : Placed(k)'
          BY <2>1, <3>1, <3>2, <4>1 DEF TurnInv, Placed
      <4> QED BY <2>0, <3>1, <4>2 DEF TurnInv
    <3> QED BY <1>1, <2>2, <3>3, <3>4, <3>5 DEF Turn
  <2>3. CASE Insert(l)
    <3>1. runner[l] # "idle" /\ queued[l] = 0 /\ ~Scheduled(l) /\ ~Owed(l)
        BY <2>3 DEF Insert, TurnInv, Placed
    <3>2. /\ mScheduledItems' = mScheduledItems \cup {<<l, delay[l]>>}
          /\ queued' = queued /\ runner'[l] = "idle"
          /\ \A k \in Loops \ {l} : runner'[k] = runner[k]
        BY <2>3 DEF Insert, TypeOK
    <3>3. /\ IsFiniteSet(mScheduledItems')
          /\ \A item, other \in mScheduledItems' : item[1] = other[1] => item = other
      <4>1. \A item \in mScheduledItems : item[1] # l
          BY <3>1 DEF Scheduled
      <4>2. <<l, delay[l]>>[1] = l
          OBVIOUS
      <4>3. IsFiniteSet(mScheduledItems')
          BY <3>2, FS_AddElement DEF TurnInv
      <4> QED BY <3>2, <4>1, <4>2, <4>3 DEF TurnInv
    <3>4. Scheduled(l)' /\ \A k \in Loops \ {l} : Scheduled(k)' <=> Scheduled(k)
      <4>1. <<l, delay[l]>>[1] = l
          OBVIOUS
      <4> QED BY <3>2, <4>1 DEF Scheduled
    <3>5. \A k \in Loops : Placed(k)'
        BY <2>1, <3>1, <3>2, <3>4 DEF TurnInv, Placed
    <3> QED BY <2>0, <3>3, <3>5 DEF TurnInv
  <2> QED BY <2>2, <2>3
<1>2. CASE \/ WakeAny \/ SpuriousWake \/ TimeOut \/ Check \/ Resume \/ TakeStartTick
           \/ UNCHANGED vars
  <2>1. UNCHANGED <<runner, queued, mScheduledItems, mExecItems, pushed>>
      BY <1>2 DEF WakeAny, Wake, SpuriousWake, TimeOut, Check, Resume, TakeStartTick, vars, ExecInv
  <2>2. \A k \in Loops : Placed(k)'
      BY <2>1 DEF TurnInv, Placed, Scheduled, Owed
  <2> QED BY <2>1, <2>2 DEF TurnInv
<1>3. CASE Scan
  <2>0. mExecItems = <<>> /\ pushed' = 0 /\ pushed = 0 /\ UNCHANGED <<runner, queued>>
      BY <1>3 DEF Scan, ExecInv
  <2>1. /\ \A i \in 1..Len(mExecItems') : <<mExecItems'[i], 0>> \in mScheduledItems
        /\ \A item \in mScheduledItems : item[2] = 0 =>
               \E i \in 1..Len(mExecItems') : mExecItems'[i] = item[1]
        /\ \A i, j \in 1..Len(mExecItems') : mExecItems'[i] = mExecItems'[j] => i = j
        /\ mScheduledItems' = {item \in mScheduledItems : item[2] # 0}
        /\ mExecItems' \in Seq(Loops)
      BY <1>3, <2>0, ScanFacts DEF TurnInv
  <2>2. IsFiniteSet(mScheduledItems')
      BY <2>1, FS_Subset DEF TurnInv
  <2>3. ASSUME NEW k \in Loops PROVE Placed(k)'
    <3>1. ~Owed(k)
        BY <2>0 DEF Owed
    <3>2. Owed(k)' <=> <<k, 0>> \in mScheduledItems
      <4>1. Owed(k)' => <<k, 0>> \in mScheduledItems
          BY <2>1 DEF Owed
      <4>2. ASSUME <<k, 0>> \in mScheduledItems PROVE Owed(k)'
        <5>1. PICK i \in 1..Len(mExecItems') : mExecItems'[i] = k
            BY <2>1, <4>2
        <5>2. i > pushed'
            BY <2>0
        <5> QED BY <5>1, <5>2 DEF Owed
      <4> QED BY <4>1, <4>2
    <3>3. mScheduledItems \subseteq Loops \X Nat
        BY DEF TypeOK
    <3>4. Scheduled(k) => (Owed(k)' /\ ~Scheduled(k)') \/ (~Owed(k)' /\ Scheduled(k)')
        BY <2>1, <3>2, <3>3 DEF Scheduled, TurnInv
    <3>5. ~Scheduled(k) => ~Owed(k)' /\ ~Scheduled(k)'
        BY <2>1, <3>2 DEF Scheduled
    <3> QED BY <2>0, <3>1, <3>4, <3>5 DEF TurnInv, Placed
  <2> QED BY <2>1, <2>2, <2>3 DEF TurnInv
<1>4. CASE PushItem
  <2>0. /\ pushed \in Nat /\ pushed' = pushed + 1 /\ pushed + 1 \in 1..Len(mExecItems)
        /\ mExecItems[pushed + 1] \in Loops /\ Len(mExecItems) \in Nat
        /\ UNCHANGED <<runner, mScheduledItems, mExecItems>>
    <3>1. /\ pushed \in 0..Len(mExecItems) /\ pushed < Len(mExecItems) /\ pushed' = pushed + 1
          /\ UNCHANGED <<runner, mScheduledItems, mExecItems>>
        BY <1>4 DEF PushItem, TypeOK
    <3>2. mExecItems \in Seq(Loops)
        BY DEF TypeOK
    <3>3. Len(mExecItems) \in Nat /\ pushed + 1 \in 1..Len(mExecItems)
        BY <3>1, <3>2
    <3> QED BY <3>1, <3>2, <3>3
  <2>1. PICK l \in Loops : l = mExecItems[pushed + 1]
      BY <2>0
  <2>2. queued' = [queued EXCEPT ![l] = @ + 1]
      BY <1>4, <2>1 DEF PushItem
  <2>3. Owed(l) /\ ~Owed(l)'
    <3>1. Owed(l)
        BY <2>0, <2>1 DEF Owed
    <3>2. ASSUME NEW i \in 1..Len(mExecItems), i > pushed + 1, mExecItems[i] = l PROVE FALSE
        BY <2>0, <2>1, <3>2 DEF TurnInv
    <3> QED BY <2>0, <2>1, <3>1, <3>2 DEF Owed
  <2>4. \A k \in Loops \ {l} : Owed(k)' <=> Owed(k)
    <3> SUFFICES ASSUME NEW k \in Loops \ {l} PROVE Owed(k)' <=> Owed(k)
        OBVIOUS
    <3>1. \A i \in 1..Len(mExecItems) : mExecItems[i] = k => (i > pushed <=> i > pushed + 1)
        BY <2>0, <2>1
    <3> QED BY <2>0, <2>1, <3>1 DEF Owed
  <2>5. runner[l] = "idle" /\ queued[l] = 0 /\ ~Scheduled(l)
    <3>1. Placed(l)
        BY DEF TurnInv
    <3> QED BY <2>3, <3>1 DEF Placed
  <2>6. queued'[l] = 1 /\ \A k \in Loops \ {l} : queued'[k] = queued[k]
    <3>1. queued \in [Loops -> Nat]
        BY DEF TypeOK
    <3> QED BY <2>2, <2>5, <3>1
  <2>7. \A k \in Loops : Scheduled(k)' <=> Scheduled(k)
      BY <2>0 DEF Scheduled
  <2>8. ASSUME NEW k \in Loops PROVE Placed(k)'
    <3>1. runner' = runner /\ Placed(k)
        BY <2>0 DEF TurnInv
    <3>2. CASE k = l
        BY <2>3, <2>5, <2>6, <2>7, <3>1, <3>2 DEF Placed
    <3>3. CASE k # l
        BY <2>4, <2>6, <2>7, <3>1, <3>3 DEF Placed
    <3> QED BY <3>2, <3>3
  <2>9. \A i, j \in 1..Len(mExecItems) :
            i > pushed + 1 /\ j > pushed + 1 /\ mExecItems[i] = mExecItems[j] => i = j
    <3>1. \A i \in 1..Len(mExecItems) : i > pushed + 1 => i > pushed
        BY <2>0
    <3> QED BY <3>1 DEF TurnInv
  <2> QED BY <2>0, <2>1, <2>8, <2>9 DEF TurnInv
<1>5. CASE TakeEndTick
  <2>1. /\ mExecItems' = <<>> /\ UNCHANGED <<runner, queued, mScheduledItems>>
        /\ pushed = Len(mExecItems)
      BY <1>5 DEF TakeEndTick, ClearedItems
  <2>2. \A k \in Loops : ~Owed(k) /\ ~Owed(k)'
      BY <2>1 DEF Owed, TypeOK
  <2>3. \A k \in Loops : Placed(k)'
      BY <2>1, <2>2 DEF TurnInv, Placed, Scheduled
  <2> QED BY <2>1, <2>3 DEF TurnInv
<1>6. CASE Tick
  <2>1. UNCHANGED <<runner, queued, mExecItems, pushed>>
      BY <1>6 DEF Tick
  <2>2. \A k \in Loops : Scheduled(k)' <=> Scheduled(k)
      BY <1>6, TickItems DEF Scheduled
  <2>3. \A k \in Loops : Placed(k)'
      BY <2>1, <2>2 DEF TurnInv, Placed, Owed
  <2> QED BY <1>6, <2>1, <2>3, TickItems DEF TurnInv
<1> QED BY <1>1, <1>2, <1>3, <1>4, <1>5, <1>6 DEF Next, TimerStep

-------------------------------------------------------------------------------
(* The times                                                               *)

LEMMA TimeInit == Init => TimeInv
<1> SUFFICES ASSUME Init PROVE TimeInv
    OBVIOUS
<1>1. \A l \in Loops : ~Owed(l)
    BY DEF Init, Owed
<1> QED BY <1>1 DEF Init, TimeInv

LEMMA TimeNext == TypeOK /\ ExecInv /\ TurnInv /\ TimeInv /\ [Next]_vars => TimeInv'
<1> SUFFICES ASSUME TypeOK, ExecInv, TurnInv, TimeInv, [Next]_vars PROVE TimeInv'
    OBVIOUS
<1> USE DEF At, Goto, loopVars, timerVars
<1>0. mScheduledItems \subseteq Loops \X Nat
    BY DEF TypeOK
<1>1. ASSUME NEW l \in Loops, Turn(l) PROVE TimeInv'
  <2>0. UNCHANGED <<mExecItems, pushed>>
      BY <1>1 DEF Turn, Execute, Begin, EndLoop, TakeDelay, PushJob, TakeExecTick, Insert
  <2>1. \A k \in Loops : Owed(k)' <=> Owed(k)
      BY <2>0 DEF Owed
  <2>2. \A k \in Loops \ {l} : /\ runner'[k] = runner[k] /\ queued'[k] = queued[k]
                               /\ nextIn'[k] = nextIn[k] /\ delay'[k] = delay[k]
      BY <1>1 DEF Turn, Execute, Begin, EndLoop, TakeDelay, PushJob, TakeExecTick, Insert, TypeOK
  \* It is enough to look at what concerns l.
  <2>3. ASSUME queued'[l] > 0 \/ Owed(l) \/ runner'[l] = "push" => nextIn'[l] = 0,
               runner'[l] \in {"schedule", "insert"} => nextIn'[l] <= delay'[l],
               \A item \in mScheduledItems' : item[1] = l => nextIn'[l] <= item[2],
               \A item \in mScheduledItems' : item[1] # l => item \in mScheduledItems,
               mScheduledItems' \subseteq Loops \X Nat
        PROVE  TimeInv'
    <3>1. \A k \in Loops : queued'[k] > 0 \/ Owed(k)' \/ runner'[k] = "push" => nextIn'[k] = 0
        BY <2>1, <2>2, <2>3 DEF TimeInv
    <3>2. \A k \in Loops : runner'[k] \in {"schedule", "insert"} => nextIn'[k] <= delay'[k]
        BY <2>2, <2>3 DEF TimeInv
    <3>3. \A item \in mScheduledItems' : nextIn'[item[1]] <= item[2]
        BY <2>2, <2>3 DEF TimeInv
    <3> QED BY <3>1, <3>2, <3>3 DEF TimeInv
  <2>4. ASSUME ~Insert(l) PROVE UNCHANGED mScheduledItems
      BY <1>1, <2>4 DEF Turn, Execute, Begin, EndLoop, TakeDelay, PushJob, TakeExecTick
  <2>5. CASE Execute(l)
    <3>1. /\ queued[l] = 1 /\ ~Scheduled(l) /\ ~Owed(l)
        BY <2>5 DEF Execute, TurnInv, Placed
    <3>2. runner'[l] = "begin" /\ queued'[l] = 0 /\ UNCHANGED mScheduledItems
        BY <2>5, <3>1 DEF Execute, TypeOK
    <3> QED BY <1>0, <2>3, <3>1, <3>2 DEF Scheduled
  <2>6. CASE Begin(l) \/ EndLoop(l)
    <3>1. queued[l] = 0 /\ ~Scheduled(l) /\ ~Owed(l)
        BY <2>6 DEF Begin, EndLoop, TurnInv, Placed
    <3>2. runner'[l] \in {"sending", "ended"} /\ queued'[l] = 0 /\ UNCHANGED mScheduledItems
        BY <2>6, <3>1 DEF Begin, EndLoop, TypeOK
    <3> QED BY <1>0, <2>3, <3>1, <3>2 DEF Scheduled
  <2>7. CASE TakeDelay(l)
    <3>1. queued[l] = 0 /\ ~Scheduled(l) /\ ~Owed(l)
        BY <2>7 DEF TakeDelay, TurnInv, Placed
    <3>2. /\ runner'[l] = IF nextIn[l] = 0 THEN "push" ELSE "schedule"
          /\ queued'[l] = 0 /\ delay'[l] = nextIn[l] /\ nextIn'[l] = nextIn[l]
          /\ UNCHANGED mScheduledItems /\ nextIn[l] \in Nat
        BY <2>7, <3>1 DEF TakeDelay, TypeOK
    <3> QED BY <1>0, <2>3, <3>1, <3>2 DEF Scheduled
  <2>8. CASE PushJob(l)
    <3>1. ~Scheduled(l) /\ ~Owed(l) /\ nextIn[l] = 0
        BY <2>8 DEF PushJob, TurnInv, Placed, TimeInv
    <3>2. runner'[l] = "idle" /\ nextIn'[l] = 0 /\ UNCHANGED mScheduledItems
        BY <2>8, <3>1 DEF PushJob, TypeOK
    <3> QED BY <1>0, <2>3, <3>1, <3>2 DEF Scheduled
  <2>9. CASE TakeExecTick(l)
    <3>1. queued[l] = 0 /\ ~Scheduled(l) /\ ~Owed(l) /\ nextIn[l] <= delay[l]
        BY <2>9 DEF TakeExecTick, TurnInv, Placed, TimeInv
    <3>2. runner'[l] = "insert" /\ UNCHANGED <<queued, nextIn, delay, mScheduledItems>>
        BY <2>9 DEF TakeExecTick, TypeOK
    <3> QED BY <1>0, <2>3, <3>1, <3>2 DEF Scheduled
  <2>10. CASE Insert(l)
    <3>1. queued[l] = 0 /\ ~Scheduled(l) /\ ~Owed(l) /\ nextIn[l] <= delay[l] /\ delay[l] \in Nat
        BY <2>10 DEF Insert, TurnInv, Placed, TimeInv, TypeOK
    <3>2. /\ runner'[l] = "idle" /\ UNCHANGED <<queued, nextIn>>
          /\ mScheduledItems' = mScheduledItems \cup {<<l, delay[l]>>}
        BY <2>10 DEF Insert, TypeOK
    <3>3. \A item \in mScheduledItems' : item[1] = l => item = <<l, delay[l]>>
        BY <3>1, <3>2 DEF Scheduled
    <3>4. \A item \in mScheduledItems' : item[1] # l => item \in mScheduledItems
        BY <3>2
    <3>5. mScheduledItems' \subseteq Loops \X Nat
        BY <1>0, <3>1, <3>2
    <3> QED BY <2>3, <3>1, <3>2, <3>3, <3>4, <3>5
  <2> QED BY <1>1, <2>5, <2>6, <2>7, <2>8, <2>9, <2>10 DEF Turn
<1>2. CASE \/ WakeAny \/ SpuriousWake \/ TimeOut \/ Check \/ Resume \/ TakeStartTick
           \/ UNCHANGED vars
  <2>1. UNCHANGED <<runner, queued, nextIn, delay, mScheduledItems, mExecItems, pushed>>
      BY <1>2 DEF WakeAny, Wake, SpuriousWake, TimeOut, Check, Resume, TakeStartTick, vars, ExecInv
  <2> QED BY <2>1 DEF TimeInv, Owed
<1>3. CASE Scan
  <2>1. mExecItems = <<>> /\ UNCHANGED <<runner, queued, nextIn, delay>>
      BY <1>3 DEF Scan, ExecInv
  <2>2. /\ \A i \in 1..Len(mExecItems') : <<mExecItems'[i], 0>> \in mScheduledItems
        /\ mScheduledItems' = {item \in mScheduledItems : item[2] # 0}
      BY <1>3, <2>1, ScanFacts DEF TurnInv
  <2>3. ASSUME NEW k \in Loops, Owed(k)' PROVE nextIn[k] = 0
    <3>1. <<k, 0>> \in mScheduledItems
        BY <2>2, <2>3 DEF Owed
    <3>2. nextIn[<<k, 0>>[1]] <= <<k, 0>>[2]
        BY <3>1 DEF TimeInv
    <3>3. nextIn[k] <= 0 /\ nextIn[k] \in Nat
        BY <3>2 DEF TypeOK
    <3> QED BY <3>3
  <2> QED BY <2>1, <2>2, <2>3 DEF TimeInv
<1>4. CASE PushItem
  <2>0. /\ pushed \in Nat /\ pushed' = pushed + 1 /\ pushed + 1 \in 1..Len(mExecItems)
        /\ mExecItems[pushed + 1] \in Loops
        /\ UNCHANGED <<runner, nextIn, delay, mScheduledItems, mExecItems>>
    <3>1. /\ pushed \in 0..Len(mExecItems) /\ pushed < Len(mExecItems) /\ pushed' = pushed + 1
          /\ UNCHANGED <<runner, nextIn, delay, mScheduledItems, mExecItems>>
        BY <1>4 DEF PushItem, TypeOK
    <3>2. mExecItems \in Seq(Loops)
        BY DEF TypeOK
    <3>3. Len(mExecItems) \in Nat /\ pushed + 1 \in 1..Len(mExecItems)
        BY <3>1, <3>2
    <3> QED BY <3>1, <3>2, <3>3
  <2>1. PICK l \in Loops : l = mExecItems[pushed + 1]
      BY <2>0
  <2>2. \A k \in Loops \ {l} : queued'[k] = queued[k]
      BY <1>4, <2>1 DEF PushItem, TypeOK
  <2>3. Owed(l)
      BY <2>0, <2>1 DEF Owed
  <2>4. nextIn[l] = 0
      BY <2>3 DEF TimeInv
  <2>5. \A k \in Loops : Owed(k)' => Owed(k)
      BY <2>0 DEF Owed
  <2> QED BY <2>0, <2>2, <2>4, <2>5 DEF TimeInv
<1>5. CASE TakeEndTick
  <2>1. mExecItems' = <<>> /\ UNCHANGED <<runner, queued, nextIn, delay, mScheduledItems>>
      BY <1>5 DEF TakeEndTick, ClearedItems
  <2>2. \A k \in Loops : ~Owed(k)'
      BY <2>1 DEF Owed
  <2> QED BY <2>1, <2>2 DEF TimeInv
<1>6. CASE Tick
  <2>1. /\ UNCHANGED <<runner, queued, mExecItems, pushed>>
        /\ nextIn' = [l \in Loops |-> Sooner(nextIn[l])]
        /\ delay' = [l \in Loops |-> IF At(l, "insert") THEN Sooner(delay[l]) ELSE delay[l]]
      BY <1>6 DEF Tick
  <2>2. \A l \in Loops : nextIn[l] \in Nat /\ delay[l] \in Nat
      BY DEF TypeOK
  <2>3. \A l \in Loops : queued'[l] > 0 \/ Owed(l)' \/ runner'[l] = "push" => nextIn'[l] = 0
    <3>1. Sooner(0) = 0
        BY DEF Sooner
    <3> QED BY <2>1, <3>1 DEF TimeInv, Owed
  <2>4. \A l \in Loops : runner'[l] \in {"schedule", "insert"} => nextIn'[l] <= delay'[l]
    <3> SUFFICES ASSUME NEW l \in Loops, runner[l] \in {"schedule", "insert"}
                 PROVE  nextIn'[l] <= delay'[l]
        BY <2>1
    <3>1. /\ Sooner(nextIn[l]) \in Nat /\ Sooner(delay[l]) \in Nat
          /\ Sooner(nextIn[l]) <= nextIn[l] /\ nextIn[l] <= delay[l]
          /\ Sooner(nextIn[l]) <= Sooner(delay[l])
        BY <2>2, SoonerFacts DEF TimeInv
    <3>2. nextIn'[l] = Sooner(nextIn[l])
        BY <2>1
    <3>3. delay'[l] = Sooner(delay[l]) \/ delay'[l] = delay[l]
        BY <2>1
    <3> QED BY <2>2, <3>1, <3>2, <3>3
  <2>5. \A item \in mScheduledItems' : nextIn'[item[1]] <= item[2]
    <3> SUFFICES ASSUME NEW item \in mScheduledItems' PROVE nextIn'[item[1]] <= item[2]
        OBVIOUS
    <3>1. PICK old \in mScheduledItems : item[1] = old[1] /\ item[2] = Sooner(old[2])
        BY <1>6, TickItems
    <3>2. old[1] \in Loops /\ old[2] \in Nat
        BY <1>0
    <3>3. nextIn[old[1]] <= old[2] /\ nextIn'[old[1]] = Sooner(nextIn[old[1]])
        BY <2>1, <3>2 DEF TimeInv
    <3> QED BY <2>2, <3>1, <3>2, <3>3, SoonerFacts
  <2> QED BY <2>3, <2>4, <2>5 DEF TimeInv
<1> QED BY <1>1, <1>2, <1>3, <1>4, <1>5, <1>6 DEF Next, TimerStep

-------------------------------------------------------------------------------
(* The sleep of the timer thread                                           *)

LEMMA WatchInit == Init => WatchInv
BY DEF Init, WatchInv

LEMMA WatchNext == TypeOK /\ ExecInv /\ TurnInv /\ WatchInv /\ [Next]_vars => WatchInv'
<1> SUFFICES ASSUME TypeOK, ExecInv, TurnInv, WatchInv, [Next]_vars PROVE WatchInv'
    OBVIOUS
<1> USE DEF At, Goto, loopVars, timerVars
<1>0. /\ \A item \in mScheduledItems : item[2] \in Nat
      /\ waitMs \in Nat /\ elapsed \in Nat /\ drift \in Nat
    BY DEF TypeOK
<1>1. ASSUME NEW l \in Loops, Turn(l) PROVE WatchInv'
  <2>0. UNCHANGED <<timer, waitMs, elapsed, drift>>
      BY <1>1 DEF Turn, Execute, Begin, EndLoop, TakeDelay, PushJob, TakeExecTick, Insert
  <2>1. CASE Insert(l)
    <3>1. mWaked' = TRUE /\ wakers' # {}
        BY <2>1 DEF Insert
    <3> QED BY <3>1 DEF WatchInv
  <2>2. CASE ~Insert(l)
    <3>1. UNCHANGED <<wakers, mScheduledItems, mWaked>>
        BY <1>1, <2>2 DEF Turn, Execute, Begin, EndLoop, TakeDelay, PushJob, TakeExecTick
    <3> QED BY <2>0, <3>1 DEF WatchInv
  <2> QED BY <2>1, <2>2
<1>2. CASE WakeAny
  <2>1. UNCHANGED <<mScheduledItems, mWaked, waitMs, elapsed, drift>>
      BY <1>2 DEF WakeAny, Wake
  <2>2. timer' = IF timer = "asleep" THEN "woken" ELSE timer
      BY <1>2 DEF WakeAny, Wake
  <2> QED BY <2>1, <2>2 DEF WatchInv
<1>3. CASE SpuriousWake \/ TimeOut \/ Resume
    BY <1>3 DEF SpuriousWake, TimeOut, Resume, WatchInv
<1>4. CASE Scan
  <2>1. \A item \in mScheduledItems' : waitMs' <= item[2] /\ item[2] \in Nat
    <3>1. mExecItems = <<>> /\ IsFiniteSet(mScheduledItems)
        BY <1>4 DEF Scan, ExecInv, TurnInv
    <3>2. /\ \A item \in mScheduledItems' : waitMs' <= item[2]
          /\ mScheduledItems' \subseteq mScheduledItems
        BY <1>4, <3>1, ScanFacts
    <3> QED BY <1>0, <3>2
  <2>2. timer' = "start" /\ drift' = 0
      BY <1>4 DEF Scan
  <2> QED BY <2>1, <2>2 DEF WatchInv
<1>5. CASE TakeStartTick
    BY <1>0, <1>5 DEF TakeStartTick, WatchInv
<1>6. CASE PushItem
    BY <1>6 DEF PushItem, WatchInv
<1>7. CASE TakeEndTick
  <2>1. /\ timer = "push" /\ timer' = "check" /\ waitMs' = Remaining
        /\ UNCHANGED <<mScheduledItems, mWaked, drift>>
      BY <1>7 DEF TakeEndTick
  <2>2. ASSUME ~mWaked, NEW item \in mScheduledItems PROVE Remaining <= item[2] + drift
    <3>1. waitMs <= item[2] + drift + elapsed
        BY <2>1, <2>2 DEF WatchInv
    <3> QED BY <1>0, <3>1 DEF Remaining
  <2>3. \A item \in mScheduledItems : item[2] + drift + 0 = item[2] + drift
      BY <1>0
  <2> QED BY <2>1, <2>2, <2>3 DEF WatchInv
<1>8. CASE Check
  <2>1. CASE mWaked
    <3>1. timer' = "scan"
        BY <1>8, <2>1 DEF Check, MustSleep
    <3> QED BY <3>1 DEF WatchInv
  <2>2. CASE ~mWaked
    <3>1. timer = "check" /\ timer' = "asleep" /\ UNCHANGED <<mWaked, waitMs, mScheduledItems, drift>>
        BY <1>8, <2>2 DEF Check, MustSleep
    <3> QED BY <2>2, <3>1 DEF WatchInv
  <2> QED BY <2>1, <2>2
<1>9. CASE Tick
  <2>1. UNCHANGED <<timer, mWaked, wakers>>
      BY <1>9 DEF Tick
  <2>2. ASSUME timer \in {"start", "push", "check", "asleep"}, ~mWaked, NEW item \in mScheduledItems'
        PROVE  waitMs' <= item[2] + drift' + (IF timer = "push" THEN elapsed' ELSE 0)
    <3>1. PICK old \in mScheduledItems : item[2] = Sooner(old[2])
        BY <1>9, TickItems
    <3>2. PICK left \in Nat : left = old[2]
        BY <1>0
    <3>3. waitMs <= left + drift + (IF timer = "push" THEN elapsed ELSE 0)
        BY <2>2, <3>2 DEF WatchInv
    <3>4. Sooner(left) \in Nat /\ left <= Sooner(left) + 1 /\ item[2] = Sooner(left)
        BY <3>1, <3>2, SoonerFacts
    <3>5. CASE timer = "push"
      <4>1. elapsed' = elapsed + 1 /\ drift' = drift /\ waitMs' = waitMs
          BY <1>9, <3>5 DEF Tick
      <4> QED BY <1>0, <3>3, <3>4, <3>5, <4>1
    <3>6. CASE timer \in {"start", "check"}
      <4>1. drift' = drift + 1 /\ waitMs' = waitMs
          BY <1>9, <3>6 DEF Tick
      <4> QED BY <1>0, <3>3, <3>4, <3>6, <4>1
    <3>7. CASE timer = "asleep"
      <4>1. drift' = drift /\ waitMs' = Sooner(waitMs)
          BY <1>9, <3>7 DEF Tick
      <4>2. waitMs <= left + drift
          BY <1>0, <3>3, <3>7
      <4> QED BY <1>0, <3>4, <3>7, <4>1, <4>2 DEF Sooner
    <3> QED BY <2>2, <3>5, <3>6, <3>7
  <2> QED BY <2>1, <2>2 DEF WatchInv
<1>10. CASE UNCHANGED vars
    BY <1>10 DEF vars, WatchInv
<1> QED BY <1>1, <1>2, <1>3, <1>4, <1>5, <1>6, <1>7, <1>8, <1>9, <1>10 DEF Next, TimerStep

-------------------------------------------------------------------------------
(* The theorems                                                            *)

\* The five parts of the invariant hold together.
THEOREM InvHolds == Spec => []Inv
<1>1. Init => Inv
    BY TypeInit, TurnInit, TimeInit, WatchInit DEF Inv
<1>2. Inv /\ [Next]_vars => Inv'
    BY TypeNext, TurnNext, TimeNext, WatchNext DEF Inv
<1> QED BY <1>1, <1>2, PTL DEF Spec

\* Type correctness of the timer, its items and the loops; no delay is longer
\* than its loop's period (Room::StartBroadcastLoop, JobTimer::Schedule).
THEOREM TypeCorrect == Spec => []TypeOK
<1>1. Inv => TypeOK
    BY DEF Inv
<1> QED BY <1>1, InvHolds, PTL

\* The timer neither loses a loop's turn nor hands it out twice
\* (JobTimer::Schedule, Distribute).
THEOREM OneTurnHolds == Spec => []OneTurn
<1>1. Inv => OneTurn
  <2> SUFFICES ASSUME Inv, NEW l \in Loops PROVE Turns(l) = 1
      BY DEF OneTurn
  <2> DEFINE scheduled == {item \in mScheduledItems : item[1] = l}
             owed == {i \in DOMAIN mExecItems : i > pushed /\ mExecItems[i] = l}
  <2>1. DOMAIN mExecItems = 1..Len(mExecItems)
      BY DEF Inv, TypeOK
  <2>2. Cardinality(scheduled) = IF Scheduled(l) THEN 1 ELSE 0
    <3>1. CASE Scheduled(l)
      <4>1. PICK item \in mScheduledItems : item[1] = l
          BY <3>1 DEF Scheduled
      <4>2. scheduled = {item}
          BY <4>1 DEF Inv, TurnInv
      <4> QED BY <3>1, <4>2, FS_Singleton
    <3>2. CASE ~Scheduled(l)
      <4>1. scheduled = {}
          BY <3>2 DEF Scheduled
      <4> QED BY <3>2, <4>1, FS_EmptySet
    <3> QED BY <3>1, <3>2
  <2>3. Cardinality(owed) = IF Owed(l) THEN 1 ELSE 0
    <3>1. CASE Owed(l)
      <4>1. PICK i \in 1..Len(mExecItems) : i > pushed /\ mExecItems[i] = l
          BY <3>1 DEF Owed
      <4>2. owed = {i}
          BY <2>1, <4>1 DEF Inv, TurnInv
      <4> QED BY <3>1, <4>2, FS_Singleton
    <3>2. CASE ~Owed(l)
      <4>1. owed = {}
          BY <2>1, <3>2 DEF Owed
      <4> QED BY <3>2, <4>1, FS_EmptySet
    <3> QED BY <3>1, <3>2
  <2>4. Placed(l)
      BY DEF Inv, TurnInv
  <2> QED BY <2>2, <2>3, <2>4 DEF Placed, Turns
<1> QED BY <1>1, InvHolds, PTL

\* A loop's job is in its queue only once the period of the last turn is over,
\* however long the pushes and the timer's own delays take (JobTimer::Distribute).
THEOREM NotTooSoonHolds == Spec => []NotTooSoon
<1>1. Inv => NotTooSoon
    BY DEF Inv, TimeInv, NotTooSoon
<1> QED BY <1>1, InvHolds, PTL

\* The timer thread never sleeps past an item (JobTimer::Run, Schedule).
THEOREM NoOversleepHolds == Spec => []NoOversleep
<1>1. Inv => NoOversleep
  <2> SUFFICES ASSUME Inv, timer = "asleep", wakers = {}, NEW item \in mScheduledItems
               PROVE  waitMs <= item[2] + drift
      BY DEF NoOversleep
  <2>1. ~mWaked /\ item[2] \in Nat /\ drift \in Nat
      BY DEF Inv, WatchInv, TypeOK
  <2>2. waitMs <= item[2] + drift + 0
      BY <2>1 DEF Inv, WatchInv
  <2> QED BY <2>1, <2>2
<1> QED BY <1>1, InvHolds, PTL

===============================================================================

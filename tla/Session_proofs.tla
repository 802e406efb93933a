---------------------------- MODULE Session_proofs ----------------------------
(***************************************************************************)
(* Proofs about Session for any set of threads and number of buffers.      *)
(*                                                                         *)
(* The send path, the receive path and the life of the connection are each *)
(* a token: it is with the kernel (an operation is posted), with one       *)
(* thread, or nowhere, and the flags of the session say which.             *)
(***************************************************************************)
EXTENDS Session, SequenceTheorems, TLAPS

USE MaxBufAssumption, NoThreadAssumption

\* A thread owes its caller a step only inside DisconnectAsync.
ReturnInv == \A t \in Threads : ret[t] # "idle" => Disconnecting(t)

\* Who registers a buffer holds the lock, and there is room for the buffer.
LockInv ==
    /\ \A t \in Threads : pc[t] = "register" <=> sendLock = t
    /\ sendLock # NoThread => accepted < MaxBuf

\* The threads that bring the connection from ConnectAsync to mIsConnected, or
\* from there to its end.
Opening(t) == pc[t] \in {"addSession", "setConnected"}
Living(t) == Opening(t) \/ pc[t] \in {"remove", "discPost"}

\* The token of the connection's life: at one place at a time.
Unborn == connects = 0 \/ posted["connect"] = 1
NotEnding == posted["disconnect"] = 0 /\ onDisconnected = 0
LifeInv ==
    /\ connects = 0 => posted["connect"] = 0
    /\ Unborn => ~isConnected /\ NotEnding /\ \A t \in Threads : ~Living(t)
    /\ \A s, t \in Threads : Living(s) /\ Living(t) => s = t
    /\ \A t \in Threads : Living(t) => ~isConnected /\ NotEnding
    /\ isConnected => inService /\ NotEnding
    /\ \A t \in Threads : pc[t] = "setConnected" => inService
    /\ onDisconnected + posted["disconnect"] <= 1

\* The token of the receive path: born with OnConnected.
HasReceive(t) == pc[t] = "onConnected" \/ Receiving(t)
ReceiveInv ==
    /\ \A s, t \in Threads : HasReceive(s) /\ HasReceive(t) => s = t
    /\ posted["recv"] = 1 => \A t \in Threads : ~HasReceive(t)
    /\ (Unborn \/ \E t \in Threads : Opening(t)) =>
           posted["recv"] = 0 /\ \A t \in Threads : ~HasReceive(t)

\* Where a thread has the send or receive path, the event has no owner before
\* the test of mIsConnected and has one between it and the call of the kernel.
SendBare == {"sendCheck", "sent", "sendStore"}
SendArmed == {"swap", "sendPost"}
OwnerInv ==
    /\ OwnedWhilePending
    /\ \A t \in Threads : /\ pc[t] \in SendBare => ~owner["send"]
                          /\ pc[t] \in SendArmed => owner["send"]
    /\ \A t \in Threads : /\ pc[t] = "recvCheck" => ~owner["recv"]
                          /\ pc[t] = "recvPost" => owner["recv"]

IInv == TypeOK /\ ReturnInv /\ LockInv /\ OneSendInFlight /\ LifeInv /\ ReceiveInv /\ OwnerInv

Act(t) == SendAsync(t) \/ ConnectAsync(t) \/ Running(t) \/ Completion(t) \/ ReceiveDone(t)

LEMMA InitInv == Init => IInv
<1> SUFFICES ASSUME Init PROVE IInv
    OBVIOUS
<1>1. TypeOK
  <2>1. <<>> \in Seq(1..MaxBuf)
      BY EmptySeq
  <2>2. "idle" \in Labels /\ 0 \in 0..MaxBuf
      BY DEF Labels
  <2>3. posted \in [Ops -> 0..1] /\ owner \in [Ops -> BOOLEAN]
      BY DEF Init
  <2>4. pc \in [Threads -> Labels] /\ ret \in [Threads -> {"idle", "sendClear", "recvReset"}]
      BY <2>2 DEF Init
  <2> QED BY <2>1, <2>2, <2>3, <2>4 DEF Init, TypeOK, Ops
<1>2. ReturnInv /\ LockInv
    BY DEF Init, ReturnInv, LockInv
<1>3. OneSendInFlight
    BY DEF Init, OneSendInFlight, Sending, SendLabels, Ops
<1>4. LifeInv
    BY DEF Init, LifeInv, Unborn, NotEnding, Living, Opening, Ops
<1>5. ReceiveInv
    BY DEF Init, ReceiveInv, Unborn, HasReceive, Receiving, RecvLabels, Ops
<1>6. OwnerInv
    BY DEF Init, OwnerInv, OwnedWhilePending, SendBare, SendArmed, Ops
<1> QED BY <1>1, <1>2, <1>3, <1>4, <1>5, <1>6 DEF IInv

LEMMA ReturnStep ==
    ASSUME IInv, NEW t \in Threads, Act(t) PROVE ReturnInv'
<1> USE DEF connVars, sendVars, ioVars, faults, At, Goto, Return, Dequeue, HandleError, ReturnInv, Disconnecting
<1>0. TypeOK /\ ReturnInv
    BY DEF IInv
<1>1. CASE SendAsync(t) \/ ConnectAsync(t) \/ ReceiveDone(t)
    BY <1>0, <1>1 DEF TypeOK, SendAsync, ConnectAsync, ReceiveDone
<1>2. CASE Running(t)
    BY <1>0, <1>2 DEF TypeOK, Running, Register, SendCheck, Swap, SendClear, SendStore, SendPosted, SendRefused, Exchange, RemoveSession, DisconnectPosted, DisconnectRefused, ReceiveCheck, ReceivePosted, ReceiveReset, ReceiveRefused, AddSession, SetConnected, OnConnected, SentCheck
<1>3. CASE Completion(t)
    BY <1>0, <1>3 DEF TypeOK, Completion, ConnectDone, ConnectFailed, DisconnectDone, DisconnectFailed, ReceiveClosed, ReceiveFailed, SendDone, SendFailed
<1> QED BY <1>1, <1>2, <1>3 DEF Act

LEMMA LockStep ==
    ASSUME IInv, NEW t \in Threads, Act(t) PROVE LockInv'
<1> USE DEF connVars, sendVars, ioVars, faults, At, Goto, Return, Dequeue, HandleError, LockInv
<1>0. TypeOK /\ ReturnInv /\ LockInv
    BY DEF IInv
<1>1. CASE SendAsync(t) \/ ConnectAsync(t) \/ ReceiveDone(t)
    BY <1>0, <1>1 DEF TypeOK, SendAsync, ConnectAsync, ReceiveDone, AfterReceive
<1>2. CASE Running(t)
    BY <1>0, <1>2 DEF TypeOK, Running, Register, SendCheck, Swap, SendClear, SendStore, SendPosted, SendRefused, Exchange, RemoveSession, DisconnectPosted, DisconnectRefused, ReceiveCheck, ReceivePosted, ReceiveReset, ReceiveRefused, AddSession, SetConnected, OnConnected, SentCheck
<1>3. CASE Completion(t)
    BY <1>0, <1>3 DEF TypeOK, Completion, ConnectDone, ConnectFailed, DisconnectDone, DisconnectFailed, ReceiveClosed, ReceiveFailed, SendDone, SendFailed
<1> QED BY <1>1, <1>2, <1>3 DEF Act

\* What the steps below need of the types.
LEMMA Facts ==
    ASSUME IInv
    PROVE  /\ posted \in [Ops -> 0..1] /\ {"send", "recv", "connect", "disconnect"} \subseteq Ops
           /\ pc \in [Threads -> Labels] /\ ret \in [Threads -> {"idle", "sendClear", "recvReset"}]
           /\ \A u \in Threads : ret[u] # "idle" => pc[u] \in {"exchange", "remove", "discPost"}
           /\ onDisconnected \in Nat /\ connects \in 0..1 /\ isConnected \in BOOLEAN
BY DEF IInv, TypeOK, Ops, ReturnInv, Disconnecting

LEMMA SendStep ==
    ASSUME IInv, NEW t \in Threads, Act(t) PROVE OneSendInFlight'
<1> USE DEF connVars, sendVars, ioVars, faults, At, Goto, Return, Dequeue, HandleError, Post, Sending, SendLabels
<1>0. TypeOK /\ ReturnInv /\ OneSendInFlight
    BY DEF IInv
<1> HIDE DEF Sending
<1>d. ASSUME isSending' = isSending, posted'["send"] = posted["send"],
             \A u \in Threads : Sending(u)' <=> Sending(u)
      PROVE  OneSendInFlight'
    BY <1>0, <1>d DEF OneSendInFlight
<1> USE DEF Sending
<1>1. CASE SendAsync(t) \/ ConnectAsync(t) \/ ReceiveDone(t)
    BY Facts, <1>d, <1>1 DEF SendAsync, ConnectAsync, ReceiveDone, AfterReceive
<1>2. CASE Running(t)
  <2>1. CASE Register(t)
      BY <1>0, Facts, <2>1 DEF Register, WasSending, OneSendInFlight
  <2>2. CASE SendCheck(t) \/ Swap(t) \/ SendClear(t)
      BY <1>0, Facts, <2>2 DEF SendCheck, Swap, SendClear, OneSendInFlight
  <2>3. CASE SendStore(t) \/ SentCheck(t)
      BY <1>0, Facts, <2>3 DEF SendStore, SentCheck, OneSendInFlight
  <2>4. CASE SendPosted(t)
      BY <1>0, Facts, <2>4 DEF SendPosted, OneSendInFlight
  <2>5. CASE \E e \in Errors : SendRefused(t, e)
      BY <1>0, Facts, <2>5 DEF SendRefused, OneSendInFlight
  <2>6. CASE Exchange(t) \/ RemoveSession(t)
      BY Facts, <1>d, <2>6 DEF Exchange, RemoveSession
  <2>7. CASE DisconnectPosted(t) \/ \E e \in DiscErrors : DisconnectRefused(t, e)
      BY Facts, <1>d, <2>7 DEF DisconnectPosted, DisconnectRefused
  <2>8. CASE ReceiveCheck(t) \/ ReceivePosted(t) \/ ReceiveReset(t) \/ \E e \in Errors : ReceiveRefused(t, e)
      BY Facts, <1>d, <2>8 DEF ReceiveCheck, ReceivePosted, ReceiveReset, ReceiveRefused
  <2>9. CASE AddSession(t) \/ SetConnected(t) \/ OnConnected(t)
      BY Facts, <1>d, <2>9 DEF AddSession, SetConnected, OnConnected
  <2> QED BY <1>2, <2>1, <2>2, <2>3, <2>4, <2>5, <2>6, <2>7, <2>8, <2>9 DEF Running
<1>3. CASE Completion(t)
  <2>1. CASE SendDone(t) \/ \E e \in Errors : SendFailed(t, e)
      BY <1>0, Facts, <2>1 DEF SendDone, SendFailed, OneSendInFlight
  <2>2. CASE ConnectDone(t) \/ \E e \in ConnectErrors : ConnectFailed(t, e)
      BY Facts, <1>d, <2>2 DEF ConnectDone, ConnectFailed
  <2>3. CASE DisconnectDone(t) \/ \E e \in DiscErrors : DisconnectFailed(t, e)
      BY Facts, <1>d, <2>3 DEF DisconnectDone, DisconnectFailed
  <2>4. CASE ReceiveClosed(t) \/ \E e \in Errors : ReceiveFailed(t, e)
      BY Facts, <1>d, <2>4 DEF ReceiveClosed, ReceiveFailed
  <2> QED BY <1>3, <2>1, <2>2, <2>3, <2>4 DEF Completion
<1> QED BY <1>1, <1>2, <1>3 DEF Act

LEMMA LifeStep ==
    ASSUME IInv, NEW t \in Threads, Act(t) PROVE LifeInv'
<1> USE DEF connVars, sendVars, ioVars, faults, At, Goto, Return, Dequeue, HandleError, Post, Living, Opening
<1>0. LifeInv
    BY DEF IInv
<1> HIDE DEF Living, Opening
<1>d. ASSUME UNCHANGED <<connects, isConnected, inService, onDisconnected>>,
             posted'["connect"] = posted["connect"], posted'["disconnect"] = posted["disconnect"],
             \A u \in Threads : (Living(u)' <=> Living(u)) /\ (pc'[u] = "setConnected" <=> pc[u] = "setConnected")
      PROVE  LifeInv'
    BY <1>0, <1>d DEF LifeInv, Unborn, NotEnding
<1> USE DEF Living, Opening
<1>1. CASE SendAsync(t) \/ ReceiveDone(t)
    BY Facts, <1>d, <1>1 DEF SendAsync, ReceiveDone, AfterReceive
<1>2. CASE ConnectAsync(t)
    BY Facts, <1>0, <1>2 DEF ConnectAsync, LifeInv, Unborn, NotEnding
<1>3. CASE Running(t)
  <2>1. CASE Register(t) \/ SendCheck(t) \/ Swap(t) \/ SendClear(t)
      BY Facts, <1>d, <2>1 DEF Register, SendCheck, Swap, SendClear
  <2>2. CASE SendStore(t) \/ SentCheck(t) \/ SendPosted(t) \/ \E e \in Errors : SendRefused(t, e)
      BY Facts, <1>d, <2>2 DEF SendStore, SentCheck, SendPosted, SendRefused
  <2>3. CASE ReceiveCheck(t) \/ ReceivePosted(t) \/ ReceiveReset(t) \/ \E e \in Errors : ReceiveRefused(t, e)
      BY Facts, <1>d, <2>3 DEF ReceiveCheck, ReceivePosted, ReceiveReset, ReceiveRefused
  <2>4. CASE Exchange(t)
      BY Facts, <1>0, <2>4 DEF Exchange, WasConnected, LifeInv, Unborn, NotEnding
  <2>5. CASE RemoveSession(t)
      BY Facts, <1>0, <2>5 DEF RemoveSession, LifeInv, Unborn, NotEnding
  <2>6. CASE DisconnectPosted(t)
      BY Facts, <1>0, <2>6 DEF DisconnectPosted, LifeInv, Unborn, NotEnding
  <2>7. CASE \E e \in DiscErrors : DisconnectRefused(t, e)
      BY Facts, <1>0, <2>7 DEF DisconnectRefused, LifeInv, Unborn, NotEnding
  <2>8. CASE AddSession(t)
      BY Facts, <1>0, <2>8 DEF AddSession, LifeInv, Unborn, NotEnding
  <2>9. CASE SetConnected(t)
      BY Facts, <1>0, <2>9 DEF SetConnected, LifeInv, Unborn, NotEnding
  <2>10. CASE OnConnected(t)
      BY Facts, <1>d, <2>10 DEF OnConnected
  <2> QED BY <1>3, <2>1, <2>2, <2>3, <2>4, <2>5, <2>6, <2>7, <2>8, <2>9, <2>10 DEF Running
<1>4. CASE Completion(t)
  <2>1. CASE SendDone(t) \/ \E e \in Errors : SendFailed(t, e)
      BY Facts, <1>d, <2>1 DEF SendDone, SendFailed
  <2>2. CASE ConnectDone(t) \/ \E e \in ConnectErrors : ConnectFailed(t, e)
      BY Facts, <1>0, <2>2 DEF ConnectDone, ConnectFailed, LifeInv, Unborn, NotEnding
  <2>3. CASE DisconnectDone(t) \/ \E e \in DiscErrors : DisconnectFailed(t, e)
      BY Facts, <1>0, <2>3 DEF DisconnectDone, DisconnectFailed, LifeInv, Unborn, NotEnding
  <2>4. CASE ReceiveClosed(t) \/ \E e \in Errors : ReceiveFailed(t, e)
      BY Facts, <1>d, <2>4 DEF ReceiveClosed, ReceiveFailed
  <2> QED BY <1>4, <2>1, <2>2, <2>3, <2>4 DEF Completion
<1> QED BY <1>1, <1>2, <1>3, <1>4 DEF Act

LEMMA ReceiveStep ==
    ASSUME IInv, NEW t \in Threads, Act(t) PROVE ReceiveInv'
<1> USE DEF connVars, sendVars, ioVars, faults, At, Goto, Return, Dequeue, HandleError, Post,
            HasReceive, Receiving, RecvLabels, Opening
<1>0. LifeInv /\ ReceiveInv
    BY DEF IInv
<1> HIDE DEF HasReceive, Opening
<1>d. ASSUME connects' = connects,
             posted'["connect"] = posted["connect"], posted'["recv"] = posted["recv"],
             \A u \in Threads : (HasReceive(u)' <=> HasReceive(u)) /\ (Opening(u)' => Opening(u))
      PROVE  ReceiveInv'
    BY <1>0, <1>d DEF ReceiveInv, Unborn
<1> USE DEF HasReceive, Opening
<1>1. CASE SendAsync(t)
    BY Facts, <1>d, <1>1 DEF SendAsync
<1>2. CASE ConnectAsync(t)
    BY Facts, <1>0, <1>2 DEF ConnectAsync, ReceiveInv, LifeInv, Unborn, Living
<1>3. CASE Running(t)
  <2>1. CASE Register(t) \/ SendCheck(t) \/ Swap(t) \/ SendClear(t)
      BY Facts, <1>d, <2>1 DEF Register, SendCheck, Swap, SendClear
  <2>2. CASE SendStore(t) \/ SentCheck(t) \/ SendPosted(t) \/ \E e \in Errors : SendRefused(t, e)
      BY Facts, <1>d, <2>2 DEF SendStore, SentCheck, SendPosted, SendRefused
  <2>3. CASE ReceiveCheck(t) \/ ReceiveReset(t) \/ \E e \in Errors : ReceiveRefused(t, e)
      BY Facts, <1>0, <2>3 DEF ReceiveCheck, ReceiveReset, ReceiveRefused, ReceiveInv, Unborn
  <2>4. CASE ReceivePosted(t)
      BY Facts, <1>0, <2>4 DEF ReceivePosted, ReceiveInv, Unborn
  <2>5. CASE Exchange(t) \/ RemoveSession(t)
      BY Facts, <1>d, <2>5 DEF Exchange, RemoveSession
  <2>6. CASE DisconnectPosted(t) \/ \E e \in DiscErrors : DisconnectRefused(t, e)
      BY Facts, <1>d, <2>6 DEF DisconnectPosted, DisconnectRefused
  <2>7. CASE AddSession(t)
      BY Facts, <1>d, <2>7 DEF AddSession
  <2>8. CASE SetConnected(t)
      BY Facts, <1>0, <2>8 DEF SetConnected, ReceiveInv, LifeInv, Unborn, Living
  <2>9. CASE OnConnected(t)
      BY Facts, <1>0, <2>9 DEF OnConnected, ReceiveInv, Unborn
  <2> QED BY <1>3, <2>1, <2>2, <2>3, <2>4, <2>5, <2>6, <2>7, <2>8, <2>9 DEF Running
<1>4. CASE Completion(t)
  <2>1. CASE SendDone(t) \/ \E e \in Errors : SendFailed(t, e)
      BY Facts, <1>d, <2>1 DEF SendDone, SendFailed
  <2>2. CASE ConnectDone(t) \/ \E e \in ConnectErrors : ConnectFailed(t, e)
      BY Facts, <1>0, <2>2 DEF ConnectDone, ConnectFailed, ReceiveInv, Unborn
  <2>3. CASE DisconnectDone(t) \/ \E e \in DiscErrors : DisconnectFailed(t, e)
      BY Facts, <1>d, <2>3 DEF DisconnectDone, DisconnectFailed
  <2>4. CASE ReceiveClosed(t) \/ \E e \in Errors : ReceiveFailed(t, e)
      BY Facts, <1>0, <2>4 DEF ReceiveClosed, ReceiveFailed, ReceiveInv, Unborn
  <2> QED BY <1>4, <2>1, <2>2, <2>3, <2>4 DEF Completion
<1>5. CASE ReceiveDone(t)
    BY Facts, <1>0, <1>5 DEF ReceiveDone, AfterReceive, ReceiveInv, Unborn
<1> QED BY <1>1, <1>2, <1>3, <1>4, <1>5 DEF Act

\* OwnerInv, one operation at a time.
SendOwned == /\ posted["send"] > 0 => owner["send"]
             /\ owner["send"] => posted["send"] > 0 \/ \E t \in Threads : Sending(t)
             /\ \A t \in Threads : /\ pc[t] \in SendBare => ~owner["send"]
                                   /\ pc[t] \in SendArmed => owner["send"]
ReceiveOwned == /\ posted["recv"] > 0 => owner["recv"]
                /\ owner["recv"] => posted["recv"] > 0 \/ \E t \in Threads : Receiving(t)
                /\ \A t \in Threads : /\ pc[t] = "recvCheck" => ~owner["recv"]
                                      /\ pc[t] = "recvPost" => owner["recv"]
LifeOwned == \A op \in {"connect", "disconnect"} : owner[op] <=> posted[op] > 0

LEMMA OwnerParts == OwnerInv <=> SendOwned /\ ReceiveOwned /\ LifeOwned
BY DEF OwnerInv, OwnedWhilePending, OwnerOf, SendOwned, ReceiveOwned, LifeOwned, Ops

LEMMA SendOwnedStep ==
    ASSUME IInv, NEW t \in Threads, Act(t) PROVE SendOwned'
<1> USE DEF connVars, sendVars, ioVars, faults, At, Goto, Return, Dequeue, HandleError, Post,
            OwnerSet, OwnerReset, Sending, SendLabels, SendBare, SendArmed
<1>0. SendOwned /\ OneSendInFlight /\ owner \in [Ops -> BOOLEAN]
    BY OwnerParts DEF IInv, TypeOK
<1> HIDE DEF Sending, SendBare, SendArmed
<1>d. ASSUME owner'["send"] = owner["send"], posted'["send"] = posted["send"],
             \A u \in Threads : /\ Sending(u) => Sending(u)'
                                /\ pc'[u] \in SendBare => pc[u] \in SendBare
                                /\ pc'[u] \in SendArmed => pc[u] \in SendArmed
      PROVE  SendOwned'
    BY <1>0, <1>d DEF SendOwned
<1> USE DEF Sending, SendBare, SendArmed
<1>1. CASE SendAsync(t) \/ ConnectAsync(t) \/ ReceiveDone(t)
    BY Facts, <1>0, <1>d, <1>1 DEF SendAsync, ConnectAsync, ReceiveDone, AfterReceive
<1>2. CASE Running(t)
  <2>1. CASE Register(t)
      BY <1>0, Facts, <2>1 DEF Register, WasSending, OneSendInFlight, SendOwned
  <2>2. CASE SendCheck(t)
      BY <1>0, Facts, <2>2 DEF SendCheck, OneSendInFlight, SendOwned
  <2>3. CASE Swap(t)
      BY <1>0, Facts, <1>d, <2>3 DEF Swap
  <2>4. CASE SendPosted(t)
      BY <1>0, Facts, <2>4 DEF SendPosted, OneSendInFlight, SendOwned
  <2>5. CASE \E e \in Errors : SendRefused(t, e)
      BY <1>0, Facts, <1>d, <2>5 DEF SendRefused
  <2>6. CASE SendClear(t)
      BY <1>0, Facts, <2>6 DEF SendClear, OneSendInFlight, SendOwned
  <2>7. CASE SendStore(t) \/ SentCheck(t)
      BY <1>0, Facts, <2>7 DEF SendStore, SentCheck, OneSendInFlight, SendOwned
  <2>8. CASE Exchange(t) \/ RemoveSession(t)
      BY <1>0, Facts, <1>d, <2>8 DEF Exchange, RemoveSession
  <2>9. CASE DisconnectPosted(t) \/ \E e \in DiscErrors : DisconnectRefused(t, e)
    <3>1. CASE DisconnectPosted(t)
        BY <1>0, Facts, <1>d, <3>1 DEF DisconnectPosted
    <3>2. CASE \E e \in DiscErrors : DisconnectRefused(t, e)
        BY <1>0, Facts, <1>d, <3>2 DEF DisconnectRefused
    <3> QED BY <2>9, <3>1, <3>2
  <2>10. CASE ReceiveCheck(t) \/ ReceivePosted(t) \/ ReceiveReset(t) \/ \E e \in Errors : ReceiveRefused(t, e)
      BY <1>0, Facts, <1>d, <2>10 DEF ReceiveCheck, ReceivePosted, ReceiveReset, ReceiveRefused
  <2>11. CASE AddSession(t) \/ SetConnected(t) \/ OnConnected(t)
      BY <1>0, Facts, <1>d, <2>11 DEF AddSession, SetConnected, OnConnected
  <2> QED BY <1>2, <2>1, <2>2, <2>3, <2>4, <2>5, <2>6, <2>7, <2>8, <2>9, <2>10, <2>11 DEF Running
<1>3. CASE Completion(t)
  <2>1. CASE SendDone(t) \/ \E e \in Errors : SendFailed(t, e)
      BY <1>0, Facts, <2>1 DEF SendDone, SendFailed, OneSendInFlight, SendOwned
  <2>2. CASE ConnectDone(t) \/ \E e \in ConnectErrors : ConnectFailed(t, e)
      BY <1>0, Facts, <1>d, <2>2 DEF ConnectDone, ConnectFailed
  <2>3. CASE DisconnectDone(t) \/ \E e \in DiscErrors : DisconnectFailed(t, e)
      BY <1>0, Facts, <1>d, <2>3 DEF DisconnectDone, DisconnectFailed
  <2>4. CASE ReceiveClosed(t) \/ \E e \in Errors : ReceiveFailed(t, e)
      BY <1>0, Facts, <1>d, <2>4 DEF ReceiveClosed, ReceiveFailed
  <2> QED BY <1>3, <2>1, <2>2, <2>3, <2>4 DEF Completion
<1> QED BY <1>1, <1>2, <1>3 DEF Act

LEMMA ReceiveOwnedStep ==
    ASSUME IInv, NEW t \in Threads, Act(t) PROVE ReceiveOwned'
<1> USE DEF connVars, sendVars, ioVars, faults, At, Goto, Return, Dequeue, HandleError, Post,
            OwnerSet, OwnerReset, Receiving, RecvLabels
<1>0. ReceiveOwned /\ ReceiveInv /\ owner \in [Ops -> BOOLEAN]
    BY OwnerParts DEF IInv, TypeOK
<1> HIDE DEF Receiving
<1>d. ASSUME owner'["recv"] = owner["recv"], posted'["recv"] = posted["recv"],
             \A u \in Threads : /\ Receiving(u) => Receiving(u)'
                                /\ pc'[u] \in {"recvCheck", "recvPost"} => pc'[u] = pc[u]
      PROVE  ReceiveOwned'
    BY <1>0, <1>d DEF ReceiveOwned
<1> USE DEF Receiving
<1>1. CASE SendAsync(t) \/ ConnectAsync(t)
    BY Facts, <1>0, <1>d, <1>1 DEF SendAsync, ConnectAsync
<1>2. CASE Running(t)
  <2>1. CASE Register(t) \/ SendCheck(t) \/ Swap(t) \/ SendClear(t)
      BY <1>0, Facts, <1>d, <2>1 DEF Register, SendCheck, Swap, SendClear
  <2>2. CASE SendStore(t) \/ SentCheck(t) \/ SendPosted(t) \/ \E e \in Errors : SendRefused(t, e)
      BY <1>0, Facts, <1>d, <2>2 DEF SendStore, SentCheck, SendPosted, SendRefused
  <2>3. CASE ReceiveCheck(t)
      BY <1>0, Facts, <2>3 DEF ReceiveCheck, ReceiveInv, HasReceive, ReceiveOwned
  <2>4. CASE ReceivePosted(t)
      BY <1>0, Facts, <2>4 DEF ReceivePosted, ReceiveInv, HasReceive, ReceiveOwned
  <2>5. CASE ReceiveReset(t)
      BY <1>0, Facts, <2>5 DEF ReceiveReset, ReceiveInv, HasReceive, ReceiveOwned
  <2>6. CASE \E e \in Errors : ReceiveRefused(t, e)
      BY <1>0, Facts, <1>d, <2>6 DEF ReceiveRefused
  <2>7. CASE Exchange(t) \/ RemoveSession(t)
      BY <1>0, Facts, <1>d, <2>7 DEF Exchange, RemoveSession
  <2>8. CASE DisconnectPosted(t) \/ \E e \in DiscErrors : DisconnectRefused(t, e)
    <3>1. CASE DisconnectPosted(t)
        BY <1>0, Facts, <1>d, <3>1 DEF DisconnectPosted
    <3>2. CASE \E e \in DiscErrors : DisconnectRefused(t, e)
        BY <1>0, Facts, <1>d, <3>2 DEF DisconnectRefused
    <3> QED BY <2>8, <3>1, <3>2
  <2>9. CASE AddSession(t) \/ SetConnected(t)
      BY <1>0, Facts, <1>d, <2>9 DEF AddSession, SetConnected
  <2>10. CASE OnConnected(t)
      BY <1>0, Facts, <2>10 DEF OnConnected, ReceiveInv, HasReceive, ReceiveOwned
  <2> QED BY <1>2, <2>1, <2>2, <2>3, <2>4, <2>5, <2>6, <2>7, <2>8, <2>9, <2>10 DEF Running
<1>3. CASE Completion(t)
  <2>1. CASE SendDone(t) \/ \E e \in Errors : SendFailed(t, e)
      BY <1>0, Facts, <1>d, <2>1 DEF SendDone, SendFailed
  <2>2. CASE ConnectDone(t) \/ \E e \in ConnectErrors : ConnectFailed(t, e)
      BY <1>0, Facts, <1>d, <2>2 DEF ConnectDone, ConnectFailed
  <2>3. CASE DisconnectDone(t) \/ \E e \in DiscErrors : DisconnectFailed(t, e)
      BY <1>0, Facts, <1>d, <2>3 DEF DisconnectDone, DisconnectFailed
  <2>4. CASE ReceiveClosed(t) \/ \E e \in Errors : ReceiveFailed(t, e)
      BY <1>0, Facts, <2>4 DEF ReceiveClosed, ReceiveFailed, ReceiveInv, HasReceive, ReceiveOwned
  <2> QED BY <1>3, <2>1, <2>2, <2>3, <2>4 DEF Completion
<1>4. CASE ReceiveDone(t)
    BY <1>0, Facts, <1>4 DEF ReceiveDone, AfterReceive, ReceiveInv, HasReceive, ReceiveOwned
<1> QED BY <1>1, <1>2, <1>3, <1>4 DEF Act

LEMMA LifeOwnedStep ==
    ASSUME IInv, NEW t \in Threads, Act(t) PROVE LifeOwned'
<1> USE DEF connVars, sendVars, ioVars, faults, At, Goto, Return, Dequeue, HandleError, Post,
            OwnerSet, OwnerReset, LifeOwned
<1>0. LifeOwned /\ LifeInv /\ owner \in [Ops -> BOOLEAN]
    BY OwnerParts DEF IInv, TypeOK
<1>1. CASE SendAsync(t) \/ ConnectAsync(t) \/ ReceiveDone(t)
    BY Facts, <1>0, <1>1 DEF SendAsync, ConnectAsync, ReceiveDone
<1>2. CASE Running(t)
  <2>1. CASE DisconnectPosted(t) \/ \E e \in DiscErrors : DisconnectRefused(t, e)
    <3>1. CASE DisconnectPosted(t)
        BY <1>0, Facts, <3>1 DEF DisconnectPosted, LifeInv, NotEnding, Living
    <3>2. CASE \E e \in DiscErrors : DisconnectRefused(t, e)
        BY <1>0, Facts, <3>2 DEF DisconnectRefused, LifeInv, NotEnding, Living
    <3> QED BY <2>1, <3>1, <3>2
  <2>2. CASE Register(t) \/ SendCheck(t) \/ Swap(t) \/ SendClear(t) \/ SendStore(t) \/ SentCheck(t)
      BY <1>0, Facts, <2>2 DEF Register, SendCheck, Swap, SendClear, SendStore, SentCheck
  <2>3. CASE SendPosted(t) \/ \E e \in Errors : SendRefused(t, e)
      BY <1>0, Facts, <2>3 DEF SendPosted, SendRefused
  <2>4. CASE ReceiveCheck(t) \/ ReceivePosted(t) \/ ReceiveReset(t) \/ \E e \in Errors : ReceiveRefused(t, e)
      BY <1>0, Facts, <2>4 DEF ReceiveCheck, ReceivePosted, ReceiveReset, ReceiveRefused
  <2>5. CASE Exchange(t) \/ RemoveSession(t) \/ AddSession(t) \/ SetConnected(t) \/ OnConnected(t)
      BY <1>0, <2>5 DEF Exchange, RemoveSession, AddSession, SetConnected, OnConnected
  <2> QED BY <1>2, <2>1, <2>2, <2>3, <2>4, <2>5 DEF Running
<1>3. CASE Completion(t)
    BY <1>0, Facts, <1>3 DEF Completion, ConnectDone, ConnectFailed, DisconnectDone, DisconnectFailed, ReceiveClosed, ReceiveFailed, SendDone, SendFailed
<1> QED BY <1>1, <1>2, <1>3 DEF Act

\* TypeOK, one kind of variable at a time: the places, the operations, the
\* flags and counters, and the queues of buffers.
PlaceOK == pc \in [Threads -> Labels] /\ ret \in [Threads -> {"idle", "sendClear", "recvReset"}]
IoOK == owner \in [Ops -> BOOLEAN] /\ posted \in [Ops -> 0..1]
FlagOK ==
    /\ isConnected \in BOOLEAN /\ isSending \in BOOLEAN /\ inService \in BOOLEAN /\ crashed \in BOOLEAN
    /\ connects \in 0..1 /\ onConnected \in Nat /\ onDisconnected \in Nat
    /\ unanswered \subseteq Ops
QueueOK ==
    /\ sendMgr \in Seq(1..MaxBuf) /\ eventMgr \in Seq(1..MaxBuf) /\ wire \in Seq(1..MaxBuf)
    /\ sendLock \in Threads \cup {NoThread} /\ accepted \in 0..MaxBuf

LEMMA TypeParts == TypeOK <=> PlaceOK /\ IoOK /\ FlagOK /\ QueueOK
BY DEF TypeOK, PlaceOK, IoOK, FlagOK, QueueOK

LEMMA PlaceStep ==
    ASSUME IInv, NEW t \in Threads, Act(t) PROVE PlaceOK'
<1> USE DEF connVars, sendVars, ioVars, faults, At, Goto, Return, Dequeue, HandleError, PlaceOK, Labels, SendLabels, RecvLabels
<1>0. PlaceOK
    BY TypeParts DEF IInv
<1>1. CASE SendAsync(t) \/ ConnectAsync(t) \/ ReceiveDone(t)
    BY <1>0, <1>1 DEF SendAsync, ConnectAsync, ReceiveDone, AfterReceive
<1>2. CASE Running(t)
  <2>1. CASE Register(t) \/ SendCheck(t) \/ Swap(t) \/ SendClear(t) \/ SendStore(t) \/ SendPosted(t)
      BY <1>0, <2>1 DEF Register, SendCheck, Swap, SendClear, SendStore, SendPosted
  <2>2. CASE Exchange(t) \/ RemoveSession(t) \/ DisconnectPosted(t) \/ \E e \in DiscErrors : DisconnectRefused(t, e)
      BY <1>0, <2>2 DEF Exchange, RemoveSession, DisconnectPosted, DisconnectRefused
  <2>3. CASE ReceiveCheck(t) \/ ReceivePosted(t) \/ ReceiveReset(t)
      BY <1>0, <2>3 DEF ReceiveCheck, ReceivePosted, ReceiveReset
  <2>4. CASE AddSession(t) \/ SetConnected(t) \/ OnConnected(t) \/ SentCheck(t)
      BY <1>0, <2>4 DEF AddSession, SetConnected, OnConnected, SentCheck
  <2>5. CASE \E e \in Errors : SendRefused(t, e) \/ ReceiveRefused(t, e)
      BY <1>0, <2>5 DEF SendRefused, ReceiveRefused
  <2> QED BY <1>2, <2>1, <2>2, <2>3, <2>4, <2>5 DEF Running
<1>3. CASE Completion(t)
    BY <1>0, <1>3 DEF Completion, ConnectDone, ConnectFailed, DisconnectDone, DisconnectFailed, ReceiveClosed, ReceiveFailed, SendDone, SendFailed
<1> QED BY <1>1, <1>2, <1>3 DEF Act

\* An operation is posted only where its token has left the kernel.
LEMMA IoStep ==
    ASSUME IInv, NEW t \in Threads, Act(t) PROVE IoOK'
<1> USE DEF connVars, sendVars, ioVars, faults, At, Goto, Dequeue, Post, IoOK
<1>0. IoOK /\ {"send", "recv", "connect", "disconnect"} \subseteq Ops
    BY TypeParts, Facts DEF IInv
<1>o. \A op \in Ops : OwnerSet(op) \in [Ops -> BOOLEAN] /\ OwnerReset(op) \in [Ops -> BOOLEAN]
    BY <1>0 DEF OwnerSet, OwnerReset
<1>q. \A op \in Ops : Dequeue(t, op) => IoOK'
    BY <1>0, <1>o
<1>1. CASE SendAsync(t) \/ ReceiveDone(t)
    BY <1>0, <1>o, <1>1 DEF SendAsync, ReceiveDone
<1>2. CASE ConnectAsync(t)
    BY <1>0, <1>o, <1>2 DEF ConnectAsync, IInv, LifeInv
<1>3. CASE Running(t)
  <2>1. CASE SendPosted(t)
      BY <1>0, <1>o, <2>1 DEF SendPosted, IInv, OneSendInFlight, Sending, SendLabels
  <2>2. CASE ReceivePosted(t)
      BY <1>0, <1>o, <2>2 DEF ReceivePosted, IInv, ReceiveInv, HasReceive, Receiving, RecvLabels
  <2>3. CASE DisconnectPosted(t)
      BY <1>0, <1>o, <2>3 DEF DisconnectPosted, IInv, LifeInv, Living, NotEnding
  <2>4. CASE Register(t) \/ SendCheck(t) \/ Swap(t) \/ SendClear(t) \/ SendStore(t) \/ SentCheck(t)
      BY <1>0, <1>o, <2>4 DEF Register, SendCheck, Swap, SendClear, SendStore, SentCheck
  <2>5. CASE \/ \E e \in Errors : SendRefused(t, e) \/ ReceiveRefused(t, e)
             \/ \E e \in DiscErrors : DisconnectRefused(t, e)
      BY <1>0, <1>o, <2>5 DEF SendRefused, ReceiveRefused, DisconnectRefused
  <2>6. CASE ReceiveCheck(t) \/ ReceiveReset(t)
      BY <1>0, <1>o, <2>6 DEF ReceiveCheck, ReceiveReset
  <2>7. CASE Exchange(t) \/ RemoveSession(t) \/ AddSession(t) \/ SetConnected(t) \/ OnConnected(t)
      BY <1>0, <1>o, <2>7 DEF Exchange, RemoveSession, AddSession, SetConnected, OnConnected
  <2> QED BY <1>3, <2>1, <2>2, <2>3, <2>4, <2>5, <2>6, <2>7 DEF Running
<1>4. CASE Completion(t)
  <2> HIDE DEF Dequeue, IoOK
  <2> QED BY <1>0, <1>q, <1>4 DEF Completion, ConnectDone, ConnectFailed, DisconnectDone, DisconnectFailed, ReceiveClosed, ReceiveFailed, SendDone, SendFailed
<1> QED BY <1>1, <1>2, <1>3, <1>4 DEF Act

LEMMA FlagStep ==
    ASSUME IInv, NEW t \in Threads, Act(t) PROVE FlagOK'
<1> USE DEF connVars, sendVars, ioVars, faults, At, Goto, Return, Dequeue, HandleError, FlagOK, Ops
<1>0. FlagOK
    BY TypeParts DEF IInv
<1>1. CASE SendAsync(t)
    BY <1>0, <1>1 DEF SendAsync
<1>2. CASE ConnectAsync(t)
    BY <1>0, <1>2 DEF ConnectAsync
<1>3. CASE ReceiveDone(t)
    BY <1>0, <1>3 DEF ReceiveDone
<1>4. CASE Running(t)
  <2>1. CASE Register(t) \/ SendStore(t) \/ SentCheck(t)
      BY <1>0, <2>1 DEF Register, SendStore, SentCheck
  <2>2. CASE SendCheck(t) \/ Swap(t) \/ SendPosted(t)
      BY <1>0, <2>2 DEF SendCheck, Swap, SendPosted
  <2>3. CASE SendClear(t)
      BY <1>0, <2>3 DEF SendClear
  <2>4. CASE \E e \in Errors : SendRefused(t, e) \/ ReceiveRefused(t, e)
      BY <1>0, <2>4 DEF SendRefused, ReceiveRefused
  <2>5. CASE \E e \in DiscErrors : DisconnectRefused(t, e)
      BY <1>0, <2>5 DEF DisconnectRefused
  <2>6. CASE DisconnectPosted(t) \/ ReceiveCheck(t) \/ ReceivePosted(t) \/ ReceiveReset(t)
      BY <1>0, <2>6 DEF DisconnectPosted, ReceiveCheck, ReceivePosted, ReceiveReset
  <2>7. CASE Exchange(t) \/ RemoveSession(t)
      BY <1>0, <2>7 DEF Exchange, RemoveSession
  <2>8. CASE AddSession(t) \/ SetConnected(t)
      BY <1>0, <2>8 DEF AddSession, SetConnected
  <2>9. CASE OnConnected(t)
      BY <1>0, <2>9 DEF OnConnected
  <2> QED BY <1>4, <2>1, <2>2, <2>3, <2>4, <2>5, <2>6, <2>7, <2>8, <2>9 DEF Running
<1>5. CASE Completion(t)
  <2>1. CASE ConnectDone(t) \/ ReceiveClosed(t) \/ SendDone(t)
      BY <1>0, <2>1 DEF ConnectDone, ReceiveClosed, SendDone
  <2>2. CASE \E e \in Errors : ReceiveFailed(t, e) \/ SendFailed(t, e)
      BY <1>0, <2>2 DEF ReceiveFailed, SendFailed
  <2>3. CASE \/ \E e \in ConnectErrors : ConnectFailed(t, e)
             \/ \E e \in DiscErrors : DisconnectFailed(t, e)
      BY <1>0, <2>3 DEF ConnectFailed, DisconnectFailed
  <2>4. CASE DisconnectDone(t)
      BY <1>0, <2>4 DEF DisconnectDone
  <2> QED BY <1>5, <2>1, <2>2, <2>3, <2>4 DEF Completion
<1> QED BY <1>1, <1>2, <1>3, <1>4, <1>5 DEF Act

\* There is room for the buffer a registering thread adds: LockInv.
LEMMA QueueStep ==
    ASSUME IInv, NEW t \in Threads, Act(t) PROVE QueueOK'
<1> USE DEF connVars, sendVars, ioVars, faults, At, Goto, Dequeue, QueueOK
<1>0. QueueOK
    BY TypeParts DEF IInv
<1>1. CASE SendAsync(t) \/ ConnectAsync(t) \/ ReceiveDone(t)
    BY <1>0, <1>1 DEF SendAsync, ConnectAsync, ReceiveDone
<1>2. CASE Running(t)
  <2>1. CASE Register(t)
    <3>1. accepted + 1 \in 1..MaxBuf
        BY <1>0, <2>1 DEF Register, At, IInv, LockInv
    <3>2. Append(sendMgr, accepted + 1) \in Seq(1..MaxBuf)
        BY <1>0, <3>1, AppendProperties
    <3> QED BY <1>0, <2>1, <3>1, <3>2 DEF Register
  <2>2. CASE SendPosted(t)
    <3>1. wire \o eventMgr \in Seq(1..MaxBuf)
        BY <1>0, ConcatProperties
    <3> QED BY <1>0, <2>2, <3>1 DEF SendPosted
  <2>3. CASE SendClear(t)
      BY <1>0, <2>3, EmptySeq DEF SendClear
  <2>4. CASE SendCheck(t) \/ Swap(t) \/ SendStore(t) \/ SentCheck(t) \/ \E e \in Errors : SendRefused(t, e)
      BY <1>0, <2>4 DEF SendCheck, Swap, SendStore, SentCheck, SendRefused
  <2>5. CASE ReceiveCheck(t) \/ ReceivePosted(t) \/ ReceiveReset(t) \/ \E e \in Errors : ReceiveRefused(t, e)
      BY <1>0, <2>5 DEF ReceiveCheck, ReceivePosted, ReceiveReset, ReceiveRefused
  <2>6. CASE DisconnectPosted(t) \/ \E e \in DiscErrors : DisconnectRefused(t, e)
      BY <1>0, <2>6 DEF DisconnectPosted, DisconnectRefused
  <2>7. CASE Exchange(t) \/ RemoveSession(t) \/ AddSession(t) \/ SetConnected(t) \/ OnConnected(t)
      BY <1>0, <2>7 DEF Exchange, RemoveSession, AddSession, SetConnected, OnConnected
  <2> QED BY <1>2, <2>1, <2>2, <2>3, <2>4, <2>5, <2>6, <2>7 DEF Running
<1>3. CASE Completion(t)
    BY <1>0, <1>3, EmptySeq DEF Completion, ConnectDone, ConnectFailed, DisconnectDone, DisconnectFailed, ReceiveClosed, ReceiveFailed, SendDone, SendFailed, Cleared
<1> QED BY <1>1, <1>2, <1>3 DEF Act

LEMMA NextInv == IInv /\ [Next]_vars => IInv'
<1> SUFFICES ASSUME IInv, [Next]_vars PROVE IInv'
    OBVIOUS
<1>1. CASE UNCHANGED vars
    BY <1>1 DEF vars, connVars, sendVars, ioVars, faults, IInv, TypeOK, ReturnInv, Disconnecting, LockInv,
                OneSendInFlight, Sending, LifeInv, Unborn, NotEnding, Living, Opening, ReceiveInv,
                HasReceive, Receiving, OwnerInv, OwnedWhilePending, OwnerOf
<1>2. CASE Next
  <2>1. PICK t \in Threads : Act(t)
      BY <1>2 DEF Next, Act
  <2>2. TypeOK'
      BY <2>1, PlaceStep, IoStep, FlagStep, QueueStep DEF TypeOK, PlaceOK, IoOK, FlagOK, QueueOK
  <2>3. OwnerInv'
      BY <2>1, SendOwnedStep, ReceiveOwnedStep, LifeOwnedStep
         DEF OwnerInv, OwnedWhilePending, OwnerOf, SendOwned, ReceiveOwned, LifeOwned, Ops
  <2> QED BY <2>1, <2>2, <2>3, ReturnStep, LockStep, SendStep, LifeStep, ReceiveStep DEF IInv
<1> QED BY <1>1, <1>2

LEMMA Inductive == Spec => []IInv
BY InitInv, NextInv, PTL DEF Spec

\* The variables keep their types: in particular no operation is posted while
\* the kernel still has the same event of the session, the condition under
\* which an Io/Event.h object may be given to the kernel.
THEOREM TypeCorrect == Spec => []TypeOK
<1>1. IInv => TypeOK
    BY DEF IInv
<1> QED BY <1>1, Inductive, PTL

\* Whatever senders, completions and errors meet, the one send event of the
\* session (Session.cpp:95-102 and 428-441) is with the kernel or with one thread.
THEOREM OneSendInFlightHolds == Spec => []OneSendInFlight
<1>1. IInv => OneSendInFlight
    BY DEF IInv
<1> QED BY <1>1, Inductive, PTL

\* Session.cpp:60-77: however many handlers call DisconnectAsync, the session is
\* removed and disconnected once, and OnDisconnected is called once.
THEOREM DisconnectOnceHolds == Spec => []DisconnectOnce
<1>1. IInv => DisconnectOnce
    BY Facts DEF IInv, LifeInv, NotEnding, Living, DisconnectOnce
<1> QED BY <1>1, Inductive, PTL

\* The event of a posted operation owns the session, and no event goes on owning
\* it when the operation is over: the session neither dies early nor leaks.
THEOREM OwnedWhilePendingHolds == Spec => []OwnedWhilePending
<1>1. IInv => OwnedWhilePending
    BY DEF IInv, OwnerInv
<1> QED BY <1>1, Inductive, PTL

-------------------------------------------------------------------------------
(* What keeps a live session going.  The token of a path leaves it for good  *)
(* only when mIsConnected is reset or an error has been logged.              *)

ReceiveGoesOn(t) == Receiving(t) \/ Disconnecting(t) \/ pc[t] = "onConnected"
ReceiveLive ==
    /\ isConnected /\ "recv" \notin unanswered =>
          posted["recv"] = 1 \/ \E t \in Threads : ReceiveGoesOn(t)
    /\ \A t \in Threads : pc[t] = "recvReset" => ~isConnected \/ "recv" \in unanswered

SendGoesOn(t) == Sending(t) \/ Disconnecting(t)
Young == Unborn \/ \E t \in Threads : Opening(t)
SendLive ==
    /\ isConnected /\ (isSending \/ sendMgr # <<>>) /\ "send" \notin unanswered =>
          posted["send"] > 0 \/ \E t \in Threads : SendGoesOn(t)
    /\ \A t \in Threads :
          pc[t] \in {"sendClear", "sendStore"} => ~isConnected \/ "send" \in unanswered
    /\ Young => onConnected = 0
    /\ onConnected = 0 => ~isSending /\ sendMgr = <<>> /\ sendLock = NoThread

LiveInv == IInv /\ ReceiveLive /\ SendLive

LEMMA LiveInit == Init => LiveInv
<1> SUFFICES ASSUME Init PROVE LiveInv
    OBVIOUS
<1>1. ReceiveLive /\ SendLive
    BY DEF Init, ReceiveLive, SendLive, Young, Unborn, Opening
<1> QED BY <1>1, InitInv DEF LiveInv

LEMMA ReceiveLiveStep ==
    ASSUME LiveInv, NEW t \in Threads, Act(t) PROVE ReceiveLive'
<1> USE DEF connVars, sendVars, ioVars, faults, At, Goto, Return, Dequeue, HandleError, Post,
            ReceiveGoesOn, Receiving, RecvLabels, Disconnecting
<1>0. IInv /\ ReceiveLive /\ LifeInv /\ ReceiveInv
    BY DEF LiveInv, IInv
<1> HIDE DEF ReceiveGoesOn
<1>d. ASSUME isConnected' => isConnected, unanswered \subseteq unanswered', posted'["recv"] = posted["recv"],
             isConnected' => \A u \in Threads : ReceiveGoesOn(u) => ReceiveGoesOn(u)',
             \A u \in Threads : pc'[u] = "recvReset" => pc[u] = "recvReset" \/ ~isConnected'
      PROVE  ReceiveLive'
    BY <1>0, <1>d DEF ReceiveLive
<1> USE DEF ReceiveGoesOn
<1>1. CASE SendAsync(t) \/ ConnectAsync(t)
    BY Facts, <1>0, <1>d, <1>1 DEF SendAsync, ConnectAsync
<1>2. CASE Running(t)
  <2>1. CASE Register(t) \/ SendCheck(t) \/ Swap(t) \/ SendClear(t)
      BY Facts, <1>0, <1>d, <2>1 DEF Register, SendCheck, Swap, SendClear
  <2>2. CASE SendStore(t) \/ SentCheck(t) \/ SendPosted(t) \/ \E e \in Errors : SendRefused(t, e)
      BY Facts, <1>0, <1>d, <2>2 DEF SendStore, SentCheck, SendPosted, SendRefused
  <2>3. CASE ReceiveCheck(t)
      BY Facts, <1>0, <2>3 DEF ReceiveCheck, ReceiveLive
  <2>4. CASE ReceivePosted(t)
      BY Facts, <1>0, <2>4 DEF ReceivePosted, ReceiveLive, ReceiveInv, HasReceive
  <2>5. CASE ReceiveReset(t)
      BY Facts, <1>0, <2>5 DEF ReceiveReset, ReceiveLive
  <2>6. CASE \E e \in Errors : ReceiveRefused(t, e)
      BY Facts, <1>0, <2>6 DEF ReceiveRefused, ReceiveLive
  <2>7. CASE Exchange(t)
      BY Facts, <1>0, <1>d, <2>7 DEF Exchange, WasConnected
  <2>8. CASE RemoveSession(t)
      BY Facts, <1>0, <1>d, <2>8 DEF RemoveSession, LifeInv, Living
  <2>9. CASE DisconnectPosted(t)
      BY Facts, <1>0, <1>d, <2>9 DEF DisconnectPosted, LifeInv, Living
  <2>10. CASE \E e \in DiscErrors : DisconnectRefused(t, e)
      BY Facts, <1>0, <1>d, <2>10 DEF DisconnectRefused, LifeInv, Living
  <2>11. CASE AddSession(t)
      BY Facts, <1>0, <1>d, <2>11 DEF AddSession
  <2>12. CASE SetConnected(t)
      BY Facts, <1>0, <2>12 DEF SetConnected, ReceiveLive, ReceiveInv, HasReceive, Opening
  <2>13. CASE OnConnected(t)
      BY Facts, <1>0, <1>d, <2>13 DEF OnConnected
  <2> QED BY <1>2, <2>1, <2>2, <2>3, <2>4, <2>5, <2>6, <2>7, <2>8, <2>9, <2>10, <2>11, <2>12, <2>13 DEF Running
<1>3. CASE Completion(t)
  <2>1. CASE SendDone(t) \/ \E e \in Errors : SendFailed(t, e)
      BY Facts, <1>0, <1>d, <2>1 DEF SendDone, SendFailed
  <2>2. CASE ConnectDone(t) \/ \E e \in ConnectErrors : ConnectFailed(t, e)
      BY Facts, <1>0, <1>d, <2>2 DEF ConnectDone, ConnectFailed
  <2>3. CASE DisconnectDone(t) \/ \E e \in DiscErrors : DisconnectFailed(t, e)
      BY Facts, <1>0, <1>d, <2>3 DEF DisconnectDone, DisconnectFailed
  <2>4. CASE ReceiveClosed(t)
      BY Facts, <1>0, <2>4 DEF ReceiveClosed, ReceiveLive
  <2>5. CASE \E e \in Errors : ReceiveFailed(t, e)
      BY Facts, <1>0, <2>5 DEF ReceiveFailed, ReceiveLive
  <2> QED BY <1>3, <2>1, <2>2, <2>3, <2>4, <2>5 DEF Completion
<1>4. CASE ReceiveDone(t)
    BY Facts, <1>0, <1>4 DEF ReceiveDone, AfterReceive, ReceiveLive
<1> QED BY <1>1, <1>2, <1>3, <1>4 DEF Act

LEMMA SendLiveStep ==
    ASSUME LiveInv, NEW t \in Threads, Act(t) PROVE SendLive'
<1> USE DEF connVars, sendVars, ioVars, faults, At, Goto, Return, Dequeue, HandleError, Post,
            SendGoesOn, Sending, SendLabels, Disconnecting, Opening, Unborn
<1>0. IInv /\ SendLive /\ LifeInv /\ OneSendInFlight /\ LockInv /\ ReceiveInv
    BY DEF LiveInv, IInv
<1>n. onConnected \in Nat
    BY <1>0 DEF IInv, TypeOK
<1> HIDE DEF SendGoesOn, Opening, Unborn
<1>d. ASSUME UNCHANGED <<isSending, sendMgr, sendLock, onConnected>>,
             isConnected' => isConnected, unanswered \subseteq unanswered',
             posted'["send"] = posted["send"], Young' => Young,
             isConnected' => \A u \in Threads : SendGoesOn(u) => SendGoesOn(u)',
             \A u \in Threads : pc'[u] \in {"sendClear", "sendStore"} =>
                 pc[u] \in {"sendClear", "sendStore"} \/ ~isConnected'
      PROVE  SendLive'
    BY <1>0, <1>d DEF SendLive
<1>y. ASSUME connects' = connects, posted'["connect"] = posted["connect"],
             \A u \in Threads : Opening(u)' => Opening(u)
      PROVE  Young' => Young
    BY <1>y DEF Young, Unborn
<1> USE DEF SendGoesOn, Opening
<1>1. CASE SendAsync(t)
    BY Facts, <1>0, <1>n, <1>y, <1>1 DEF SendAsync, SendLive
<1>2. CASE ConnectAsync(t)
    BY Facts, <1>0, <1>d, <1>2 DEF ConnectAsync, Young, Unborn
<1>3. CASE Running(t)
  <2>1. CASE Register(t)
      BY Facts, <1>0, <1>y, <2>1 DEF Register, WasSending, SendLive, LockInv, OneSendInFlight
  <2>2. CASE SendCheck(t)
      BY Facts, <1>0, <1>y, <2>2 DEF SendCheck, SendLive
  <2>3. CASE Swap(t)
      BY Facts, <1>0, <1>y, <2>3 DEF Swap, SendLive, OneSendInFlight
  <2>4. CASE SendClear(t) \/ SendStore(t)
      BY Facts, <1>0, <1>y, <2>4 DEF SendClear, SendStore, SendLive
  <2>5. CASE SentCheck(t)
      BY Facts, <1>0, <1>y, <2>5 DEF SentCheck, NothingLeft, SendLive
  <2>6. CASE SendPosted(t)
      BY Facts, <1>0, <1>y, <2>6 DEF SendPosted, SendLive, OneSendInFlight
  <2>7. CASE \E e \in Errors : SendRefused(t, e)
      BY Facts, <1>0, <1>y, <2>7 DEF SendRefused, SendLive
  <2>8. CASE ReceiveCheck(t) \/ ReceivePosted(t) \/ ReceiveReset(t) \/ \E e \in Errors : ReceiveRefused(t, e)
      BY Facts, <1>0, <1>d, <1>y, <2>8 DEF ReceiveCheck, ReceivePosted, ReceiveReset, ReceiveRefused
  <2>9. CASE Exchange(t)
      BY Facts, <1>0, <1>d, <1>y, <2>9 DEF Exchange, WasConnected
  <2>10. CASE RemoveSession(t)
      BY Facts, <1>0, <1>d, <1>y, <2>10 DEF RemoveSession, LifeInv, Living
  <2>11. CASE DisconnectPosted(t)
      BY Facts, <1>0, <1>d, <1>y, <2>11 DEF DisconnectPosted, LifeInv, Living
  <2>12. CASE \E e \in DiscErrors : DisconnectRefused(t, e)
      BY Facts, <1>0, <1>d, <1>y, <2>12 DEF DisconnectRefused, LifeInv, Living
  <2>13. CASE AddSession(t)
      BY Facts, <1>0, <1>d, <1>y, <2>13 DEF AddSession
  <2>14. CASE SetConnected(t)
      BY Facts, <1>0, <1>y, <2>14 DEF SetConnected, SendLive, Young, OneSendInFlight
  <2>15. CASE OnConnected(t)
      BY Facts, <1>0, <1>n, <1>y, <2>15 DEF OnConnected, SendLive, Young, ReceiveInv, HasReceive
  <2> QED BY <1>3, <2>1, <2>2, <2>3, <2>4, <2>5, <2>6, <2>7, <2>8, <2>9, <2>10, <2>11, <2>12, <2>13, <2>14, <2>15 DEF Running
<1>4. CASE Completion(t)
  <2>1. CASE SendDone(t)
      BY Facts, <1>0, <1>y, <2>1 DEF SendDone, SendLive
  <2>2. CASE \E e \in Errors : SendFailed(t, e)
      BY Facts, <1>0, <1>y, <2>2 DEF SendFailed, SendLive
  <2>3. CASE ConnectDone(t) \/ \E e \in ConnectErrors : ConnectFailed(t, e)
      BY Facts, <1>0, <1>d, <2>3 DEF ConnectDone, ConnectFailed, Young, Unborn
  <2>4. CASE DisconnectDone(t) \/ \E e \in DiscErrors : DisconnectFailed(t, e)
      BY Facts, <1>0, <1>d, <1>y, <2>4 DEF DisconnectDone, DisconnectFailed
  <2>5. CASE ReceiveClosed(t) \/ \E e \in Errors : ReceiveFailed(t, e)
      BY Facts, <1>0, <1>d, <1>y, <2>5 DEF ReceiveClosed, ReceiveFailed
  <2> QED BY <1>4, <2>1, <2>2, <2>3, <2>4, <2>5 DEF Completion
<1>5. CASE ReceiveDone(t)
    BY Facts, <1>0, <1>d, <1>y, <1>5 DEF ReceiveDone, AfterReceive
<1> QED BY <1>1, <1>2, <1>3, <1>4, <1>5 DEF Act

LEMMA LiveNext == LiveInv /\ [Next]_vars => LiveInv'
<1> SUFFICES ASSUME LiveInv, [Next]_vars PROVE LiveInv'
    OBVIOUS
<1>1. CASE UNCHANGED vars
  <2>1. IInv'
      BY NextInv DEF LiveInv
  <2>2. ReceiveLive'
      BY <1>1 DEF vars, connVars, sendVars, ioVars, faults, LiveInv, ReceiveLive, ReceiveGoesOn, Receiving, Disconnecting
  <2>3. SendLive'
      BY <1>1 DEF vars, connVars, sendVars, ioVars, faults, LiveInv, SendLive, SendGoesOn, Sending, Disconnecting,
                  Young, Unborn, Opening
  <2> QED BY <2>1, <2>2, <2>3 DEF LiveInv
<1>2. CASE Next
  <2>1. PICK t \in Threads : Act(t)
      BY <1>2 DEF Next, Act
  <2> QED BY <2>1, NextInv, ReceiveLiveStep, SendLiveStep DEF LiveInv
<1> QED BY <1>1, <1>2

\* Session.cpp:400-401: a session that is connected has a receive registered, or
\* a thread is about to register one or to disconnect, unless HandleError only
\* logged the failure of one.
THEOREM ReceiveAliveHolds == Spec => []ReceiveAlive
<1>1. LiveInv => ReceiveAlive
    BY DEF LiveInv, ReceiveLive, ReceiveGoesOn, ReceiveAlive
<1> QED BY <1>1, LiveInit, LiveNext, PTL DEF Spec

\* Session.cpp:428-441: a buffer of a session that is connected is never left
\* with nobody to send it, unless HandleError only logged a send that failed.
THEOREM NoStrandedHolds == Spec => []NoStranded
<1>1. LiveInv => NoStranded
    BY DEF LiveInv, SendLive, SendGoesOn, NoStranded
<1> QED BY <1>1, LiveInit, LiveNext, PTL DEF Spec

-----------------------------------------------------------------------------
(***************************************************************************)
(* Session implements Connection: the notices come once each and in their  *)
(* order, and the buffers leave in the order SendAsync took them.          *)
(*                                                                         *)
(* The buffers registered are numbered, so the order is a statement about  *)
(* where the numbers are: wire holds the first of them, the event the next *)
(* while a thread takes it to the kernel, the manager the last.  A send    *)
(* that fails for a lost peer leaves a gap; the proof shows that the       *)
(* session is then over before anything else can be sent.                  *)
(***************************************************************************)

\* Until OnConnected has returned nobody disconnects the session.
OpenInv ==
    /\ Young => \A u \in Threads : pc[u] # "exchange"
    /\ \A t \in Threads : pc[t] = "onConnected" =>
           isConnected /\ onConnected = 0 /\ \A u \in Threads : pc[u] # "exchange"

\* s holds consecutive numbers and ends with n.
EndsWith(s, n) == \A i \in 1..Len(s) : s[i] + Len(s) = n + i

AtPost == \E t \in Threads : pc[t] = "sendPost"
Ordered == EndsWith(wire, Len(wire)) /\ Len(wire) <= accepted

\* Nothing has been dropped: what is not in wire is in the event or the manager.
Clean ==
    /\ EndsWith(sendMgr, accepted)
    /\ AtPost => /\ Len(wire) + Len(eventMgr) + Len(sendMgr) = accepted
                 /\ EndsWith(eventMgr, Len(wire) + Len(eventMgr))
    /\ ~AtPost => Len(wire) + Len(sendMgr) = accepted
    /\ ~AtPost /\ posted["send"] = 0 => eventMgr = <<>>

\* Nothing more will be sent: no thread is past the test of mIsConnected, which
\* is reset, or the thread whose send has failed is about to reset it.
Over ==
    /\ onConnected > 0
    /\ \A t \in Threads : pc[t] \notin {"swap", "sendPost"}
    /\ isConnected => \E t \in Threads : ret[t] = "sendClear" /\ pc[t] = "exchange"

GivesUp(t) == pc[t] = "sendClear" \/ ret[t] = "sendClear"
OrderInv ==
    "send" \notin unanswered =>
        /\ Ordered
        /\ Clean \/ Over
        /\ (\E t \in Threads : GivesUp(t)) => Over

Inv == LiveInv /\ OpenInv /\ OrderInv

-------------------------------------------------------------------------------
(* Sequences of consecutive numbers                                        *)

LEMMA EndsWithEmpty == ASSUME NEW n \in Nat PROVE EndsWith(<<>>, n)
BY DEF EndsWith

LEMMA EndsWithAppend ==
    ASSUME NEW S \in SUBSET Nat, NEW s \in Seq(S), NEW n \in Nat, n + 1 \in S, EndsWith(s, n)
    PROVE  EndsWith(Append(s, n + 1), n + 1)
<1> DEFINE u == Append(s, n + 1)
<1>1. Len(u) = Len(s) + 1 /\ u[Len(s) + 1] = n + 1 /\ \A i \in 1..Len(s) : u[i] = s[i]
    BY AppendProperties
<1>2. Len(s) \in Nat /\ \A i \in 1..Len(s) : s[i] \in Nat
    BY LenProperties
<1> HIDE DEF u
<1>3. ASSUME NEW i \in 1..Len(u) PROVE u[i] + Len(u) = n + 1 + i
  <2>1. CASE i = Len(s) + 1
      BY <1>1, <1>2, <2>1
  <2>2. CASE i \in 1..Len(s)
    <3>1. s[i] + Len(s) = n + i
        BY <2>2 DEF EndsWith
    <3>2. u[i] = s[i] /\ Len(u) = Len(s) + 1 /\ s[i] \in Nat /\ Len(s) \in Nat /\ i \in Nat
        BY <1>1, <1>2, <2>2
    <3> QED BY <3>1, <3>2
  <2> QED BY <1>1, <1>2, <2>1, <2>2
<1>4. EndsWith(u, n + 1)
    BY <1>3 DEF EndsWith
<1> QED BY <1>4 DEF u

LEMMA EndsWithConcat ==
    ASSUME NEW S \in SUBSET Nat, NEW s \in Seq(S), NEW u \in Seq(S),
           EndsWith(s, Len(s)), EndsWith(u, Len(s) + Len(u))
    PROVE  /\ Len(s \o u) = Len(s) + Len(u)
           /\ EndsWith(s \o u, Len(s \o u))
<1> DEFINE w == s \o u
<1>1. /\ Len(w) = Len(s) + Len(u)
      /\ \A i \in 1..Len(w) : w[i] = IF i <= Len(s) THEN s[i] ELSE u[i - Len(s)]
    BY ConcatProperties
<1>2. /\ Len(s) \in Nat /\ Len(u) \in Nat
      /\ \A i \in 1..Len(s) : s[i] \in Nat
      /\ \A i \in 1..Len(u) : u[i] \in Nat
    BY LenProperties
<1> HIDE DEF w
<1>3. ASSUME NEW i \in 1..Len(w) PROVE w[i] + Len(w) = Len(w) + i
  <2>1. CASE i \in 1..Len(s)
    <3>1. s[i] + Len(s) = Len(s) + i /\ w[i] = s[i]
        BY <1>1, <1>2, <2>1 DEF EndsWith
    <3> QED BY <1>1, <1>2, <2>1, <3>1
  <2>2. CASE i \notin 1..Len(s)
    <3>0. i - Len(s) \in 1..Len(u) /\ i = Len(s) + (i - Len(s)) /\ w[i] = u[i - Len(s)]
        BY <1>1, <1>2, <2>2
    <3>1. PICK j \in 1..Len(u) : i = Len(s) + j /\ w[i] = u[j]
        BY <3>0
    <3>2. u[j] + Len(u) = Len(s) + Len(u) + j /\ u[j] \in Nat
        BY <1>2 DEF EndsWith
    <3>3. Len(w) = Len(s) + Len(u) /\ Len(s) \in Nat /\ Len(u) \in Nat /\ j \in Nat
        BY <1>1, <1>2
    <3>4. u[j] = Len(s) + j
        BY <3>2, <3>3
    <3>5. w[i] = i /\ i \in Nat /\ Len(w) \in Nat
        BY <3>1, <3>3, <3>4
    <3> QED BY <3>5
  <2> QED BY <2>1, <2>2
<1>4. EndsWith(w, Len(w))
    BY <1>3 DEF EndsWith
<1> QED BY <1>1, <1>4 DEF w

LEMMA EndsWithFromOne ==
    ASSUME NEW S \in SUBSET Nat, NEW s \in Seq(S), EndsWith(s, Len(s))
    PROVE  s = [i \in 1..Len(s) |-> i]
<1>1. Len(s) \in Nat /\ s = [i \in 1..Len(s) |-> s[i]] /\ \A i \in 1..Len(s) : s[i] \in Nat
    BY LenProperties
<1>2. ASSUME NEW i \in 1..Len(s) PROVE s[i] = i
    BY <1>1 DEF EndsWith
<1> QED BY <1>1, <1>2

-------------------------------------------------------------------------------
(* The invariant                                                           *)

LEMMA OrderInit == Init => Inv
<1> SUFFICES ASSUME Init PROVE Inv
    OBVIOUS
<1>1. OpenInv
    BY DEF Init, OpenInv
<1>2. OrderInv
  <2>1. EndsWith(wire, Len(wire)) /\ EndsWith(sendMgr, accepted) /\ Len(wire) = 0 /\ Len(sendMgr) = 0
      BY EndsWithEmpty DEF Init
  <2> QED BY <2>1 DEF Init, OrderInv, Ordered, Clean, AtPost, GivesUp
<1> QED BY <1>1, <1>2, LiveInit DEF Inv

\* Who has the send path, or is about to register, does so after OnConnected.
LEMMA SendersKnowIt ==
    ASSUME LiveInv
    PROVE  /\ posted["send"] > 0 => onConnected > 0 /\ ~Young
           /\ \A t \in Threads : Sending(t) \/ pc[t] = "register" => onConnected > 0 /\ ~Young
<1>1. SendLive /\ OneSendInFlight /\ LockInv /\ onConnected \in Nat /\ posted["send"] \in 0..1
    BY Facts DEF LiveInv, IInv, TypeOK
<1>2. isSending \/ sendLock # NoThread => onConnected > 0
    BY <1>1 DEF SendLive
<1>3. onConnected > 0 => ~Young
    BY <1>1 DEF SendLive
<1>4. posted["send"] > 0 => isSending
    BY <1>1 DEF OneSendInFlight
<1>5. ASSUME NEW t \in Threads, Sending(t) \/ pc[t] = "register"
      PROVE  isSending \/ sendLock # NoThread
    BY <1>1, <1>5, NoThreadAssumption DEF OneSendInFlight, LockInv
<1>6. ASSUME NEW t \in Threads, Sending(t) \/ pc[t] = "register"
      PROVE  onConnected > 0 /\ ~Young
    BY <1>2, <1>3, <1>5, <1>6
<1>7. posted["send"] > 0 => onConnected > 0 /\ ~Young
    BY <1>2, <1>3, <1>4
<1> QED BY <1>6, <1>7

LEMMA OpenStep ==
    ASSUME Inv, NEW t \in Threads, Act(t) PROVE OpenInv'
<1> USE DEF connVars, sendVars, ioVars, faults, At, Goto, Return, Dequeue, HandleError, Post, Opening, Unborn
<1>0. LiveInv /\ IInv /\ LifeInv /\ ReceiveInv /\ OpenInv
    BY DEF Inv, LiveInv, IInv
<1>n. onConnected \in Nat /\ (Young => onConnected = 0)
    BY <1>0 DEF IInv, TypeOK, LiveInv, SendLive
<1>k. /\ posted["send"] > 0 => onConnected > 0
      /\ \A u \in Threads : Sending(u) => onConnected > 0
    BY <1>0, SendersKnowIt
<1> HIDE DEF Opening, Unborn
<1>y. ASSUME connects' = connects, posted'["connect"] = posted["connect"],
             \A u \in Threads : Opening(u)' => Opening(u)
      PROVE  Young' => Young
    BY <1>y DEF Young, Unborn
<1>d. ASSUME Young' => Young, UNCHANGED <<isConnected, onConnected>>,
             \A u \in Threads : /\ pc'[u] = "exchange" => pc[u] = "exchange"
                                /\ pc'[u] = "onConnected" => pc[u] = "onConnected"
      PROVE  OpenInv'
    BY <1>0, <1>d DEF OpenInv
<1>e. ASSUME ~Young', \A u \in Threads : pc'[u] # "onConnected"
      PROVE  OpenInv'
    BY <1>e DEF OpenInv
<1> USE DEF Opening
<1>1. CASE SendAsync(t) \/ ReceiveDone(t)
    BY Facts, <1>0, <1>d, <1>y, <1>1 DEF SendAsync, ReceiveDone, AfterReceive
<1>2. CASE ConnectAsync(t)
    BY Facts, <1>0, <1>d, <1>2 DEF ConnectAsync, Young, Unborn
<1>3. CASE Running(t)
  <2>1. CASE Register(t) \/ SendCheck(t) \/ Swap(t) \/ SendClear(t)
      BY Facts, <1>0, <1>d, <1>y, <2>1 DEF Register, SendCheck, Swap, SendClear
  <2>2. CASE SendStore(t) \/ SentCheck(t) \/ SendPosted(t)
      BY Facts, <1>0, <1>d, <1>y, <2>2 DEF SendStore, SentCheck, SendPosted
  <2>3. CASE \E e \in Errors : SendRefused(t, e)
    <3>1. onConnected > 0 /\ ~Young /\ \A u \in Threads : pc[u] # "onConnected"
        BY <1>0, <1>k, <1>n, <2>3 DEF SendRefused, Sending, SendLabels, OpenInv
    <3>2. ~Young'
        BY Facts, <1>0, <1>y, <3>1, <2>3 DEF SendRefused
    <3> QED BY Facts, <1>0, <1>e, <3>1, <3>2, <2>3 DEF SendRefused
  <2>4. CASE ReceiveCheck(t) \/ ReceivePosted(t) \/ ReceiveReset(t)
      BY Facts, <1>0, <1>d, <1>y, <2>4 DEF ReceiveCheck, ReceivePosted, ReceiveReset
  <2>5. CASE \E e \in Errors : ReceiveRefused(t, e)
    <3>1. ~Young /\ \A u \in Threads : pc[u] # "onConnected"
        BY <1>0, <2>5 DEF ReceiveRefused, ReceiveInv, HasReceive, Receiving, RecvLabels, Young
    <3>2. ~Young'
        BY Facts, <1>0, <1>y, <3>1, <2>5 DEF ReceiveRefused
    <3> QED BY Facts, <1>0, <1>e, <3>1, <3>2, <2>5 DEF ReceiveRefused
  <2>6. CASE Exchange(t)
    <3>1. ~Young /\ \A u \in Threads : pc[u] # "onConnected"
        BY <1>0, <2>6 DEF Exchange, OpenInv
    <3>2. ~Young'
        BY Facts, <1>0, <1>y, <3>1, <2>6 DEF Exchange
    <3> QED BY Facts, <1>0, <1>e, <3>1, <3>2, <2>6 DEF Exchange
  <2>7. CASE RemoveSession(t) \/ DisconnectPosted(t)
      BY Facts, <1>0, <1>d, <1>y, <2>7 DEF RemoveSession, DisconnectPosted
  <2>8. CASE \E e \in DiscErrors : DisconnectRefused(t, e)
    <3>1. ~isConnected
        BY <1>0, <2>8 DEF DisconnectRefused, LifeInv, Living
    <3> QED BY Facts, <1>0, <1>d, <1>y, <3>1, <2>8 DEF DisconnectRefused
  <2>9. CASE AddSession(t)
      BY Facts, <1>0, <1>d, <1>y, <2>9 DEF AddSession
  <2>10. CASE SetConnected(t)
    <3>1. Young /\ onConnected = 0 /\ \A u \in Threads : pc[u] # "exchange"
        BY <1>0, <1>n, <2>10 DEF SetConnected, Young, OpenInv
    <3> QED BY Facts, <1>0, <3>1, <2>10 DEF SetConnected, OpenInv
  <2>11. CASE OnConnected(t)
    <3>1. /\ \A u \in Threads : pc[u] # "exchange"
          /\ \A u \in Threads : pc[u] = "onConnected" => u = t
        BY <1>0, <2>11 DEF OnConnected, OpenInv, ReceiveInv, HasReceive
    <3> QED BY Facts, <1>0, <3>1, <2>11 DEF OnConnected, OpenInv
  <2> QED BY <1>3, <2>1, <2>2, <2>3, <2>4, <2>5, <2>6, <2>7, <2>8, <2>9, <2>10, <2>11 DEF Running
<1>4. CASE Completion(t)
  <2>1. CASE SendDone(t)
      BY Facts, <1>0, <1>d, <1>y, <2>1 DEF SendDone
  <2>2. CASE \E e \in Errors : SendFailed(t, e)
    <3>1. onConnected > 0 /\ ~Young /\ \A u \in Threads : pc[u] # "onConnected"
        BY <1>0, <1>k, <1>n, <2>2 DEF SendFailed, OpenInv
    <3>2. ~Young'
        BY Facts, <1>0, <1>y, <3>1, <2>2 DEF SendFailed
    <3> QED BY Facts, <1>0, <1>e, <3>1, <3>2, <2>2 DEF SendFailed
  <2>3. CASE ConnectDone(t)
      BY Facts, <1>0, <1>d, <2>3 DEF ConnectDone, Young, Unborn
  <2>4. CASE \E e \in ConnectErrors : ConnectFailed(t, e)
    <3>1. Unborn /\ connects = 1 /\ \A u \in Threads : pc[u] # "onConnected" /\ ~Opening(u)
        BY Facts, <1>0, <2>4 DEF ConnectFailed, Unborn, LifeInv, Living, ReceiveInv, HasReceive
    <3>2. ~Young'
        BY Facts, <1>0, <3>1, <2>4 DEF ConnectFailed, Young, Unborn
    <3> QED BY Facts, <1>0, <1>e, <3>1, <3>2, <2>4 DEF ConnectFailed
  <2>5. CASE DisconnectDone(t)
      BY Facts, <1>0, <1>d, <1>y, <2>5 DEF DisconnectDone
  <2>6. CASE \E e \in DiscErrors : DisconnectFailed(t, e)
    <3>1. ~NotEnding
        BY Facts, <2>6 DEF DisconnectFailed, NotEnding
    <3>2. ~Young /\ \A u \in Threads : pc[u] # "onConnected"
        BY <1>0, <3>1 DEF OpenInv, LifeInv, Young, Living
    <3>3. ~Young'
        BY Facts, <1>0, <1>y, <3>2, <2>6 DEF DisconnectFailed
    <3> QED BY Facts, <1>0, <1>e, <3>2, <3>3, <2>6 DEF DisconnectFailed
  <2>7. CASE ReceiveClosed(t) \/ \E e \in Errors : ReceiveFailed(t, e)
    <3>1. ~Young /\ \A u \in Threads : pc[u] # "onConnected"
        BY Facts, <1>0, <2>7 DEF ReceiveClosed, ReceiveFailed, ReceiveInv, HasReceive, Young
    <3>2. ~Young'
        BY Facts, <1>0, <1>y, <3>1, <2>7 DEF ReceiveClosed, ReceiveFailed
    <3> QED BY Facts, <1>0, <1>e, <3>1, <3>2, <2>7 DEF ReceiveClosed, ReceiveFailed
  <2> QED BY <1>4, <2>1, <2>2, <2>3, <2>4, <2>5, <2>6, <2>7 DEF Completion
<1> QED BY <1>1, <1>2, <1>3, <1>4 DEF Act

\* What OrderInv needs of the types, and the single sender.
LEMMA QueueFacts ==
    ASSUME IInv
    PROVE  /\ sendMgr \in Seq(1..MaxBuf) /\ eventMgr \in Seq(1..MaxBuf) /\ wire \in Seq(1..MaxBuf)
           /\ Len(sendMgr) \in Nat /\ Len(eventMgr) \in Nat /\ Len(wire) \in Nat /\ accepted \in Nat
           /\ onConnected \in Nat /\ 1..MaxBuf \in SUBSET Nat
           /\ \A u, v \in Threads : Sending(u) /\ Sending(v) => u = v
           /\ posted["send"] = 1 => \A u \in Threads : ~Sending(u)
<1>1. 1..MaxBuf \subseteq Nat
    BY MaxBufAssumption
<1>2. /\ sendMgr \in Seq(1..MaxBuf) /\ eventMgr \in Seq(1..MaxBuf) /\ wire \in Seq(1..MaxBuf)
      /\ accepted \in Nat /\ onConnected \in Nat
    BY MaxBufAssumption DEF IInv, TypeOK
<1>3. Len(sendMgr) \in Nat /\ Len(eventMgr) \in Nat /\ Len(wire) \in Nat
    BY <1>2, LenProperties
<1> QED BY <1>1, <1>2, <1>3 DEF IInv, OneSendInFlight

\* A session that is over stays over: it is not connected a second time, and no
\* send passes the test of mIsConnected again.
LEMMA OverStep ==
    ASSUME Inv, NEW t \in Threads, Act(t), Over PROVE Over'
<1> USE DEF connVars, sendVars, ioVars, faults, At, Goto, Return, Dequeue, HandleError, Post
<1>0. IInv /\ LiveInv /\ onConnected \in Nat
    BY QueueFacts DEF Inv, LiveInv
<1>d. ASSUME isConnected' => isConnected, UNCHANGED onConnected,
             \A u \in Threads : /\ pc'[u] \in {"swap", "sendPost"} => pc[u] \in {"swap", "sendPost"}
                                /\ isConnected' /\ ret[u] = "sendClear" /\ pc[u] = "exchange" =>
                                       ret'[u] = "sendClear" /\ pc'[u] = "exchange"
      PROVE  Over'
    BY <1>d DEF Over
<1>1. CASE SendAsync(t) \/ ConnectAsync(t) \/ ReceiveDone(t)
    BY Facts, <1>0, <1>d, <1>1 DEF SendAsync, ConnectAsync, ReceiveDone, AfterReceive
<1>2. CASE Running(t)
  <2>1. CASE Register(t) \/ SendClear(t) \/ SendStore(t) \/ SentCheck(t)
      BY Facts, <1>0, <1>d, <2>1 DEF Register, SendClear, SendStore, SentCheck
  <2>2. CASE SendCheck(t)
    <3>1. ASSUME NEW u \in Threads, ret[u] = "sendClear" PROVE FALSE
      <4>1. Sending(u) /\ Sending(t)
          BY <3>1, <2>2 DEF SendCheck, Sending, SendLabels
      <4>2. u = t
          BY <4>1, <1>0, QueueFacts
      <4> QED BY <3>1, <4>2, Facts, <1>0, <2>2 DEF SendCheck
    <3>2. ~isConnected
        BY <3>1 DEF Over
    <3> QED BY Facts, <1>0, <1>d, <3>2, <2>2 DEF SendCheck
  <2>3. CASE Swap(t) \/ SendPosted(t) \/ \E e \in Errors : SendRefused(t, e)
      BY <2>3 DEF Over, Swap, SendPosted, SendRefused
  <2>4. CASE Exchange(t) \/ RemoveSession(t)
      BY Facts, <1>0, <1>d, <2>4 DEF Exchange, RemoveSession
  <2>5. CASE DisconnectPosted(t)
      BY Facts, <1>0, <1>d, <2>5 DEF DisconnectPosted
  <2>6. CASE \E e \in DiscErrors : DisconnectRefused(t, e)
      BY Facts, <1>0, <1>d, <2>6 DEF DisconnectRefused
  <2>7. CASE ReceiveCheck(t) \/ ReceivePosted(t) \/ ReceiveReset(t) \/ \E e \in Errors : ReceiveRefused(t, e)
      BY Facts, <1>0, <1>d, <2>7 DEF ReceiveCheck, ReceivePosted, ReceiveReset, ReceiveRefused
  <2>8. CASE AddSession(t)
      BY Facts, <1>0, <1>d, <2>8 DEF AddSession
  <2>9. CASE SetConnected(t)
      BY <1>0, <2>9 DEF SetConnected, LiveInv, SendLive, Young, Opening, Over
  <2>10. CASE OnConnected(t)
    <3>1. /\ onConnected' > 0 /\ UNCHANGED <<isConnected, ret>>
          /\ \A u \in Threads : pc'[u] \in {"swap", "sendPost", "exchange"} <=> pc[u] \in {"swap", "sendPost", "exchange"}
          /\ \A u \in Threads : pc[u] = "exchange" => pc'[u] = "exchange"
        BY Facts, <1>0, <2>10 DEF OnConnected
    <3>2. \A u \in Threads : pc'[u] \notin {"swap", "sendPost"}
        BY Facts, <1>0, <2>10 DEF OnConnected, Over
    <3> QED BY <3>1, <3>2 DEF Over
  <2> QED BY <1>2, <2>1, <2>2, <2>3, <2>4, <2>5, <2>6, <2>7, <2>8, <2>9, <2>10 DEF Running
<1>3. CASE Completion(t)
  <2>1. CASE SendDone(t) \/ \E e \in Errors : SendFailed(t, e)
      BY Facts, <1>0, <1>d, <2>1 DEF SendDone, SendFailed
  <2>2. CASE ConnectDone(t) \/ \E e \in ConnectErrors : ConnectFailed(t, e)
      BY Facts, <1>0, <1>d, <2>2 DEF ConnectDone, ConnectFailed
  <2>3. CASE DisconnectDone(t) \/ \E e \in DiscErrors : DisconnectFailed(t, e)
      BY Facts, <1>0, <1>d, <2>3 DEF DisconnectDone, DisconnectFailed
  <2>4. CASE ReceiveClosed(t) \/ \E e \in Errors : ReceiveFailed(t, e)
      BY Facts, <1>0, <1>d, <2>4 DEF ReceiveClosed, ReceiveFailed
  <2> QED BY <1>3, <2>1, <2>2, <2>3, <2>4 DEF Completion
<1> QED BY <1>1, <1>2, <1>3 DEF Act

\* What each step leaves alone: only WSASend puts buffers on the wire, and only
\* Register takes new ones.
LEMMA WireAndAccepted ==
    ASSUME NEW t \in Threads, Act(t)
    PROVE  /\ SendPosted(t) \/ UNCHANGED wire
           /\ Register(t) \/ UNCHANGED accepted
           /\ "send" \in unanswered => "send" \in unanswered'
<1> USE DEF connVars, sendVars, ioVars, faults, HandleError
<1>1. CASE SendAsync(t) \/ ConnectAsync(t) \/ ReceiveDone(t)
    BY <1>1 DEF SendAsync, ConnectAsync, ReceiveDone
<1>2. CASE Running(t)
  <2>1. CASE \E e \in Errors : SendRefused(t, e) \/ ReceiveRefused(t, e)
      BY <2>1 DEF SendRefused, ReceiveRefused
  <2>2. CASE \E e \in DiscErrors : DisconnectRefused(t, e)
      BY <2>2 DEF DisconnectRefused
  <2>3. CASE ~(\E e \in Errors : SendRefused(t, e) \/ ReceiveRefused(t, e)) /\ ~\E e \in DiscErrors : DisconnectRefused(t, e)
      BY <1>2, <2>3 DEF Running, Register, SendCheck, Swap, SendClear, SendStore, SendPosted, Exchange, RemoveSession, DisconnectPosted, ReceiveCheck, ReceivePosted, ReceiveReset, AddSession, SetConnected, OnConnected, SentCheck
  <2> QED BY <2>1, <2>2, <2>3
<1>3. CASE Completion(t)
    BY <1>3 DEF Completion, ConnectDone, ConnectFailed, DisconnectDone, DisconnectFailed, ReceiveClosed, ReceiveFailed, SendDone, SendFailed
<1> QED BY <1>1, <1>2, <1>3 DEF Act

\* The steps that move the buffers, as long as nothing has been dropped.
Kept == Ordered /\ Clean /\ \A u \in Threads : ~GivesUp(u)

LEMMA KeptRegister ==
    ASSUME Inv, Kept, NEW t \in Threads, Register(t) PROVE Kept'
<1> USE DEF connVars, sendVars, ioVars, faults, At, Goto
<1>0. IInv /\ LockInv /\ accepted < MaxBuf
    BY NoThreadAssumption DEF Inv, LiveInv, IInv, LockInv, Register
<1>1. /\ sendMgr' = Append(sendMgr, accepted + 1) /\ accepted' = accepted + 1
      /\ UNCHANGED <<wire, eventMgr, posted, ret>>
      /\ \A u \in Threads : /\ pc'[u] = "sendPost" <=> pc[u] = "sendPost"
                            /\ pc'[u] = "sendClear" <=> pc[u] = "sendClear"
    BY Facts, <1>0 DEF Register
<1>2. accepted + 1 \in 1..MaxBuf
    BY <1>0, QueueFacts, MaxBufAssumption
<1>3. EndsWith(sendMgr, accepted)
    BY DEF Kept, Clean
<1>4. EndsWith(sendMgr', accepted') /\ Len(sendMgr') = Len(sendMgr) + 1
  <2>1. sendMgr \in Seq(1..MaxBuf) /\ accepted \in Nat /\ 1..MaxBuf \in SUBSET Nat
      BY <1>0, QueueFacts
  <2>2. EndsWith(Append(sendMgr, accepted + 1), accepted + 1)
      BY <1>2, <1>3, <2>1, EndsWithAppend
  <2>3. Len(Append(sendMgr, accepted + 1)) = Len(sendMgr) + 1
      BY <1>2, <2>1, AppendProperties
  <2> QED BY <1>1, <2>2, <2>3
<1>5. AtPost' <=> AtPost
    BY <1>1 DEF AtPost
<1>6. Ordered'
    BY <1>0, <1>1, QueueFacts DEF Kept, Ordered
<1>7. Clean'
  <2>1. AtPost => /\ Len(wire) + Len(eventMgr) + Len(sendMgr) + 1 = accepted + 1
                  /\ EndsWith(eventMgr, Len(wire) + Len(eventMgr))
      BY DEF Kept, Clean
  <2>2. ~AtPost => Len(wire) + Len(sendMgr) + 1 = accepted + 1
      BY DEF Kept, Clean
  <2>3. Len(wire) + Len(eventMgr) + Len(sendMgr) + 1 = Len(wire) + Len(eventMgr) + (Len(sendMgr) + 1)
        /\ Len(wire) + Len(sendMgr) + 1 = Len(wire) + (Len(sendMgr) + 1)
      BY <1>0, QueueFacts
  <2> QED BY <1>1, <1>4, <1>5, <2>1, <2>2, <2>3 DEF Clean, Kept
<1> QED BY <1>1, <1>6, <1>7 DEF Kept, GivesUp

LEMMA KeptSwap ==
    ASSUME Inv, Kept, NEW t \in Threads, Swap(t) PROVE Kept'
<1> USE DEF connVars, sendVars, ioVars, faults, At, Goto
<1>0. IInv
    BY DEF Inv, LiveInv
<1>1. ~AtPost /\ posted["send"] = 0
  <2>1. Sending(t) /\ \A u \in Threads : pc[u] = "sendPost" => Sending(u)
      BY DEF Swap, Sending, SendLabels
  <2>2. \A u \in Threads : pc[u] # "sendPost"
      BY <1>0, <2>1, QueueFacts DEF Swap
  <2>3. posted["send"] # 1
      BY <1>0, <2>1, QueueFacts
  <2> QED BY <1>0, <2>2, <2>3, Facts DEF AtPost
<1>2. /\ sendMgr' = <<>> /\ eventMgr' = sendMgr /\ UNCHANGED <<wire, accepted, posted, ret>>
      /\ AtPost' /\ \A u \in Threads : pc'[u] = "sendClear" <=> pc[u] = "sendClear"
    BY <1>0, <1>1, Facts DEF Swap, Kept, Clean, AtPost
<1>3. EndsWith(<<>>, accepted) /\ Len(<<>>) = 0
    BY <1>0, QueueFacts, EndsWithEmpty
<1>4. EndsWith(sendMgr, accepted) /\ Len(wire) + Len(sendMgr) = accepted
    BY <1>1 DEF Kept, Clean
<1>5. Clean'
    BY <1>0, <1>2, <1>3, <1>4, QueueFacts DEF Clean
<1> QED BY <1>2, <1>5 DEF Kept, Ordered, GivesUp

LEMMA KeptPosted ==
    ASSUME Inv, Kept, NEW t \in Threads, SendPosted(t) PROVE Kept'
<1> USE DEF connVars, sendVars, ioVars, faults, At, Goto, Post
<1>0. IInv /\ AtPost
    BY DEF Inv, LiveInv, AtPost, SendPosted
<1>1. \A u \in Threads : pc[u] = "sendPost" => u = t
  <2>1. \A u \in Threads : pc[u] = "sendPost" => Sending(u)
      BY DEF Sending, SendLabels
  <2> QED BY <1>0, <2>1, QueueFacts DEF SendPosted
<1>2. posted["send"] = 0
  <2>1. Sending(t)
      BY DEF SendPosted, Sending, SendLabels
  <2> QED BY <1>0, <2>1, Facts, QueueFacts
<1>3. /\ wire' = wire \o eventMgr /\ UNCHANGED <<sendMgr, eventMgr, accepted, ret>>
      /\ posted'["send"] = 1 /\ ~AtPost'
      /\ \A u \in Threads : pc'[u] = "sendClear" => pc[u] = "sendClear"
    BY <1>0, <1>1, <1>2, Facts DEF SendPosted, AtPost
<1>4. /\ EndsWith(wire, Len(wire)) /\ EndsWith(eventMgr, Len(wire) + Len(eventMgr))
      /\ Len(wire) + Len(eventMgr) + Len(sendMgr) = accepted
      /\ EndsWith(sendMgr, accepted)
    BY <1>0 DEF Kept, Clean, Ordered
<1>5. Len(wire') = Len(wire) + Len(eventMgr) /\ EndsWith(wire', Len(wire'))
    BY <1>0, <1>3, <1>4, QueueFacts, EndsWithConcat
<1>6. Ordered'
    BY <1>0, <1>3, <1>4, <1>5, QueueFacts DEF Ordered
<1>7. Clean'
    BY <1>3, <1>4, <1>5 DEF Clean
<1> QED BY <1>3, <1>6, <1>7 DEF Kept, GivesUp

LEMMA KeptDone ==
    ASSUME Inv, Kept, NEW t \in Threads,
           SendDone(t) \/ \E e \in Errors : SendFailed(t, e)
    PROVE  Kept'
<1> USE DEF connVars, sendVars, ioVars, faults, At, Goto, Dequeue, HandleError, Cleared
<1>0. IInv /\ posted["send"] = 1
    BY Facts DEF Inv, LiveInv, SendDone, SendFailed
<1>1. ~AtPost
    BY <1>0, QueueFacts DEF AtPost, Sending, SendLabels
<1>2. CASE SendDone(t)
  <2>1. /\ eventMgr' = <<>> /\ UNCHANGED <<wire, sendMgr, accepted, ret>> /\ ~AtPost'
        /\ \A u \in Threads : pc'[u] = "sendClear" => pc[u] = "sendClear"
      BY <1>0, <1>1, <1>2, Facts DEF SendDone, AtPost
  <2> QED BY <1>1, <2>1 DEF Kept, Ordered, Clean, GivesUp
<1>3. CASE \E e \in Errors : SendFailed(t, e)
  <2>1. /\ eventMgr' = <<>> /\ UNCHANGED <<wire, sendMgr, accepted>> /\ ~AtPost'
        /\ \A u \in Threads : GivesUp(u)' => GivesUp(u)
      BY <1>0, <1>1, <1>3, Facts DEF SendFailed, AtPost, GivesUp
  <2> QED BY <1>1, <2>1 DEF Kept, Ordered, Clean
<1> QED BY <1>2, <1>3

\* A send that fails for a lost peer is the last one: whoever has it resets
\* mIsConnected before it lets go of the send path.
LEMMA RefusedIsOver ==
    ASSUME Inv, Kept, NEW t \in Threads, NEW e \in Errors, SendRefused(t, e),
           "send" \notin unanswered'
    PROVE  Ordered' /\ Over'
<1> USE DEF connVars, sendVars, ioVars, faults, At, Goto, HandleError
<1>0. IInv /\ LiveInv /\ Sending(t)
    BY DEF Inv, LiveInv, SendRefused, Sending, SendLabels
<1>1. e = "lost"
    BY DEF SendRefused
<1>2. onConnected > 0
    BY <1>0, SendersKnowIt
<1>3. \A u \in Threads : pc[u] \in {"swap", "sendPost"} => u = t
  <2>1. \A u \in Threads : pc[u] \in {"swap", "sendPost"} => Sending(u)
      BY DEF Sending, SendLabels
  <2> QED BY <1>0, <2>1, QueueFacts
<1>4. /\ UNCHANGED <<wire, accepted, onConnected>>
      /\ pc'[t] = "exchange" /\ ret'[t] = "sendClear"
      /\ \A u \in Threads : pc'[u] \in {"swap", "sendPost"} => pc[u] \in {"swap", "sendPost"} /\ u # t
    BY <1>0, <1>1, Facts DEF SendRefused
<1> QED BY <1>2, <1>3, <1>4 DEF Over, Kept, Ordered

\* Every other step leaves the buffers where they are.
LEMMA KeptElse ==
    ASSUME Inv, Kept, NEW t \in Threads, Act(t),
           ~Register(t), ~Swap(t), ~SendPosted(t), ~SendDone(t),
           ~\E e \in Errors : SendRefused(t, e) \/ SendFailed(t, e)
    PROVE  Kept'
<1> USE DEF connVars, sendVars, ioVars, faults, At, Goto, Return, Dequeue, HandleError, Post, GivesUp
<1>0. IInv
    BY DEF Inv, LiveInv
<1> HIDE DEF GivesUp
<1>d. ASSUME UNCHANGED <<wire, sendMgr, eventMgr, accepted>>, posted'["send"] = posted["send"],
             \A u \in Threads : /\ pc'[u] = "sendPost" <=> pc[u] = "sendPost"
                                /\ GivesUp(u)' => GivesUp(u)
      PROVE  Kept'
    BY <1>d DEF Kept, Ordered, Clean, AtPost
<1> USE DEF GivesUp
<1>1. CASE SendAsync(t) \/ ConnectAsync(t) \/ ReceiveDone(t)
    BY Facts, <1>0, <1>d, <1>1 DEF SendAsync, ConnectAsync, ReceiveDone, AfterReceive
<1>2. CASE Running(t)
  <2>1. CASE SendCheck(t) \/ SendStore(t) \/ SentCheck(t)
      BY Facts, <1>0, <1>d, <2>1 DEF SendCheck, SendStore, SentCheck
  <2>2. CASE SendClear(t)
      BY <2>2 DEF SendClear, Kept
  <2>3. CASE Exchange(t) \/ RemoveSession(t)
      BY Facts, <1>0, <1>d, <2>3 DEF Exchange, RemoveSession
  <2>4. CASE DisconnectPosted(t)
      BY Facts, <1>0, <1>d, <2>4 DEF DisconnectPosted
  <2>5. CASE \E e \in DiscErrors : DisconnectRefused(t, e)
      BY Facts, <1>0, <1>d, <2>5 DEF DisconnectRefused
  <2>6. CASE ReceiveCheck(t) \/ ReceivePosted(t) \/ ReceiveReset(t) \/ \E e \in Errors : ReceiveRefused(t, e)
      BY Facts, <1>0, <1>d, <2>6 DEF ReceiveCheck, ReceivePosted, ReceiveReset, ReceiveRefused
  <2>7. CASE AddSession(t) \/ SetConnected(t) \/ OnConnected(t)
      BY Facts, <1>0, <1>d, <2>7 DEF AddSession, SetConnected, OnConnected
  <2> QED BY <1>2, <2>1, <2>2, <2>3, <2>4, <2>5, <2>6, <2>7 DEF Running
<1>3. CASE Completion(t)
  <2>1. CASE ConnectDone(t) \/ \E e \in ConnectErrors : ConnectFailed(t, e)
      BY Facts, <1>0, <1>d, <2>1 DEF ConnectDone, ConnectFailed
  <2>2. CASE DisconnectDone(t) \/ \E e \in DiscErrors : DisconnectFailed(t, e)
      BY Facts, <1>0, <1>d, <2>2 DEF DisconnectDone, DisconnectFailed
  <2>3. CASE ReceiveClosed(t) \/ \E e \in Errors : ReceiveFailed(t, e)
      BY Facts, <1>0, <1>d, <2>3 DEF ReceiveClosed, ReceiveFailed
  <2> QED BY <1>3, <2>1, <2>2, <2>3 DEF Completion
<1> QED BY <1>1, <1>2, <1>3 DEF Act

LEMMA OrderStep ==
    ASSUME Inv, NEW t \in Threads, Act(t) PROVE OrderInv'
<1> SUFFICES ASSUME "send" \notin unanswered'
             PROVE  Ordered' /\ (Clean \/ Over)' /\ ((\E u \in Threads : GivesUp(u)) => Over)'
    BY DEF OrderInv
<1>0. "send" \notin unanswered
    BY WireAndAccepted
<1>1. Ordered /\ (Clean \/ Over) /\ ((\E u \in Threads : GivesUp(u)) => Over)
    BY <1>0 DEF Inv, OrderInv
<1>2. CASE Over
  <2>1. ~SendPosted(t)
      BY <1>2 DEF Over, SendPosted, At
  <2>2. UNCHANGED wire /\ (accepted' = accepted \/ accepted' = accepted + 1)
      BY <2>1, WireAndAccepted DEF Register
  <2>3. Ordered'
      BY <1>1, <2>2, QueueFacts DEF Ordered, Inv, LiveInv
  <2> QED BY <1>2, <2>3, OverStep
<1>3. CASE ~Over
  <2>1. Kept
      BY <1>1, <1>3 DEF Kept
  <2>2. CASE \E e \in Errors : SendRefused(t, e)
      BY <2>1, <2>2, RefusedIsOver
  <2>3. CASE ~\E e \in Errors : SendRefused(t, e)
    <3>1. Kept'
        BY <2>1, <2>3, KeptRegister, KeptSwap, KeptPosted, KeptDone, KeptElse
    <3> QED BY <3>1 DEF Kept
  <2> QED BY <2>2, <2>3
<1> QED BY <1>2, <1>3

LEMMA OrderNext == Inv /\ [Next]_vars => Inv'
<1> SUFFICES ASSUME Inv, [Next]_vars PROVE Inv'
    OBVIOUS
<1>0. LiveInv'
    BY LiveNext DEF Inv
<1>1. CASE UNCHANGED vars
  <2>1. OpenInv'
      BY <1>1 DEF vars, connVars, sendVars, ioVars, faults, Inv, OpenInv, Young, Unborn, Opening
  <2>2. OrderInv'
      BY <1>1 DEF vars, connVars, sendVars, ioVars, faults, Inv, OrderInv, Ordered, Clean, Over, AtPost, GivesUp
  <2> QED BY <1>0, <2>1, <2>2 DEF Inv
<1>2. CASE Next
  <2>1. PICK t \in Threads : Act(t)
      BY <1>2 DEF Next, Act
  <2> QED BY <1>0, <2>1, OpenStep, OrderStep DEF Inv
<1> QED BY <1>1, <1>2

-------------------------------------------------------------------------------
(* The refinement                                                          *)

Broken == "send" \in unanswered
Sent == IF Broken THEN 0 ELSE IF InOrder THEN Len(wire) ELSE MaxBuf + 1
View == <<onConnected > 0, onDisconnected > 0, accepted, Sent, Broken>>

LEMMA SentIsWire ==
    ASSUME Inv, ~Broken PROVE Sent = Len(wire) /\ Len(wire) \in Nat
<1>1. Ordered /\ IInv
    BY DEF Inv, LiveInv, OrderInv, Broken
<1>2. InOrder
    BY <1>1, QueueFacts, EndsWithFromOne DEF Ordered, InOrder
<1> QED BY <1>1, <1>2, QueueFacts DEF Sent

LEMMA ConnInit == Init => Conn!Init
<1> SUFFICES ASSUME Init PROVE Conn!Init
    OBVIOUS
<1>1. Inv /\ ~Broken /\ Len(wire) = 0
    BY OrderInit DEF Init, Broken
<1>2. Sent = 0
    BY <1>1, SentIsWire
<1> QED BY <1>2 DEF Init, Conn!Init, Sent, Broken

\* What the users of a session see changes in these steps only.
LEMMA Invisible ==
    ASSUME Inv, NEW t \in Threads, Act(t),
           ~Register(t), ~SendPosted(t), ~OnConnected(t), ~DisconnectDone(t), Broken' = Broken
    PROVE  UNCHANGED View
<1> USE DEF connVars, sendVars, ioVars, faults
<1>1. UNCHANGED <<wire, accepted>>
    BY WireAndAccepted
<1>2. UNCHANGED Sent
    BY <1>1 DEF Sent, InOrder
<1>3. UNCHANGED <<onConnected, onDisconnected>>
  <2>1. CASE SendAsync(t) \/ ConnectAsync(t) \/ ReceiveDone(t)
      BY <2>1 DEF SendAsync, ConnectAsync, ReceiveDone
  <2>2. CASE Running(t)
    <3>1. CASE \/ \E e \in Errors : SendRefused(t, e) \/ ReceiveRefused(t, e)
               \/ \E e \in DiscErrors : DisconnectRefused(t, e)
        BY <3>1 DEF SendRefused, ReceiveRefused, DisconnectRefused
    <3>2. CASE ~(\/ \E e \in Errors : SendRefused(t, e) \/ ReceiveRefused(t, e)
                 \/ \E e \in DiscErrors : DisconnectRefused(t, e))
        BY <2>2, <3>2 DEF Running, SendCheck, Swap, SendClear, SendStore, Exchange, RemoveSession, DisconnectPosted, ReceiveCheck, ReceivePosted, ReceiveReset, AddSession, SetConnected, SentCheck
    <3> QED BY <3>1, <3>2
  <2>3. CASE Completion(t)
      BY <2>3 DEF Completion, ConnectDone, ConnectFailed, DisconnectFailed, ReceiveClosed, ReceiveFailed, SendDone, SendFailed
  <2> QED BY <2>1, <2>2, <2>3 DEF Act
<1> QED BY <1>1, <1>2, <1>3 DEF View

\* The promise about the buffers is given up only by a send that fails.
LEMMA BreakStep ==
    ASSUME Inv, NEW t \in Threads, Act(t), Broken' # Broken
    PROVE  Conn!Break
<1> USE DEF connVars, sendVars, ioVars, faults, HandleError, Broken
<1>0. LiveInv /\ IInv
    BY DEF Inv, LiveInv
<1>1. \E e \in Errors : SendRefused(t, e) \/ SendFailed(t, e)
  <2>1. ~(SendAsync(t) \/ ConnectAsync(t) \/ ReceiveDone(t))
      BY DEF SendAsync, ConnectAsync, ReceiveDone
  <2>2. CASE Running(t)
    <3>1. ~\E e \in Errors : ReceiveRefused(t, e)
        BY DEF ReceiveRefused
    <3>2. ~\E e \in DiscErrors : DisconnectRefused(t, e)
      <4>1. \A e \in DiscErrors : DisconnectRefused(t, e) => unanswered' = unanswered \cup {"disconnect"}
          BY DEF DisconnectRefused
      <4>2. unanswered' = unanswered \cup {"disconnect"} => ("send" \in unanswered' <=> "send" \in unanswered)
          OBVIOUS
      <4> QED BY <4>1, <4>2
    <3> QED BY <2>2, <3>1, <3>2 DEF Running, Register, SendCheck, Swap, SendClear, SendStore, SendPosted, Exchange, RemoveSession, DisconnectPosted, ReceiveCheck, ReceivePosted, ReceiveReset, AddSession, SetConnected, OnConnected, SentCheck
  <2>3. CASE Completion(t)
    <3>1. ~(\/ \E e \in Errors : ReceiveFailed(t, e)
            \/ \E e \in DiscErrors : DisconnectFailed(t, e)
            \/ \E e \in ConnectErrors : ConnectFailed(t, e))
        BY DEF ReceiveFailed, DisconnectFailed, ConnectFailed
    <3> QED BY <2>3, <3>1 DEF Completion, ConnectDone, DisconnectDone, ReceiveClosed, SendDone
  <2> QED BY <2>1, <2>2, <2>3 DEF Act
<1>2. ~Broken /\ Broken'
    BY WireAndAccepted
<1>3. onConnected > 0
  <2>1. posted["send"] > 0 \/ Sending(t)
      BY <1>1 DEF SendRefused, SendFailed, Dequeue, At, Sending, SendLabels
  <2> QED BY <1>0, <2>1, SendersKnowIt
<1>4. UNCHANGED <<onConnected, onDisconnected, accepted>>
    BY <1>1 DEF SendRefused, SendFailed
<1> QED BY <1>2, <1>3, <1>4 DEF Conn!Break

LEMMA ConnNext == Inv /\ Inv' /\ [Next]_vars => [Conn!Next]_(Conn!vars)
<1> SUFFICES ASSUME Inv, Inv', [Next]_vars PROVE [Conn!Next]_(Conn!vars)
    OBVIOUS
<1>0. LiveInv /\ IInv /\ OpenInv /\ onConnected \in Nat /\ onDisconnected \in Nat
    BY QueueFacts, Facts DEF Inv, LiveInv
<1>v. UNCHANGED View => UNCHANGED Conn!vars
    BY DEF View, Sent, Broken, Conn!vars
<1>1. CASE UNCHANGED vars
  <2>1. UNCHANGED View
      BY <1>1 DEF vars, connVars, sendVars, faults, View, Sent, Broken, InOrder
  <2> QED BY <2>1, <1>v
<1>2. CASE Next
  <2>1. PICK t \in Threads : Act(t)
      BY <1>2 DEF Next, Act
  <2>2. CASE Broken' # Broken
      BY <2>1, <2>2, BreakStep DEF Conn!Next
  <2>3. CASE Register(t)
    <3>1. onConnected > 0
        BY <1>0, <2>3, SendersKnowIt DEF Register, At
    <3>2. accepted < MaxBuf
        BY <1>0, <2>3, NoThreadAssumption DEF IInv, LockInv, Register, At
    <3>3. UNCHANGED <<onConnected, onDisconnected, wire, Broken>> /\ accepted' = accepted + 1
        BY <2>3 DEF Register, connVars, faults, Broken
    <3>4. UNCHANGED Sent
        BY <3>3 DEF Sent, InOrder
    <3> QED BY <3>1, <3>2, <3>3, <3>4 DEF Conn!Next, Conn!Accept, Sent, Broken
  <2>4. CASE SendPosted(t)
    <3>1. UNCHANGED <<onConnected, onDisconnected, accepted, Broken>> /\ wire' = wire \o eventMgr
        BY <2>4 DEF SendPosted, connVars, faults, Broken
    <3>2. CASE Broken
      <4>1. UNCHANGED Sent
          BY <3>1, <3>2 DEF Sent
      <4> QED BY <3>1, <4>1, <1>v DEF View
    <3>3. CASE ~Broken
      <4>1. Sent = Len(wire) /\ Len(wire) \in Nat
          BY <3>3, SentIsWire
      <4>2. Sent' = Len(wire') /\ Len(wire') \in Nat
        <5>1. Ordered' /\ ~Broken'
            BY <3>1, <3>3 DEF Inv, OrderInv, Broken
        <5>2. wire' \in Seq(1..MaxBuf)
            BY DEF Inv, LiveInv, IInv, TypeOK
        <5>3. InOrder' /\ Len(wire') \in Nat
            BY <1>0, <5>1, <5>2, QueueFacts, EndsWithFromOne, LenProperties DEF Ordered, InOrder
        <5> QED BY <5>1, <5>3 DEF Sent
      <4>3. Len(wire') <= accepted /\ Len(wire') = Len(wire) + Len(eventMgr)
        <5>1. Len(wire') <= accepted'
            BY <3>1, <3>3 DEF Inv, OrderInv, Ordered, Broken
        <5>2. Len(wire \o eventMgr) = Len(wire) + Len(eventMgr)
            BY <1>0, QueueFacts, ConcatProperties
        <5> QED BY <3>1, <5>1, <5>2
      <4>4. CASE Len(eventMgr) = 0
        <5>1. UNCHANGED Sent
            BY <4>1, <4>2, <4>3, <4>4
        <5> QED BY <3>1, <5>1, <1>v DEF View
      <4>5. CASE Len(eventMgr) # 0
        <5>1. Sent' \in (Sent + 1)..accepted
            BY <1>0, <4>1, <4>2, <4>3, <4>5, QueueFacts
        <5> QED BY <3>1, <3>3, <5>1 DEF Conn!Next, Conn!Transmit, Sent, Broken
      <4> QED BY <4>4, <4>5
    <3> QED BY <3>2, <3>3
  <2>5. CASE OnConnected(t)
    <3>1. UNCHANGED <<onDisconnected, accepted, wire, Broken>> /\ onConnected' = onConnected + 1
        BY <2>5 DEF OnConnected, sendVars, faults, Broken
    <3>2. onConnected = 0 /\ onDisconnected = 0
        BY <1>0, <2>5 DEF OnConnected, At, OpenInv, IInv, LifeInv, NotEnding
    <3>3. UNCHANGED Sent
        BY <3>1 DEF Sent, InOrder
    <3> QED BY <3>1, <3>2, <3>3 DEF Conn!Next, Conn!Open, Sent, Broken
  <2>6. CASE DisconnectDone(t)
    <3>1. UNCHANGED <<onConnected, accepted, wire, Broken>> /\ onDisconnected' = onDisconnected + 1
        BY <2>6 DEF DisconnectDone, sendVars, faults, Broken
    <3>2. onDisconnected = 0
        BY <1>0, <2>6, Facts DEF DisconnectDone, Dequeue, IInv, LifeInv
    <3>3. UNCHANGED Sent
        BY <3>1 DEF Sent, InOrder
    <3> QED BY <3>1, <3>2, <3>3 DEF Conn!Next, Conn!End, Sent, Broken
  <2> QED BY <2>1, <2>2, <2>3, <2>4, <2>5, <2>6, Invisible, <1>v
<1> QED BY <1>1, <1>2

\* Session.cpp as a whole keeps the promise of Connection: one notice of the
\* opening, at most one of the end, never the other way round, and the buffers on
\* the network are the first ones SendAsync took, in their order, whatever
\* senders, completions, errors and disconnects meet (Session.cpp:79-102, 271-304
\* and 411-442).
THEOREM ConnectionHolds == Spec => ConnectionSpec
<1>1. Spec => []Inv
    BY OrderInit, OrderNext, PTL DEF Spec
<1> QED BY <1>1, ConnInit, ConnNext, PTL DEF Spec, ConnectionSpec, Conn!Spec
=============================================================================

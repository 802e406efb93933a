------------------------------- MODULE Session -------------------------------
(***************************************************************************)
(* One Session (Core/Network/Session.h, Core/Network/Session.cpp).         *)
(*                                                                         *)
(* Every thread may call SendAsync and may take an IO completion from the  *)
(* port, so the handlers of one session run concurrently.  One action is   *)
(* one step on shared state: an atomic access, a critical section of the   *)
(* session's or the service's lock, or a call of the socket API together   *)
(* with the writes to the event it is given.  The kernel (external)        *)
(* completes a posted operation at any time and with any outcome.          *)
(***************************************************************************)
EXTENDS Naturals, Sequences

CONSTANTS Threads,        \* threads that send and that dispatch completions
          Errors,         \* kinds of error WSASend, WSARecv and their completions report
          ConnectErrors,  \* the same for ConnectEx
          DiscErrors,     \* the same for DisconnectEx
          MaxBuf,         \* bound: buffers given to SendAsync
          NoThread        \* "nobody holds the lock"

\* "lost" is any code HandleError turns into DisconnectAsync (WSAECONNRESET,
\* WSAENOTCONN, ...), "other" any code it only logs.
ErrorKinds == {"lost", "other"}

ASSUME ErrorsAssumption == Errors \cup ConnectErrors \cup DiscErrors \subseteq ErrorKinds
ASSUME MaxBufAssumption == MaxBuf \in Nat
ASSUME NoThreadAssumption == NoThread \notin Threads

Ops == {"connect", "send", "recv", "disconnect"}

VARIABLES
    isConnected,   \* mIsConnected
    isSending,     \* mIsSending
    inService,     \* the session is in Service::mSessions
    sendMgr,       \* mSendBufferMgr: numbers of the buffers registered
    eventMgr,      \* mSendEvent.bufferMgr
    sendLock,      \* who holds RW_LOCK inside SendAsync
    owner,         \* owner of each event: set or reset
    posted,        \* operations the kernel has and has not completed
    pc,            \* where each thread stands
    ret,           \* where it goes on after DisconnectAsync
    connects,      \* calls of ConnectAsync
    onConnected,   \* calls of OnConnected
    onDisconnected,\* calls of OnDisconnected
    accepted,      \* buffers registered so far
    wire,          \* history: buffers handed to the kernel, in order
    crashed,       \* the unlocked Clear has met a Register
    unanswered     \* history: operations that failed without a teardown following

connVars == <<isConnected, inService, connects, onConnected, onDisconnected>>
sendVars == <<isSending, sendMgr, eventMgr, sendLock, accepted, wire>>
ioVars   == <<owner, posted>>
faults == <<crashed, unanswered>>
vars == <<connVars, sendVars, ioVars, pc, ret, faults>>

Init ==
    /\ isConnected = FALSE
    /\ isSending = FALSE
    /\ inService = FALSE
    /\ sendMgr = <<>>
    /\ eventMgr = <<>>
    /\ sendLock = NoThread
    /\ owner = [op \in Ops |-> FALSE]
    /\ posted = [op \in Ops |-> 0]
    /\ pc = [t \in Threads |-> "idle"]
    /\ ret = [t \in Threads |-> "idle"]
    /\ connects = 0
    /\ onConnected = 0
    /\ onDisconnected = 0
    /\ accepted = 0
    /\ wire = <<>>
    /\ crashed = FALSE
    /\ unanswered = {}

At(t, label) == ~crashed /\ pc[t] = label
Goto(t, label) == pc' = [pc EXCEPT ![t] = label] /\ UNCHANGED ret

\* The call of DisconnectAsync ends and its caller goes on.
Return(t) == /\ pc' = [pc EXCEPT ![t] = ret[t]]
             /\ ret' = [ret EXCEPT ![t] = "idle"]

\* HandleError of operation op: the caller goes on at next, after DisconnectAsync
\* if the peer is lost.
HandleError(t, op, error, next) ==
    /\ IF error = "lost"
       THEN pc' = [pc EXCEPT ![t] = "exchange"] /\ ret' = [ret EXCEPT ![t] = next]
       ELSE Goto(t, next)
    /\ unanswered' = IF error = "lost" /\ op # "disconnect" THEN unanswered
                                                          ELSE unanswered \cup {op}

\* What WSASend and WSARecv and the other calls leave behind; mutant: the event
\* does not own the session.
OwnerSet_Forgotten(op) == owner
OwnerSet(op) == [owner EXCEPT ![op] = TRUE]
OwnerReset(op) == [owner EXCEPT ![op] = FALSE]
Post(op) == posted' = [posted EXCEPT ![op] = @ + 1]

-------------------------------------------------------------------------------
(* SendAsync and RegisterSend                                              *)

\* Any thread, once OnConnected has made the session known; takes RW_LOCK.
SendAsync(t) ==
    /\ At(t, "idle")
    /\ onConnected > 0
    /\ accepted < MaxBuf
    /\ sendLock = NoThread
    /\ sendLock' = t
    /\ Goto(t, "register")
    /\ UNCHANGED <<connVars, isSending, sendMgr, eventMgr, accepted, wire, ioVars, faults>>

\* mIsSending.exchange(true); mutant: the old value is not looked at.
WasSending_Ignored == FALSE
WasSending == isSending

\* mSendBufferMgr.Register and mIsSending.exchange(true), and the lock goes.
Register(t) ==
    /\ At(t, "register")
    /\ sendMgr' = Append(sendMgr, accepted + 1)
    /\ accepted' = accepted + 1
    /\ isSending' = TRUE
    /\ sendLock' = NoThread
    /\ Goto(t, IF WasSending THEN "idle" ELSE "sendCheck")
    /\ UNCHANGED <<connVars, eventMgr, wire, ioVars, faults>>

\* RegisterSend returns when the session is not connected, with mIsSending set.
SendCheck(t) ==
    /\ At(t, "sendCheck")
    /\ \/ /\ isConnected
          /\ owner' = OwnerSet("send")
          /\ Goto(t, "swap")
       \/ /\ ~isConnected
          /\ Goto(t, "idle")
          /\ UNCHANGED owner
    /\ UNCHANGED <<connVars, sendVars, posted, faults>>

\* WRITE_GUARD; mSendEvent.bufferMgr.Swap(mSendBufferMgr)
Swap(t) ==
    /\ At(t, "swap")
    /\ sendLock = NoThread
    /\ eventMgr' = sendMgr
    /\ sendMgr' = eventMgr
    /\ Goto(t, "sendPost")
    /\ UNCHANGED <<connVars, isSending, sendLock, accepted, wire, ioVars, faults>>

\* WSASend takes the buffers; its completion may be dispatched at once.
SendPosted(t) ==
    /\ At(t, "sendPost")
    /\ Post("send")
    /\ wire' = wire \o eventMgr
    /\ Goto(t, "idle")
    /\ UNCHANGED <<connVars, isSending, sendMgr, eventMgr, sendLock, accepted, owner, faults>>

SendRefused(t, error) ==
    /\ At(t, "sendPost")
    /\ HandleError(t, "send", error, "sendClear")
    /\ UNCHANGED <<connVars, sendVars, ioVars, crashed>>

\* owner.reset() and mSendBufferMgr.Clear(), the latter without the lock: a data
\* race with a Register that holds it, after which nothing is defined.
SendClear(t) ==
    /\ At(t, "sendClear")
    /\ owner' = OwnerReset("send")
    /\ sendMgr' = <<>>
    /\ crashed' = (sendLock # NoThread)
    /\ Goto(t, "sendStore")
    /\ UNCHANGED <<connVars, isSending, eventMgr, sendLock, accepted, wire, posted, unanswered>>

\* mIsSending.store(false)
SendStore(t) ==
    /\ At(t, "sendStore")
    /\ isSending' = FALSE
    /\ Goto(t, "idle")
    /\ UNCHANGED <<connVars, sendMgr, eventMgr, sendLock, accepted, wire, ioVars, faults>>

-------------------------------------------------------------------------------
(* ConnectAsync and DisconnectAsync                                        *)

\* RegisterConnect, once for a session (ClientService::Run, or an accepted
\* socket, whose completion the Listener turns into ProcessConnect).
ConnectAsync(t) ==
    /\ At(t, "idle")
    /\ connects = 0
    /\ ~isConnected
    /\ connects' = 1
    /\ \/ Post("connect") /\ owner' = OwnerSet("connect")
       \/ UNCHANGED ioVars
    /\ UNCHANGED <<isConnected, inService, onConnected, onDisconnected, sendVars, pc, ret, faults>>

\* mIsConnected.exchange(false); mutants: the old value is not looked at, or
\* the test is the wrong way round.
WasConnected_Ignored == TRUE
WasConnected_Inverted == ~isConnected
WasConnected == isConnected

Exchange(t) ==
    /\ At(t, "exchange")
    /\ isConnected' = FALSE
    /\ IF WasConnected THEN Goto(t, "remove") ELSE Return(t)
    /\ UNCHANGED <<inService, connects, onConnected, onDisconnected, sendVars, ioVars, faults>>

\* Service::RemoveSession, under the service's lock
RemoveSession(t) ==
    /\ At(t, "remove")
    /\ inService' = FALSE
    /\ IF inService THEN Goto(t, "discPost") ELSE Return(t)
    /\ UNCHANGED <<isConnected, connects, onConnected, onDisconnected, sendVars, ioVars, faults>>

\* RegisterDisconnect: DisconnectEx is posted.
DisconnectPosted(t) ==
    /\ At(t, "discPost")
    /\ owner' = OwnerSet("disconnect")
    /\ Post("disconnect")
    /\ Return(t)
    /\ UNCHANGED <<connVars, sendVars, faults>>

\* RegisterDisconnect: DisconnectEx fails; DisconnectAsync, called again by
\* HandleError, finds mIsConnected false, and the owner is reset.
DisconnectRefused(t, error) ==
    /\ At(t, "discPost")
    /\ isConnected' = IF error = "lost" THEN FALSE ELSE isConnected
    /\ owner' = OwnerReset("disconnect")
    /\ unanswered' = unanswered \cup {"disconnect"}
    /\ Return(t)
    /\ UNCHANGED <<inService, connects, onConnected, onDisconnected, sendVars, posted, crashed>>

-------------------------------------------------------------------------------
(* RegisterReceive                                                         *)

ReceiveCheck(t) ==
    /\ At(t, "recvCheck")
    /\ \/ /\ isConnected
          /\ owner' = OwnerSet("recv")
          /\ Goto(t, "recvPost")
       \/ /\ ~isConnected
          /\ Goto(t, "idle")
          /\ UNCHANGED owner
    /\ UNCHANGED <<connVars, sendVars, posted, faults>>

ReceivePosted(t) ==
    /\ At(t, "recvPost")
    /\ Post("recv")
    /\ Goto(t, "idle")
    /\ UNCHANGED <<connVars, sendVars, owner, faults>>

ReceiveRefused(t, error) ==
    /\ At(t, "recvPost")
    /\ HandleError(t, "recv", error, "recvReset")
    /\ UNCHANGED <<connVars, sendVars, ioVars, crashed>>

ReceiveReset(t) ==
    /\ At(t, "recvReset")
    /\ owner' = OwnerReset("recv")
    /\ Goto(t, "idle")
    /\ UNCHANGED <<connVars, sendVars, posted, faults>>

-------------------------------------------------------------------------------
(* The completions: DispatchIoEvent and the Process handlers               *)

\* A thread takes the completion of op and resets the owner of its event.
Dequeue(t, op) ==
    /\ At(t, "idle")
    /\ posted[op] > 0
    /\ posted' = [posted EXCEPT ![op] = @ - 1]
    /\ owner' = OwnerReset(op)

\* ProcessConnect
ConnectDone(t) ==
    /\ Dequeue(t, "connect")
    /\ Goto(t, "addSession")
    /\ UNCHANGED <<connVars, sendVars, faults>>

ConnectFailed(t, error) ==
    /\ Dequeue(t, "connect")
    /\ HandleError(t, "connect", error, "idle")
    /\ UNCHANGED <<connVars, sendVars, crashed>>

\* Service::AddSession; it fails when the service is full.
AddSession(t) ==
    /\ At(t, "addSession")
    /\ \/ inService' = TRUE /\ Goto(t, "setConnected")
       \/ inService' = inService /\ Goto(t, "discPost")
    /\ UNCHANGED <<isConnected, connects, onConnected, onDisconnected, sendVars, ioVars, faults>>

SetConnected(t) ==
    /\ At(t, "setConnected")
    /\ isConnected' = TRUE
    /\ Goto(t, "onConnected")
    /\ UNCHANGED <<inService, connects, onConnected, onDisconnected, sendVars, ioVars, faults>>

\* From here on the session's users send; the receive is registered afterwards.
OnConnected(t) ==
    /\ At(t, "onConnected")
    /\ onConnected' = onConnected + 1
    /\ Goto(t, "recvCheck")
    /\ UNCHANGED <<isConnected, inService, connects, onDisconnected, sendVars, ioVars, faults>>

\* ProcessDisconnect
DisconnectDone(t) ==
    /\ Dequeue(t, "disconnect")
    /\ onDisconnected' = onDisconnected + 1
    /\ UNCHANGED <<isConnected, inService, connects, onConnected, sendVars, pc, ret, faults>>

DisconnectFailed(t, error) ==
    /\ Dequeue(t, "disconnect")
    /\ HandleError(t, "disconnect", error, "idle")
    /\ UNCHANGED <<connVars, sendVars, crashed>>

\* Where ProcessReceive goes when OnReceived has had the data; mutant: back to the port.
AfterReceive_Dropped == "idle"
AfterReceive == "recvCheck"

\* ProcessReceive: data for OnReceived, then the next receive
ReceiveDone(t) ==
    /\ Dequeue(t, "recv")
    /\ Goto(t, AfterReceive)
    /\ UNCHANGED <<connVars, sendVars, faults>>

\* ProcessReceive: no bytes, or a buffer that refuses them
ReceiveClosed(t) ==
    /\ Dequeue(t, "recv")
    /\ pc' = [pc EXCEPT ![t] = "exchange"]
    /\ UNCHANGED <<connVars, sendVars, ret, faults>>

ReceiveFailed(t, error) ==
    /\ Dequeue(t, "recv")
    /\ HandleError(t, "recv", error, "idle")
    /\ UNCHANGED <<connVars, sendVars, crashed>>

\* mSendEvent.bufferMgr.Clear(); mutant: the sent buffers stay in the event.
Cleared_Kept == eventMgr
Cleared == <<>>

\* ProcessSend, up to OnSent
SendDone(t) ==
    /\ Dequeue(t, "send")
    /\ eventMgr' = Cleared
    /\ Goto(t, "sent")
    /\ UNCHANGED <<connVars, isSending, sendMgr, sendLock, accepted, wire, faults>>

\* ProcessSend returns after HandleError and leaves mIsSending set.
SendFailed(t, error) ==
    /\ Dequeue(t, "send")
    /\ eventMgr' = Cleared
    /\ HandleError(t, "send", error, "idle")
    /\ UNCHANGED <<connVars, isSending, sendMgr, sendLock, accepted, wire, crashed>>

\* mSendBufferMgr.IsEmpty(); mutant: what came in meanwhile is not looked at.
NothingLeft_Always == TRUE
NothingLeft == sendMgr = <<>>

\* WRITE_GUARD; the sender ends, or goes on with what was registered meanwhile.
SentCheck(t) ==
    /\ At(t, "sent")
    /\ sendLock = NoThread
    /\ \/ /\ NothingLeft
          /\ isSending' = FALSE
          /\ Goto(t, "idle")
       \/ /\ ~NothingLeft
          /\ Goto(t, "sendCheck")
          /\ UNCHANGED isSending
    /\ UNCHANGED <<connVars, sendMgr, eventMgr, sendLock, accepted, wire, ioVars, faults>>

-------------------------------------------------------------------------------
Running(t) ==
    \/ Register(t) \/ SendCheck(t) \/ Swap(t) \/ SendClear(t) \/ SendStore(t)
    \/ SendPosted(t) \/ \E e \in Errors : SendRefused(t, e)
    \/ Exchange(t) \/ RemoveSession(t)
    \/ DisconnectPosted(t) \/ \E e \in DiscErrors : DisconnectRefused(t, e)
    \/ ReceiveCheck(t) \/ ReceivePosted(t) \/ ReceiveReset(t)
    \/ \E e \in Errors : ReceiveRefused(t, e)
    \/ AddSession(t) \/ SetConnected(t) \/ OnConnected(t) \/ SentCheck(t)

\* The data a peer sends is not owed to anyone: ReceiveDone is kept apart.
Completion(t) ==
    \/ ConnectDone(t) \/ \E e \in ConnectErrors : ConnectFailed(t, e)
    \/ DisconnectDone(t) \/ \E e \in DiscErrors : DisconnectFailed(t, e)
    \/ ReceiveClosed(t) \/ \E e \in Errors : ReceiveFailed(t, e)
    \/ SendDone(t) \/ \E e \in Errors : SendFailed(t, e)

Next == \E t \in Threads : \/ SendAsync(t) \/ ConnectAsync(t)
                           \/ Running(t) \/ Completion(t) \/ ReceiveDone(t)

Spec == Init /\ [][Next]_vars

\* A thread inside a handler keeps running, and a send or a disconnect that the
\* kernel has is completed and dispatched; nobody has to send, connect or answer.
FairSpec ==
    /\ Spec
    /\ \A t \in Threads : WF_vars(Running(t))
    /\ WF_vars(\E t \in Threads : DisconnectDone(t) \/ \E e \in DiscErrors : DisconnectFailed(t, e))
    /\ WF_vars(\E t \in Threads : SendDone(t) \/ \E e \in Errors : SendFailed(t, e))

-------------------------------------------------------------------------------
SendLabels == {"sendCheck", "swap", "sendPost", "sendClear", "sendStore", "sent"}
RecvLabels == {"recvCheck", "recvPost", "recvReset"}
Labels == SendLabels \cup RecvLabels \cup
          {"idle", "register", "exchange", "remove", "discPost",
           "addSession", "setConnected", "onConnected"}

TypeOK ==
    /\ isConnected \in BOOLEAN /\ isSending \in BOOLEAN /\ inService \in BOOLEAN
    /\ sendMgr \in Seq(1..MaxBuf) /\ eventMgr \in Seq(1..MaxBuf) /\ wire \in Seq(1..MaxBuf)
    /\ sendLock \in Threads \cup {NoThread}
    /\ owner \in [Ops -> BOOLEAN]
    /\ posted \in [Ops -> 0..1]
    /\ pc \in [Threads -> Labels]
    /\ ret \in [Threads -> {"idle", "sendClear", "recvReset"}]
    /\ connects \in 0..1 /\ onConnected \in Nat /\ onDisconnected \in Nat
    /\ accepted \in 0..MaxBuf
    /\ crashed \in BOOLEAN /\ unanswered \subseteq Ops

\* A thread that has the send path to itself, the error path through
\* DisconnectAsync included.
Sending(t) == pc[t] \in SendLabels \/ ret[t] = "sendClear"
Receiving(t) == pc[t] \in RecvLabels \/ ret[t] = "recvReset"
Disconnecting(t) == pc[t] \in {"exchange", "remove", "discPost"}

\* One send at a time (Session.cpp:83-84): whatever mixture of senders,
\* completions and errors, either the kernel has the one send event or one
\* thread works on it, never both and never two; and mIsSending tells.
OneSendInFlight ==
    /\ posted["send"] <= 1
    /\ \A s, t \in Threads : Sending(s) /\ Sending(t) => s = t
    /\ posted["send"] = 1 => \A t \in Threads : ~Sending(t)
    /\ (posted["send"] = 1 \/ \E t \in Threads : Sending(t)) => isSending

\* Io/Event.h: the owner reference keeps the session alive while the kernel has
\* its event.  It is there whenever an operation is posted, and gone when the
\* operation is over, or the session would never be freed.
OwnerOf(op) ==
    \/ posted[op] > 0
    \/ op = "send" /\ \E t \in Threads : Sending(t)
    \/ op = "recv" /\ \E t \in Threads : Receiving(t)
OwnedWhilePending ==
    \A op \in Ops : /\ posted[op] > 0 => owner[op]
                    /\ owner[op] => OwnerOf(op)

\* The session leaves the service once and its end is notified once, although
\* every handler may find the connection lost: while mIsConnected is set it is
\* in the service and nobody tears it down, and there is one teardown at most.
DisconnectOnce ==
    /\ onDisconnected + posted["disconnect"] <= 1
    /\ isConnected => /\ inService
                      /\ posted["disconnect"] = 0 /\ onDisconnected = 0
                      /\ \A t \in Threads : pc[t] \notin {"remove", "discPost"}
    /\ \A s, t \in Threads :
          pc[s] \in {"remove", "discPost"} /\ pc[t] \in {"remove", "discPost"} => s = t

\* A buffer in a live session is never left behind: a send is under way, or the
\* teardown has begun.  This is lost only by a send that has failed with an error
\* HandleError just logs (Session.cpp:300 and 422 let go of the send path then).
NoStranded ==
    isConnected /\ sendMgr # <<>> /\ "send" \notin unanswered =>
        \/ posted["send"] > 0
        \/ \E t \in Threads : Sending(t) \/ Disconnecting(t)

\* Likewise a live session keeps a receive registered, or is about to register
\* one or to disconnect; without it neither data nor the end would be noticed.
ReceiveAlive ==
    isConnected /\ "recv" \notin unanswered =>
        \/ posted["recv"] = 1
        \/ \E t \in Threads :
              Receiving(t) \/ Disconnecting(t) \/ pc[t] = "onConnected"

\* The end of a session that had been opened is reported to OnDisconnected;
\* only a DisconnectEx that fails keeps it from its users.
EndNotified ==
    (onConnected > 0 /\ ~isConnected) ~>
        (onDisconnected > 0 \/ crashed \/ "disconnect" \in unanswered)

\* A buffer that SendAsync has taken is handed to the kernel, unless the
\* connection ends first or a send fails with an error HandleError just logs.
BuffersLeave ==
    \A n \in 1..MaxBuf :
        (accepted >= n) ~> (\/ Len(wire) >= n \/ ~isConnected
                            \/ crashed \/ "send" \in unanswered)

-------------------------------------------------------------------------------
(* The session implements the connection its users see.                    *)

InOrder == wire = [i \in 1..Len(wire) |-> i]

Conn == INSTANCE Connection
          WITH opened <- onConnected > 0, ended <- onDisconnected > 0,
               broken <- "send" \in unanswered,
               sent <- IF "send" \in unanswered THEN 0
                       ELSE IF InOrder THEN Len(wire) ELSE MaxBuf + 1

\* Every step of a session is a step of the connection or invisible to it: the
\* notices come once and the buffers leave in order, without gap or repetition.
ConnectionSpec == Conn!Spec
===============================================================================

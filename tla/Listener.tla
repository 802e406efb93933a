------------------------------ MODULE Listener ------------------------------
(***************************************************************************)
(* The listener (Core/Network/Listener.cpp) and the sessions of the server *)
(* service (Core/Network/Service.cpp).                                     *)
(*                                                                         *)
(* The main thread registers as many accepts as the service has room for   *)
(* sessions and launches the IO threads, which take the completed ones,    *)
(* set up and add the session or refuse it, and register the event again.  *)
(* The life of a connection between OnConnected and its end is module      *)
(* Session; here a connection is there until some thread ends it.  The     *)
(* kernel (external) completes an accept with a waiting client or with an  *)
(* error.                                                                  *)
(***************************************************************************)
EXTENDS Naturals, Sequences, FiniteSets

CONSTANTS IoThreads,
          Clients,
          maxSessionCount, \* Service::Config::maxSessionCount
          MaxFailures,     \* bound: calls of the operating system that fail
          Main,            \* the main thread
          NoClient

ASSUME LimitAssumption == maxSessionCount \in Nat \ {0} /\ MaxFailures \in Nat
ASSUME ClientsAssumption == IsFiniteSet(Clients) /\ NoClient \notin Clients
ASSUME MainAssumption == Main \notin IoThreads

Threads == IoThreads \cup {Main}
mAcceptEvents == 1..maxSessionCount
None == 0  \* no event, no session

VARIABLES
    client,        \* history: what has become of each client
    clientOf,      \* the client of each session created; its length is sNextSessionId - 1
    eventSession,  \* AcceptEvent::session
    posted,        \* events of the accepts the kernel has
    completed,     \* pairs of an event whose accept has completed and its result
    mSessions,
    mSessionCount,
    mIsConnected,  \* the sessions whose flag is set
    pc, event, session,  \* of each thread: where it stands, its event and session
    failures,
    crashed        \* the process has ended

serviceVars == <<mSessions, mSessionCount, mIsConnected>>
acceptVars == <<eventSession, posted, completed>>
threadVars == <<pc, event, session>>
vars == <<client, clientOf, acceptVars, serviceVars, threadVars, failures, crashed>>

Init ==
    /\ client = [c \in Clients |-> "away"]
    /\ clientOf = <<>>
    /\ eventSession = [e \in mAcceptEvents |-> None]
    /\ posted = {}
    /\ completed = {}
    /\ mSessions = {}
    /\ mSessionCount = 0
    /\ mIsConnected = {}
    /\ pc = [t \in Threads |-> IF t = Main THEN "initSockets" ELSE "off"]
    /\ event = [t \in Threads |-> None]
    /\ session = [t \in Threads |-> None]
    /\ failures = 0
    /\ crashed = FALSE

At(t, label) == ~crashed /\ pc[t] = label
Fail == failures < MaxFailures /\ failures' = failures + 1

\* The thread goes on at label with event e and session s.
Goto(t, label, e, s) == /\ pc' = [pc EXCEPT ![t] = label]
                        /\ event' = [event EXCEPT ![t] = e]
                        /\ session' = [session EXCEPT ![t] = s]

-------------------------------------------------------------------------------
(* StartAccept and RegisterAccept                                          *)

\* A call that sets up the sockets or the listening one.  When it fails, an
\* assertion ends the process, or StartAccept and Run return its error, on which
\* main does.
SetUp(call, then) ==
    /\ At(Main, call)
    /\ \/ Goto(Main, then, IF then = "register" THEN 1 ELSE None, None) /\ UNCHANGED <<failures, crashed>>
       \/ Fail /\ crashed' = TRUE /\ UNCHANGED threadVars
    /\ UNCHANGED <<client, clientOf, acceptVars, serviceVars>>

\* SocketUtils::Init (WSAStartup and BindWindowsFunction) and the completion port
InitSockets == SetUp("initSockets", "createIocp")
IoEventDispatcher == SetUp("createIocp", "createSocket")

CreateSocket == SetUp("createSocket", "registerListener")
RegisterListener == SetUp("registerListener", "setReuseAddress")
SetReuseAddress == SetUp("setReuseAddress", "setLinger")
SetLinger == SetUp("setLinger", "bindAddress")
BindAddress == SetUp("bindAddress", "listen")
Listen == SetUp("listen", "register")

StartAccept == \/ InitSockets \/ IoEventDispatcher
               \/ CreateSocket \/ RegisterListener \/ SetReuseAddress \/ SetLinger
               \/ BindAddress \/ Listen

\* Where a thread goes after RegisterAccept: main to the next event and, after
\* the last one, on to launch the IO threads; an IO thread back to the port.
Registered(t) ==
    IF t # Main THEN Goto(t, "port", None, None)
    ELSE IF event[Main] < maxSessionCount THEN Goto(Main, "register", event[Main] + 1, None)
    ELSE Goto(Main, "launch", None, None)

\* ThreadManager::Launch of an IO thread, while those launched are at work; when
\* there is none left, main waits in Join for good.
Launch(t) ==
    /\ At(Main, "launch")
    /\ pc[t] = "off"
    /\ Goto(t, "port", None, None)
    /\ UNCHANGED <<client, clientOf, acceptVars, serviceVars, failures, crashed>>

\* CreateSession with the next id; the id and the posted accept are the only
\* steps others can see.
NewSession == Len(clientOf) + 1

AcceptAsync(e) == posted' = posted \cup {e}

RegisterAccept(t) ==
    /\ At(t, "register")
    /\ clientOf' = Append(clientOf, NoClient)
    /\ eventSession' = [eventSession EXCEPT ![event[t]] = NewSession]
    /\ AcceptAsync(event[t])
    /\ Registered(t)
    /\ UNCHANGED <<client, completed, serviceVars, failures, crashed>>

\* AcceptEx fails at once: the session is given up, RegisterAccept calls itself.
RegisterAcceptFails(t) ==
    /\ At(t, "register")
    /\ Fail
    /\ clientOf' = Append(clientOf, NoClient)
    /\ eventSession' = [eventSession EXCEPT ![event[t]] = None]
    /\ UNCHANGED <<client, posted, completed, serviceVars, threadVars, crashed>>

\* The port refuses the session: CreateSession returns a null pointer, and
\* RegisterAccept asks it for its socket.
CreateSessionFails(t) ==
    /\ At(t, "register")
    /\ Fail
    /\ crashed' = TRUE
    /\ UNCHANGED <<client, clientOf, acceptVars, serviceVars, threadVars>>

-------------------------------------------------------------------------------
(* The kernel and the clients                                              *)

ClientArrives(c) ==
    /\ ~crashed
    /\ client[c] = "away"
    /\ client' = [client EXCEPT ![c] = "waiting"]
    /\ UNCHANGED <<clientOf, acceptVars, serviceVars, threadVars, failures, crashed>>

AcceptCompletes(e, c) ==
    /\ ~crashed
    /\ e \in posted
    /\ client[c] = "waiting"
    /\ client' = [client EXCEPT ![c] = "accepted"]
    /\ clientOf' = [clientOf EXCEPT ![eventSession[e]] = c]
    /\ posted' = posted \ {e}
    /\ completed' = completed \cup {<<e, "ok">>}
    /\ UNCHANGED <<eventSession, serviceVars, threadVars, failures, crashed>>

\* The accept ends in an error, with a client that has reset its connection or without.
AcceptFails(e) ==
    /\ ~crashed
    /\ e \in posted
    /\ Fail
    /\ \/ UNCHANGED client
       \/ \E c \in Clients : client[c] = "waiting" /\ client' = [client EXCEPT ![c] = "failed"]
    /\ posted' = posted \ {e}
    /\ completed' = completed \cup {<<e, "failed">>}
    /\ UNCHANGED <<clientOf, eventSession, serviceVars, threadVars, crashed>>

-------------------------------------------------------------------------------
(* ProcessAccept and Session::ProcessConnect                               *)

\* Where ProcessAccept goes after an error; mutant: back to the port.
AfterError_Return == "port"
AfterError == "register"

TakeAccept(t, e) ==
    /\ At(t, "port")
    /\ \E result \in {"ok", "failed"} :
          /\ <<e, result>> \in completed
          /\ completed' = completed \ {<<e, result>>}
          /\ IF result = "ok" THEN Goto(t, "setup", e, eventSession[e])
                              ELSE Goto(t, AfterError, e, None)
    /\ eventSession' = [eventSession EXCEPT ![e] = None]
    /\ UNCHANGED <<client, clientOf, posted, serviceVars, failures, crashed>>

\* SetUpdateAcceptSocket and getpeername; after an error the session goes out of
\* scope and closes the connection.
Setup(t) ==
    /\ At(t, "setup")
    /\ Goto(t, "addSession", event[t], session[t])
    /\ UNCHANGED <<client, clientOf, acceptVars, serviceVars, failures, crashed>>

SetupFails(t) ==
    /\ At(t, "setup")
    /\ Fail
    /\ client' = [client EXCEPT ![clientOf[session[t]]] = "failed"]
    /\ Goto(t, AfterError, event[t], None)
    /\ UNCHANGED <<clientOf, acceptVars, serviceVars, crashed>>

\* Where ProcessAccept goes after ProcessConnect; mutant: back to the port.
AfterConnect_Return == "port"
AfterConnect == "register"

\* mSessionCount >= maxSessionCount
IsFull == mSessionCount >= maxSessionCount

AddSession(t) ==
    /\ At(t, "addSession")
    /\ LET s == session[t] IN
       IF IsFull \/ s \in mSessions
       THEN /\ client' = [client EXCEPT ![clientOf[s]] = "refused"]
            /\ Goto(t, "refuse", event[t], s)
            /\ UNCHANGED <<mSessions, mSessionCount>>
       ELSE /\ client' = [client EXCEPT ![clientOf[s]] = "served"]
            /\ mSessions' = mSessions \cup {s}
            /\ mSessionCount' = mSessionCount + 1
            /\ Goto(t, "setConnected", event[t], s)
    /\ UNCHANGED <<clientOf, acceptVars, mIsConnected, failures, crashed>>

\* RegisterDisconnect of a refused session, whether it succeeds or the session
\* is closed with its last reference
Refuse(t) ==
    /\ At(t, "refuse")
    /\ Goto(t, AfterConnect, event[t], None)
    /\ UNCHANGED <<client, clientOf, acceptVars, serviceVars, failures, crashed>>

\* mIsConnected, OnConnected and the first receive
SetConnected(t) ==
    /\ At(t, "setConnected")
    /\ mIsConnected' = mIsConnected \cup {session[t]}
    /\ Goto(t, AfterConnect, event[t], None)
    /\ UNCHANGED <<client, clientOf, acceptVars, mSessions, mSessionCount, failures, crashed>>

-------------------------------------------------------------------------------
(* Session::DisconnectAsync                                                *)

\* Where DisconnectAsync goes after the exchange; mutant: RemoveSession is left out.
AfterExchange_Skip == "disconnect"
AfterExchange == "remove"

\* An IO thread at the port finds the connection of s ended, or ends it.  (Loop
\* and worker threads can too, in SendAsync, and an IO thread in the middle of
\* ProcessConnect, in RegisterReceive: DisconnectAsync takes the same steps on
\* them and holds no event.)
LoseConnection(t, s) ==
    /\ At(t, "port")
    /\ s \in mIsConnected
    /\ mIsConnected' = mIsConnected \ {s}
    /\ Goto(t, AfterExchange, None, s)
    /\ UNCHANGED <<client, clientOf, acceptVars, mSessions, mSessionCount, failures, crashed>>

\* Mutant: the count is forgotten.
CountDown_Forgotten == mSessionCount
CountDown == mSessionCount - 1

RemoveSession(t) ==
    /\ At(t, "remove")
    /\ LET s == session[t] IN
       IF s \in mSessions
       THEN /\ mSessions' = mSessions \ {s}
            /\ mSessionCount' = CountDown
            /\ client' = [client EXCEPT ![clientOf[s]] = "left"]
            /\ Goto(t, "disconnect", None, s)
       ELSE Goto(t, "port", None, None) /\ UNCHANGED <<mSessions, mSessionCount, client>>
    /\ UNCHANGED <<clientOf, acceptVars, mIsConnected, failures, crashed>>

\* RegisterDisconnect
Disconnect(t) ==
    /\ At(t, "disconnect")
    /\ Goto(t, "port", None, None)
    /\ UNCHANGED <<client, clientOf, acceptVars, serviceVars, failures, crashed>>

-------------------------------------------------------------------------------
Kernel == \E e \in mAcceptEvents : AcceptFails(e) \/ \E c \in Clients : AcceptCompletes(e, c)

Step(t) == \/ RegisterAccept(t) \/ RegisterAcceptFails(t) \/ CreateSessionFails(t)
           \/ \E e \in mAcceptEvents : TakeAccept(t, e)
           \/ Setup(t) \/ SetupFails(t) \/ AddSession(t) \/ Refuse(t) \/ SetConnected(t)
           \/ \E s \in mIsConnected : LoseConnection(t, s)
           \/ RemoveSession(t) \/ Disconnect(t)

Next == \/ StartAccept
        \/ \E t \in IoThreads : Launch(t)
        \/ \E t \in Threads : Step(t)
        \/ Kernel
        \/ \E c \in Clients : ClientArrives(c)

Spec == Init /\ [][Next]_vars

\* Threads go on, the kernel completes accepts while clients wait, and a
\* completed accept is taken by some thread, as the IO threads keep dispatching.
FairSpec == /\ Spec
            /\ \A t \in Threads : WF_vars(~At(t, "port") /\ Step(t))
            /\ WF_vars(StartAccept) /\ \A t \in IoThreads : WF_vars(Launch(t))
            /\ WF_vars(Kernel)
            /\ WF_vars(\E t \in IoThreads, e \in mAcceptEvents : TakeAccept(t, e))

-------------------------------------------------------------------------------
(* Properties                                                              *)

SetUpCalls == {"initSockets", "createIocp", "createSocket", "registerListener",
               "setReuseAddress", "setLinger", "bindAddress", "listen"}

\* Type correctness of the listener, its events and the service.
TypeOK ==
    /\ client \in [Clients -> {"away", "waiting", "accepted", "served", "refused", "failed", "left"}]
    /\ clientOf \in Seq(Clients \cup {NoClient})
    /\ eventSession \in [mAcceptEvents -> 0..Len(clientOf)]
    /\ posted \subseteq mAcceptEvents
    /\ completed \subseteq mAcceptEvents \X {"ok", "failed"}
    /\ mSessions \subseteq DOMAIN clientOf
    /\ mSessionCount \in 0..maxSessionCount
    /\ mIsConnected \subseteq DOMAIN clientOf
    /\ pc \in [Threads -> SetUpCalls \cup {"off", "launch", "register", "port", "setup", "addSession",
                                        "refuse", "setConnected", "remove", "disconnect"}]
    /\ event \in [Threads -> 0..maxSessionCount]
    /\ session \in [Threads -> 0..Len(clientOf)]
    /\ failures \in 0..MaxFailures
    /\ crashed \in BOOLEAN

\* The number of places event e is in: still with the main thread, with the
\* kernel, completed, or in the hands of a thread.
Places(e) == Cardinality({t \in {Main} : pc[t] \in SetUpCalls \/ event[t] \in 1..(e - 1)})
             + Cardinality(posted \cap {e})
             + Cardinality({c \in completed : c[1] = e})
             + Cardinality({t \in Threads : event[t] = e /\ pc[t] # "port"})

\* No accept is lost and none is posted twice, through all the errors of
\* ProcessAccept and RegisterAccept: every event is in exactly one place.
EventInOnePlace == \A e \in mAcceptEvents : Places(e) = 1

\* mSessionCount counts mSessions, and a slot is only taken by a session that is
\* connected, about to be, or about to give the slot back.
SlotsAccounted ==
    /\ mSessionCount = Cardinality(mSessions)
    /\ mIsConnected \subseteq mSessions
    /\ \A s \in mSessions : \/ s \in mIsConnected
                            \/ \E t \in IoThreads : session[t] = s /\ pc[t] \in {"setConnected", "remove"}

\* What the clients see: an accepted client still waits for AddSession.
Fate == [c \in Clients |-> IF client[c] = "accepted" THEN "waiting" ELSE client[c]]
A == INSTANCE Admission WITH fate <- Fate, Limit <- maxSessionCount

\* The service lets its clients in as Admission says: each once, and none is
\* turned away while there is room.
AdmissionSpec == A!Spec

\* Every client that waits is let in or turned away, or its connection fails.
ClientsAnswered == \A c \in Clients : client[c] = "waiting" ~> client[c] \notin {"waiting", "accepted"} \/ crashed
=============================================================================

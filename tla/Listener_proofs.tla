--------------------------- MODULE Listener_proofs ---------------------------
(***************************************************************************)
(* Proofs about Listener for any number of IO threads, clients and slots:  *)
(* every accept event is in one place, the slots of the service are        *)
(* accounted for, and the service admits its clients as Admission says.    *)
(* The invariant follows the session with its event: from the accept to    *)
(* the one thread that sets it up, into mSessions, and to the one thread   *)
(* that takes it out again.                                                *)
(***************************************************************************)
EXTENDS Listener, FiniteSetTheorems, SequenceTheorems, TLAPS

USE LimitAssumption, MainAssumption

\* Where a thread has an event in its hands, and where it has a session.
Working == {"register", "setup", "addSession", "refuse", "setConnected"}
Holding == {"setup", "addSession", "setConnected", "remove"}

ThreadInv ==
    /\ pc[Main] \in SetUpCalls \cup {"register", "launch"}
    /\ \A t \in IoThreads : pc[t] \in Working \cup {"off", "port", "remove", "disconnect"}
    /\ \A t \in Threads : pc[t] \in Working <=> event[t] \in mAcceptEvents

\* The main thread has still to register e.
Ahead(e) == pc[Main] \in SetUpCalls \/ event[Main] \in 1..(e - 1)
Completed(e) == <<e, "ok">> \in completed \/ <<e, "failed">> \in completed
InHand(e) == \E t \in Threads : event[t] = e

\* An event is somewhere, and nowhere else.
PlaceInv ==
    /\ \A e \in mAcceptEvents :
          /\ Ahead(e) \/ e \in posted \/ Completed(e) \/ InHand(e)
          /\ Ahead(e) => e \notin posted /\ ~Completed(e) /\ ~InHand(e)
          /\ e \in posted => ~Completed(e) /\ ~InHand(e)
          /\ Completed(e) => ~InHand(e)
          /\ ~(<<e, "ok">> \in completed /\ <<e, "failed">> \in completed)
    /\ \A t, u \in Threads : t # u /\ event[t] = event[u] => event[t] = None

\* A session belongs to one event until it is taken, and to one client from its
\* accept on.
EventSessionInv ==
    /\ \A e, f \in mAcceptEvents : e # f /\ eventSession[e] = eventSession[f] => eventSession[e] = None
    /\ \A e \in posted : eventSession[e] # None /\ clientOf[eventSession[e]] = NoClient
    /\ \A e \in mAcceptEvents : <<e, "ok">> \in completed =>
          /\ eventSession[e] # None /\ clientOf[eventSession[e]] # NoClient
          /\ client[clientOf[eventSession[e]]] = "accepted"

ClientInv ==
    /\ \A i \in 1..Len(clientOf) : clientOf[i] # NoClient => client[clientOf[i]] \notin {"away", "waiting"}
    /\ \A i, j \in 1..Len(clientOf) : i # j /\ clientOf[i] = clientOf[j] => clientOf[i] = NoClient

\* The sessions in the hands of threads, and those of the service.
ThreadSessionInv ==
    /\ \A t \in Threads : pc[t] \in Holding => session[t] # None
    /\ \A t \in Threads : pc[t] \in {"setup", "addSession"} =>
          /\ clientOf[session[t]] # NoClient
          /\ client[clientOf[session[t]]] = "accepted"
    /\ \A t \in Threads : pc[t] \in {"setConnected", "remove"} =>
          session[t] \in mSessions \ mIsConnected
    /\ \A t, u \in Threads : t # u /\ pc[t] \in Holding /\ pc[u] \in Holding => session[t] # session[u]
    /\ \A t \in Threads, e \in mAcceptEvents : pc[t] \in Holding => eventSession[e] # session[t]

ServiceInv ==
    /\ mIsConnected \subseteq mSessions
    /\ \A s \in mSessions : clientOf[s] # NoClient /\ client[clientOf[s]] = "served"
    /\ \A s \in mSessions, e \in mAcceptEvents : eventSession[e] # s
    /\ \A s \in mSessions : \/ s \in mIsConnected
                            \/ \E t \in IoThreads : session[t] = s /\ pc[t] \in {"setConnected", "remove"}

\* The clients that are served are as many as the sessions counted.
Served == {c \in Clients : client[c] = "served"}
CountInv ==
    /\ mSessionCount = Cardinality(mSessions)
    /\ mSessionCount = Cardinality(Served)

IInv == /\ TypeOK /\ ThreadInv /\ PlaceInv /\ EventSessionInv /\ ClientInv
        /\ ThreadSessionInv /\ ServiceInv /\ CountInv

-------------------------------------------------------------------------------
(* Facts used throughout                                                   *)

Labels == SetUpCalls \cup Working \cup {"off", "launch", "port", "remove", "disconnect"}

LEMMA TypesOfThreads ==
    ASSUME TypeOK
    PROVE  pc \in [Threads -> Labels] /\ DOMAIN event = Threads /\ DOMAIN session = Threads
           /\ \A t \in Threads : event[t] \in mAcceptEvents \/ event[t] = None
BY DEF TypeOK, Labels, Working, mAcceptEvents, None

LEMMA TypesOfSessions ==
    ASSUME TypeOK
    PROVE  /\ Len(clientOf) \in Nat /\ DOMAIN clientOf = 1..Len(clientOf)
           /\ \A i \in 1..Len(clientOf) : clientOf[i] \in Clients \cup {NoClient}
           /\ \A s : s \in 0..Len(clientOf) /\ s # None => s \in 1..Len(clientOf)
           /\ mSessions \subseteq 1..Len(clientOf) /\ IsFiniteSet(mSessions)
<1>1. clientOf \in Seq(Clients \cup {NoClient}) /\ mSessions \subseteq DOMAIN clientOf
    BY DEF TypeOK
<1>2. Len(clientOf) \in Nat /\ DOMAIN clientOf = 1..Len(clientOf)
    BY <1>1, LenProperties
<1>3. \A i \in 1..Len(clientOf) : clientOf[i] \in Clients \cup {NoClient}
    BY <1>1, ElementOfSeq
<1>4. IsFiniteSet(mSessions)
  <2>1. IsFiniteSet(1..Len(clientOf))
      BY <1>2, FS_Interval
  <2> QED BY <1>1, <1>2, <2>1, FS_Subset
<1> QED BY <1>1, <1>2, <1>3, <1>4 DEF None

\* What Goto does to the threads.
Moved(t, l, e, s) ==
    /\ pc'[t] = l /\ event'[t] = e /\ session'[t] = s
    /\ \A u \in Threads : u # t => pc'[u] = pc[u] /\ event'[u] = event[u] /\ session'[u] = session[u]

LEMMA GotoMoves ==
    ASSUME TypeOK, NEW t \in Threads, NEW l, NEW e, NEW s, Goto(t, l, e, s)
    PROVE  Moved(t, l, e, s)
BY TypesOfThreads DEF Goto, Moved

-------------------------------------------------------------------------------
(* Every event is in one place                                             *)

\* A thread goes on with the event it has, or without one.
LEMMA EventKept ==
    ASSUME TypeOK, ThreadInv, PlaceInv, NEW t \in Threads, NEW l, NEW s, Moved(t, l, event[t], s),
           posted' = posted, completed' = completed,
           t = Main => /\ l \in SetUpCalls \cup {"register", "launch"}
                       /\ l \in SetUpCalls <=> pc[Main] \in SetUpCalls,
           t # Main => l \in Working \cup {"off", "port", "remove", "disconnect"},
           l \in Working <=> pc[t] \in Working
    PROVE  ThreadInv' /\ PlaceInv'
<1>1. \A u \in Threads : event'[u] = event[u]
    BY DEF Moved
<1>2. ThreadInv'
  <2>1. \A u \in Threads : pc'[u] \in Working <=> event'[u] \in mAcceptEvents
      BY DEF ThreadInv, Moved
  <2>2. \A u \in IoThreads : pc'[u] \in Working \cup {"off", "port", "remove", "disconnect"}
      BY DEF ThreadInv, Moved, Threads
  <2>3. pc'[Main] \in SetUpCalls \cup {"register", "launch"}
      BY DEF ThreadInv, Moved, Threads
  <2> QED BY <2>1, <2>2, <2>3 DEF ThreadInv
<1>3. \A e : (Ahead(e)' <=> Ahead(e)) /\ (Completed(e)' <=> Completed(e)) /\ (InHand(e)' <=> InHand(e))
  <2>1. pc'[Main] \in SetUpCalls <=> pc[Main] \in SetUpCalls
      BY DEF Moved, Threads
  <2> QED BY <1>1, <2>1 DEF Ahead, Completed, InHand, Threads
<1> QED BY <1>1, <1>2, <1>3 DEF PlaceInv

\* Only RegisterAccept, the kernel, TakeAccept and the last call that sets the
\* socket up change what has an event.
LEMMA PlaceUnchanged ==
    ASSUME ThreadInv, PlaceInv, UNCHANGED <<pc, event, posted, completed>>
    PROVE  ThreadInv' /\ PlaceInv'
BY DEF ThreadInv, PlaceInv, Ahead, Completed, InHand

LEMMA RegisterPlaces ==
    ASSUME TypeOK, ThreadInv, PlaceInv, NEW t \in Threads, RegisterAccept(t)
    PROVE  ThreadInv' /\ PlaceInv' /\ event[t] \in mAcceptEvents /\ event[t] \notin posted
           /\ ~Completed(event[t])
<1>1. /\ pc[t] = "register" /\ posted' = posted \cup {event[t]} /\ completed' = completed
      /\ Registered(t)
    BY DEF RegisterAccept, At, AcceptAsync
<1>2. event[t] \in mAcceptEvents
    BY <1>1 DEF ThreadInv, Working
<1>3. ~Ahead(event[t]) /\ event[t] \notin posted /\ ~Completed(event[t])
    BY <1>2 DEF PlaceInv, InHand
<1>4. CASE t # Main
  <2>1. Moved(t, "port", None, None)
      BY <1>1, <1>4, GotoMoves DEF Registered
  <2>2. ThreadInv'
      BY <1>4, <2>1 DEF ThreadInv, Moved, Threads, Working, None, mAcceptEvents
  <2>3. \A e \in mAcceptEvents : (Ahead(e)' <=> Ahead(e)) /\ (Completed(e)' <=> Completed(e))
      BY <1>1, <1>4, <2>1 DEF Ahead, Completed, Moved, Threads
  <2>4. \A e \in mAcceptEvents : InHand(e)' <=> InHand(e) /\ e # event[t]
      BY <1>2, <2>1 DEF InHand, Moved, PlaceInv, None, mAcceptEvents
  <2>5. \A u, v \in Threads : u # v /\ event'[u] = event'[v] => event'[u] = None
      BY <2>1 DEF PlaceInv, Moved
  <2>6. \A e \in mAcceptEvents : InHand(event[t])
      BY DEF InHand
  <2> QED BY <1>1, <1>2, <1>3, <2>2, <2>3, <2>4, <2>5, <2>6 DEF PlaceInv
<1>5. CASE t = Main
  <2>1. \E e \in mAcceptEvents \cup {None}, l \in {"register", "launch"} :
           /\ Moved(Main, l, e, None)
           /\ \/ l = "register" /\ e = event[Main] + 1
              \/ l = "launch" /\ e = None /\ event[Main] = maxSessionCount
    <3>1. CASE event[Main] < maxSessionCount
      <4>1. Moved(Main, "register", event[Main] + 1, None)
          BY <1>1, <1>5, <3>1, GotoMoves DEF Registered
      <4>2. event[Main] + 1 \in mAcceptEvents
          BY <1>2, <1>5, <3>1 DEF mAcceptEvents
      <4> QED BY <4>1, <4>2
    <3>2. CASE ~(event[Main] < maxSessionCount)
      <4>1. Moved(Main, "launch", None, None)
          BY <1>1, <1>5, <3>2, GotoMoves DEF Registered
      <4>2. event[Main] = maxSessionCount
          BY <1>2, <1>5, <3>2 DEF mAcceptEvents
      <4> QED BY <4>1, <4>2
    <3> QED BY <3>1, <3>2
  <2>2. PICK e0 \in mAcceptEvents \cup {None}, l \in {"register", "launch"} :
           /\ Moved(Main, l, e0, None)
           /\ \/ l = "register" /\ e0 = event[Main] + 1
              \/ l = "launch" /\ e0 = None /\ event[Main] = maxSessionCount
      BY <2>1
  <2>3. ThreadInv'
    <3>1. l \in Working <=> e0 \in mAcceptEvents
        BY <1>2, <1>5, <2>2 DEF Working, mAcceptEvents, None
    <3> QED BY <2>2, <3>1 DEF ThreadInv, Moved, Threads
  <2>4. \A e \in mAcceptEvents : Ahead(e)' <=> Ahead(e) /\ e # event[Main] + 1
    <3>1. pc[Main] \notin SetUpCalls /\ pc'[Main] \notin SetUpCalls /\ event'[Main] = e0
        BY <1>1, <1>5, <2>2 DEF SetUpCalls, Moved
    <3>2. \A e \in mAcceptEvents : e0 \in 1..(e - 1) <=> event[Main] \in 1..(e - 1) /\ e # event[Main] + 1
        BY <1>2, <1>5, <2>2 DEF mAcceptEvents, None
    <3> QED BY <3>1, <3>2 DEF Ahead
  <2>5. \A e \in mAcceptEvents : e = event[Main] + 1 => Ahead(e)
      BY <1>2, <1>5 DEF Ahead, mAcceptEvents
  <2>6. \A e \in mAcceptEvents : InHand(e)' <=> (InHand(e) /\ e # event[Main]) \/ e = e0
    <3>1. \A u \in Threads : u # Main => event'[u] = event[u]
        BY <2>2 DEF Moved
    <3>2. event'[Main] = e0 /\ Main \in Threads
        BY <2>2 DEF Moved, Threads
    <3>3. \A u \in Threads : u # Main => event[u] # event[Main]
        BY <1>2, <1>5 DEF PlaceInv, None, mAcceptEvents
    <3> QED BY <3>1, <3>2, <3>3 DEF InHand
  <2>7. \A u, v \in Threads : u # v /\ event'[u] = event'[v] => event'[u] = None
    <3>1. e0 # None => ~InHand(e0)
        BY <2>2, <2>5 DEF PlaceInv
    <3> QED BY <2>2, <3>1 DEF PlaceInv, Moved, InHand
  <2>8. \A e \in mAcceptEvents : Completed(e)' <=> Completed(e)
      BY <1>1 DEF Completed
  <2>9. \A e \in mAcceptEvents : e = e0 <=> e = event[Main] + 1
      BY <1>2, <1>5, <2>2 DEF mAcceptEvents, None
  <2>10. InHand(event[Main]) /\ event[Main] \in mAcceptEvents /\ posted' = posted \cup {event[Main]}
         /\ completed' = completed
      BY <1>1, <1>2, <1>5 DEF InHand
  <2>11. \A e \in mAcceptEvents :
          /\ Ahead(e)' \/ e \in posted' \/ Completed(e)' \/ InHand(e)'
          /\ Ahead(e)' => e \notin posted' /\ ~Completed(e)' /\ ~InHand(e)'
          /\ e \in posted' => ~Completed(e)' /\ ~InHand(e)'
          /\ Completed(e)' => ~InHand(e)'
          /\ ~(<<e, "ok">> \in completed' /\ <<e, "failed">> \in completed')
    <3> TAKE e \in mAcceptEvents
    <3>1. event[Main] \in Nat /\ e \in Nat /\ event[Main] # event[Main] + 1
        BY <1>2, <1>5 DEF mAcceptEvents
    <3> QED BY <2>4, <2>5, <2>6, <2>8, <2>9, <2>10, <3>1 DEF PlaceInv
  <2> QED BY <1>2, <1>3, <2>3, <2>7, <2>11 DEF PlaceInv
<1> QED BY <1>2, <1>3, <1>4, <1>5

LEMMA CompletePlaces ==
    ASSUME TypeOK, ThreadInv, PlaceInv, NEW e \in posted, NEW r \in {"ok", "failed"},
           posted' = posted \ {e}, completed' = completed \cup {<<e, r>>},
           UNCHANGED threadVars
    PROVE  ThreadInv' /\ PlaceInv'
<1>1. e \in mAcceptEvents
    BY DEF TypeOK
<1>2. ~Ahead(e) /\ ~Completed(e) /\ ~InHand(e)
    BY <1>1 DEF PlaceInv
<1>3. ThreadInv'
    BY DEF ThreadInv, threadVars
<1>4. \A f : (Ahead(f)' <=> Ahead(f)) /\ (InHand(f)' <=> InHand(f))
    BY DEF Ahead, InHand, threadVars
<1>5. \A f : Completed(f)' <=> Completed(f) \/ f = e
    BY DEF Completed
<1>6. <<e, "ok">> \notin completed /\ <<e, "failed">> \notin completed
    BY <1>2 DEF Completed
<1>7. \A f, q : <<f, q>> \in completed' <=> <<f, q>> \in completed \/ (f = e /\ q = r)
    OBVIOUS
<1>8. \A t, u \in Threads : t # u /\ event'[t] = event'[u] => event'[t] = None
    BY DEF PlaceInv, threadVars
<1>9. ASSUME NEW f \in mAcceptEvents
      PROVE  /\ Ahead(f)' \/ f \in posted' \/ Completed(f)' \/ InHand(f)'
             /\ Ahead(f)' => f \notin posted' /\ ~Completed(f)' /\ ~InHand(f)'
             /\ f \in posted' => ~Completed(f)' /\ ~InHand(f)'
             /\ Completed(f)' => ~InHand(f)'
             /\ ~(<<f, "ok">> \in completed' /\ <<f, "failed">> \in completed')
  <2>1. f = e => ~(<<f, "ok">> \in completed' /\ <<f, "failed">> \in completed')
      BY <1>6, <1>7
  <2>2. f # e => (<<f, "ok">> \in completed' <=> <<f, "ok">> \in completed)
                 /\ (<<f, "failed">> \in completed' <=> <<f, "failed">> \in completed)
      BY <1>7
  <2> QED BY <1>2, <1>4, <1>5, <2>1, <2>2 DEF PlaceInv
<1> QED BY <1>3, <1>8, <1>9 DEF PlaceInv

LEMMA TakePlaces ==
    ASSUME TypeOK, ThreadInv, PlaceInv, NEW t \in Threads, NEW e \in mAcceptEvents, TakeAccept(t, e)
    PROVE  ThreadInv' /\ PlaceInv'
<1>1. PICK r \in {"ok", "failed"}, l \in {"setup", "register"}, s \in {None, eventSession[e]} :
         <<e, r>> \in completed /\ completed' = completed \ {<<e, r>>} /\ Goto(t, l, e, s)
  <2>1. \E r \in {"ok", "failed"} :
           /\ <<e, r>> \in completed /\ completed' = completed \ {<<e, r>>}
           /\ Goto(t, "setup", e, eventSession[e]) \/ Goto(t, "register", e, None)
      BY DEF TakeAccept, AfterError
  <2> QED BY <2>1
<1>2. Moved(t, l, e, s)
    BY <1>1, GotoMoves
<1>3. pc[t] = "port" /\ posted' = posted /\ t # Main /\ t \in IoThreads
    BY DEF TakeAccept, At, ThreadInv, SetUpCalls, Threads
<1>4. event[t] = None
    BY <1>3, TypesOfThreads DEF ThreadInv, Working
<1>5. Completed(e) /\ ~Ahead(e) /\ e \notin posted /\ ~InHand(e)
      /\ ~(<<e, "ok">> \in completed /\ <<e, "failed">> \in completed)
    BY <1>1 DEF Completed, PlaceInv
<1>6. ThreadInv'
  <2>1. l \in Working
      BY DEF Working
  <2> QED BY <1>2, <1>3, <2>1 DEF ThreadInv, Moved, Threads
<1>7. \A f \in mAcceptEvents : /\ Ahead(f)' <=> Ahead(f)
                               /\ InHand(f)' <=> InHand(f) \/ f = e
                               /\ Completed(f)' <=> Completed(f) /\ f # e
  <2>1. \A f : Ahead(f)' <=> Ahead(f)
      BY <1>2, <1>3 DEF Ahead, Moved, Threads
  <2>2. \A f \in mAcceptEvents : InHand(f)' <=> InHand(f) \/ f = e
      BY <1>2, <1>4 DEF InHand, Moved, None, mAcceptEvents
  <2>3. \A f : Completed(f)' <=> Completed(f) /\ f # e
      BY <1>1, <1>5 DEF Completed
  <2> QED BY <2>1, <2>2, <2>3
<1>8. \A u, v \in Threads : u # v /\ event'[u] = event'[v] => event'[u] = None
    BY <1>2, <1>5 DEF Moved, PlaceInv, InHand
<1>9. \A f \in mAcceptEvents : ~(<<f, "ok">> \in completed' /\ <<f, "failed">> \in completed')
    BY <1>1 DEF PlaceInv
<1> QED BY <1>3, <1>5, <1>6, <1>7, <1>8, <1>9 DEF PlaceInv

\* The actions in which a thread goes on with the event it has.
LEMMA PlaceKept ==
    ASSUME TypeOK, ThreadInv, PlaceInv, NEW t \in Threads,
           \/ Setup(t) \/ SetupFails(t) \/ AddSession(t) \/ SetConnected(t)
           \/ Refuse(t) \/ RemoveSession(t) \/ Disconnect(t) \/ \E s \in mIsConnected : LoseConnection(t, s)
    PROVE  ThreadInv' /\ PlaceInv'
<1>1. posted' = posted /\ completed' = completed /\ t \in IoThreads /\ t # Main
    BY DEF Setup, SetupFails, AddSession, SetConnected, Refuse, RemoveSession, Disconnect,
           LoseConnection, acceptVars, At, ThreadInv, Threads, SetUpCalls
<1>2. pc[t] \notin Working => event[t] = None
    BY TypesOfThreads DEF ThreadInv
<1>3. \E l, s : /\ Goto(t, l, event[t], s) /\ l \in Working \cup {"port", "remove", "disconnect"}
                /\ l \in Working <=> pc[t] \in Working
  <2>1. CASE Setup(t) \/ SetupFails(t) \/ AddSession(t) \/ SetConnected(t) \/ Refuse(t)
      BY <2>1 DEF Setup, SetupFails, AddSession, SetConnected, Refuse, At, Working, AfterError, AfterConnect
  <2>2. CASE RemoveSession(t) \/ Disconnect(t) \/ \E s \in mIsConnected : LoseConnection(t, s)
    <3>1. pc[t] \in {"port", "remove", "disconnect"} /\ pc[t] \notin Working
        BY <2>2 DEF RemoveSession, Disconnect, LoseConnection, At, Working
    <3>2. event[t] = None
        BY <1>2, <3>1
    <3> QED BY <2>2, <3>1, <3>2
            DEF RemoveSession, Disconnect, LoseConnection, AfterExchange, Working
  <2> QED BY <2>1, <2>2
<1>4. PICK l, s : /\ Moved(t, l, event[t], s) /\ l \in Working \cup {"port", "remove", "disconnect"}
                  /\ l \in Working <=> pc[t] \in Working
    BY <1>3, GotoMoves
<1> QED BY <1>1, <1>4, EventKept

LEMMA SetUpMoves ==
    ASSUME TypeOK, ThreadInv, StartAccept
    PROVE  /\ UNCHANGED <<client, clientOf, acceptVars, serviceVars>>
           /\ pc[Main] \in SetUpCalls
           /\ \/ UNCHANGED threadVars
              \/ /\ UNCHANGED <<failures, crashed>>
                 /\ \/ \E l \in SetUpCalls : Moved(Main, l, None, None)
                    \/ Moved(Main, "register", 1, None)
<1>1. \E call \in SetUpCalls, then \in SetUpCalls \cup {"register"} : SetUp(call, then)
    BY DEF StartAccept, InitSockets, IoEventDispatcher, CreateSocket, RegisterListener,
           SetReuseAddress, SetLinger, BindAddress, Listen, SetUpCalls
<1>2. PICK call \in SetUpCalls, then \in SetUpCalls \cup {"register"} : SetUp(call, then)
    BY <1>1
<1>3. /\ UNCHANGED <<client, clientOf, acceptVars, serviceVars>> /\ pc[Main] \in SetUpCalls
      /\ \/ UNCHANGED threadVars
         \/ /\ Goto(Main, then, IF then = "register" THEN 1 ELSE None, None)
            /\ UNCHANGED <<failures, crashed>>
    BY <1>2 DEF SetUp, At
<1>4. ASSUME Goto(Main, then, IF then = "register" THEN 1 ELSE None, None)
      PROVE  Moved(Main, then, IF then = "register" THEN 1 ELSE None, None)
    BY <1>4, GotoMoves DEF Threads
<1> QED BY <1>3, <1>4 DEF SetUpCalls

LEMMA PlaceStep ==
    ASSUME TypeOK, ThreadInv, PlaceInv, Next
    PROVE  ThreadInv' /\ PlaceInv'
<1>1. CASE StartAccept
  <2>1. event[Main] = None
      BY <1>1, SetUpMoves, TypesOfThreads DEF ThreadInv, SetUpCalls, Working, Threads
  <2>2. posted' = posted /\ completed' = completed /\ pc[Main] \in SetUpCalls
      BY <1>1, SetUpMoves DEF acceptVars
  <2>3. CASE UNCHANGED threadVars
      BY <2>2, <2>3, PlaceUnchanged DEF threadVars
  <2>4. ASSUME NEW l \in SetUpCalls, Moved(Main, l, None, None)
        PROVE  ThreadInv' /\ PlaceInv'
      BY <2>1, <2>2, <2>4, EventKept DEF Threads, SetUpCalls, Working
  <2>5. CASE Moved(Main, "register", 1, None)
    <3>1. 1 \in mAcceptEvents /\ None \notin mAcceptEvents
        BY DEF mAcceptEvents, None
    <3>2. ThreadInv'
        BY <2>5, <3>1 DEF ThreadInv, Moved, Threads, Working
    <3>3. \A e \in mAcceptEvents : Ahead(e)
        BY <2>2 DEF Ahead
    <3>4. \A e \in mAcceptEvents : (Ahead(e)' <=> e # 1) /\ (InHand(e)' <=> e = 1)
      <4>1. pc'[Main] = "register" /\ event'[Main] = 1
          BY <2>5 DEF Moved
      <4>2. \A e \in mAcceptEvents : 1 \in 1..(e - 1) <=> e # 1
          BY DEF mAcceptEvents
      <4>3. \A e \in mAcceptEvents : InHand(e)' <=> InHand(e) \/ e = 1
          BY <2>1, <2>5 DEF InHand, Moved, Threads, None, mAcceptEvents
      <4> QED BY <3>3, <4>1, <4>2, <4>3 DEF Ahead, PlaceInv, SetUpCalls
    <3>5. \A e \in mAcceptEvents : e \notin posted' /\ ~Completed(e)'
          /\ ~(<<e, "ok">> \in completed' /\ <<e, "failed">> \in completed')
        BY <2>2, <3>3 DEF PlaceInv, Completed
    <3>6. \A u, v \in Threads : u # v /\ event'[u] = event'[v] => event'[u] = None
      <4>1. \A u \in Threads : event[u] # 1
          BY <3>1, <3>3 DEF PlaceInv, InHand
      <4>2. event'[Main] = 1 /\ \A u \in Threads : u # Main => event'[u] = event[u]
          BY <2>5 DEF Moved
      <4> QED BY <4>1, <4>2 DEF PlaceInv
    <3> QED BY <3>2, <3>4, <3>5, <3>6 DEF PlaceInv
  <2> QED BY <1>1, <2>3, <2>4, <2>5, SetUpMoves
<1>2. ASSUME NEW t \in IoThreads, Launch(t) PROVE ThreadInv' /\ PlaceInv'
  <2>1. pc[t] = "off" /\ Goto(t, "port", None, None) /\ posted' = posted /\ completed' = completed
      BY <1>2 DEF Launch, acceptVars
  <2>2. event[t] = None /\ t \in Threads /\ t # Main
      BY <2>1, TypesOfThreads DEF ThreadInv, Working, Threads
  <2> QED BY <2>1, <2>2, GotoMoves, EventKept DEF Working
<1>3. ASSUME NEW t \in Threads, RegisterAccept(t) PROVE ThreadInv' /\ PlaceInv'
    BY <1>3, RegisterPlaces
<1>4. ASSUME NEW t \in Threads, RegisterAcceptFails(t) \/ CreateSessionFails(t)
      PROVE  ThreadInv' /\ PlaceInv'
    BY <1>4, PlaceUnchanged DEF RegisterAcceptFails, CreateSessionFails, threadVars, acceptVars
<1>5. ASSUME NEW c \in Clients, ClientArrives(c) PROVE ThreadInv' /\ PlaceInv'
    BY <1>5, PlaceUnchanged DEF ClientArrives, threadVars, acceptVars
<1>6. ASSUME Kernel PROVE ThreadInv' /\ PlaceInv'
    BY <1>6, CompletePlaces DEF Kernel, AcceptFails, AcceptCompletes
<1>7. ASSUME NEW t \in Threads, NEW e \in mAcceptEvents, TakeAccept(t, e) PROVE ThreadInv' /\ PlaceInv'
    BY <1>7, TakePlaces
<1> QED BY <1>1, <1>2, <1>3, <1>4, <1>5, <1>6, <1>7, PlaceKept DEF Next, Step

-------------------------------------------------------------------------------
(* A session has one owner                                                 *)

SessionInv == EventSessionInv /\ ClientInv /\ ThreadSessionInv /\ ServiceInv

\* A thread that goes on with its session, or lays it down, leaves the sessions
\* as they are.
LEMMA SessionsKept ==
    ASSUME TypeOK, SessionInv, NEW t \in Threads, NEW l, NEW e, NEW s, Moved(t, l, e, s),
           UNCHANGED <<client, clientOf, acceptVars, serviceVars>>,
           pc[t] \notin {"setConnected", "remove"},
           l \in Holding => pc[t] = "setup" /\ l = "addSession" /\ s = session[t]
    PROVE  SessionInv'
<1>1. EventSessionInv' /\ ClientInv'
    BY DEF SessionInv, EventSessionInv, ClientInv, acceptVars
<1>2. \A u \in Threads : pc'[u] \in Holding =>
          /\ pc[u] \in Holding /\ session'[u] = session[u]
          /\ pc'[u] \in {"setup", "addSession"} <=> pc[u] \in {"setup", "addSession"}
          /\ pc'[u] \in {"setConnected", "remove"} <=> pc[u] \in {"setConnected", "remove"}
    BY DEF Moved, Holding
<1>3. ThreadSessionInv'
  <2>1. \A u \in Threads : pc'[u] \in {"setup", "addSession", "setConnected", "remove"} => pc'[u] \in Holding
      BY DEF Holding
  <2> QED BY <1>2, <2>1 DEF SessionInv, ThreadSessionInv, acceptVars, serviceVars
<1>4. ServiceInv'
    BY DEF SessionInv, ServiceInv, acceptVars, serviceVars, Moved, Threads
<1> QED BY <1>1, <1>3, <1>4 DEF SessionInv

LEMMA SessionsUnchanged ==
    ASSUME SessionInv, UNCHANGED <<client, clientOf, acceptVars, serviceVars, threadVars>>
    PROVE  SessionInv'
BY DEF SessionInv, EventSessionInv, ClientInv, ThreadSessionInv, ServiceInv,
       acceptVars, serviceVars, threadVars

\* A session in no one's hands, with a client that is nowhere else.
LEMMA CompleteSessions ==
    ASSUME TypeOK, PlaceInv, SessionInv, NEW e \in mAcceptEvents, NEW c \in Clients, AcceptCompletes(e, c)
    PROVE  SessionInv' /\ clientOf' \in Seq(Clients \cup {NoClient}) /\ Len(clientOf') = Len(clientOf)
<1> DEFINE i == eventSession[e]
<1>1. /\ e \in posted /\ client[c] = "waiting" /\ client' = [client EXCEPT ![c] = "accepted"]
      /\ clientOf' = [clientOf EXCEPT ![i] = c] /\ posted' = posted \ {e}
      /\ completed' = completed \cup {<<e, "ok">>}
      /\ UNCHANGED <<eventSession, serviceVars, threadVars>>
    BY DEF AcceptCompletes
<1>2. i \in 1..Len(clientOf) /\ clientOf[i] = NoClient
  <2>1. i \in 0..Len(clientOf) /\ i # None
      BY <1>1 DEF TypeOK, SessionInv, EventSessionInv
  <2> QED BY <1>1, <2>1, TypesOfSessions DEF SessionInv, EventSessionInv
<1>3. /\ clientOf' \in Seq(Clients \cup {NoClient}) /\ Len(clientOf') = Len(clientOf)
      /\ \A j \in 1..Len(clientOf) : clientOf'[j] = IF j = i THEN c ELSE clientOf[j]
    BY <1>1, <1>2, ExceptSeq DEF TypeOK
<1>4. client'[c] = "accepted" /\ \A d \in Clients : d # c => client'[d] = client[d]
    BY <1>1 DEF TypeOK
<1>5. c # NoClient /\ \A j \in 1..Len(clientOf) : clientOf[j] # c
    BY <1>1, ClientsAssumption DEF SessionInv, ClientInv
<1>6. \A j \in 1..Len(clientOf) : clientOf[j] # NoClient =>
          j # i /\ clientOf'[j] = clientOf[j] /\ client'[clientOf[j]] = client[clientOf[j]]
    BY <1>2, <1>3, <1>4, <1>5, TypesOfSessions
<1>7. ClientInv'
  <2>1. \A j \in 1..Len(clientOf) : clientOf'[j] # NoClient => client'[clientOf'[j]] \notin {"away", "waiting"}
      BY <1>3, <1>4, <1>6 DEF SessionInv, ClientInv
  <2>2. \A j, k \in 1..Len(clientOf) : j # k /\ clientOf'[j] = clientOf'[k] => clientOf'[j] = NoClient
      BY <1>3, <1>5 DEF SessionInv, ClientInv
  <2> QED BY <1>3, <2>1, <2>2 DEF ClientInv
<1>8. EventSessionInv'
  <2>1. ASSUME NEW f \in posted'
        PROVE  eventSession'[f] # None /\ clientOf'[eventSession'[f]] = NoClient
    <3>1. f \in posted /\ f # e /\ f \in mAcceptEvents /\ eventSession[f] # None
        BY <1>1, <2>1 DEF TypeOK, SessionInv, EventSessionInv
    <3>2. eventSession[f] # i /\ eventSession[f] \in 1..Len(clientOf)
        BY <3>1, TypesOfSessions DEF TypeOK, SessionInv, EventSessionInv
    <3> QED BY <1>1, <1>3, <3>1, <3>2 DEF SessionInv, EventSessionInv
  <2>2. ASSUME NEW f \in mAcceptEvents, <<f, "ok">> \in completed'
        PROVE  /\ eventSession'[f] # None /\ clientOf'[eventSession'[f]] # NoClient
               /\ client'[clientOf'[eventSession'[f]]] = "accepted"
    <3>1. CASE f = e
        BY <1>1, <1>2, <1>3, <1>4, <1>5, <3>1 DEF None
    <3>2. CASE f # e
      <4>1. <<f, "ok">> \in completed
          BY <1>1, <2>2, <3>2
      <4>2. eventSession[f] \in 1..Len(clientOf) /\ clientOf[eventSession[f]] # NoClient
          BY <4>1, TypesOfSessions DEF TypeOK, SessionInv, EventSessionInv
      <4> QED BY <1>1, <1>6, <4>1, <4>2 DEF SessionInv, EventSessionInv, None
    <3> QED BY <3>1, <3>2
  <2> QED BY <1>1, <2>1, <2>2 DEF SessionInv, EventSessionInv
<1>9. ThreadSessionInv'
  <2>1. \A t \in Threads : pc[t] \in {"setup", "addSession"} => session[t] \in 1..Len(clientOf)
      BY TypesOfSessions DEF TypeOK, SessionInv, ThreadSessionInv, Holding
  <2> QED BY <1>1, <1>6, <2>1 DEF SessionInv, ThreadSessionInv, threadVars, serviceVars
<1>10. ServiceInv'
    BY <1>1, <1>6, TypesOfSessions DEF SessionInv, ServiceInv, threadVars, serviceVars
<1> QED BY <1>3, <1>7, <1>8, <1>9, <1>10 DEF SessionInv

\* A client that has no session yet changes.
LEMMA ClientChanges ==
    ASSUME TypeOK, SessionInv, NEW c \in Clients, client[c] \in {"away", "waiting"},
           \A d \in Clients : d # c => client'[d] = client[d],
           UNCHANGED <<clientOf, eventSession, serviceVars, threadVars>>,
           posted' \subseteq posted,
           \A e \in mAcceptEvents : <<e, "ok">> \in completed' => <<e, "ok">> \in completed
    PROVE  SessionInv'
<1>2. \A i \in 1..Len(clientOf) : clientOf[i] # NoClient => client'[clientOf[i]] = client[clientOf[i]]
    BY TypesOfSessions DEF SessionInv, ClientInv
<1>3. ClientInv'
    BY <1>2 DEF SessionInv, ClientInv
<1>4. \A e \in mAcceptEvents : <<e, "ok">> \in completed => eventSession[e] \in 1..Len(clientOf)
    BY TypesOfSessions DEF TypeOK, SessionInv, EventSessionInv
<1>5. EventSessionInv'
    BY <1>2, <1>4 DEF SessionInv, EventSessionInv
<1>6. ThreadSessionInv'
  <2>1. \A t \in Threads : pc[t] \in {"setup", "addSession"} => session[t] \in 1..Len(clientOf)
      BY TypesOfSessions DEF TypeOK, SessionInv, ThreadSessionInv, Holding
  <2> QED BY <1>2, <2>1 DEF SessionInv, ThreadSessionInv, threadVars, serviceVars
<1>7. ServiceInv'
    BY <1>2, TypesOfSessions DEF SessionInv, ServiceInv, threadVars, serviceVars
<1> QED BY <1>3, <1>5, <1>6, <1>7 DEF SessionInv

\* RegisterAccept makes a session that only its event has.
LEMMA RegisterSessions ==
    ASSUME TypeOK, ThreadInv, PlaceInv, SessionInv, NEW t \in Threads,
           RegisterAccept(t) \/ RegisterAcceptFails(t)
    PROVE  /\ SessionInv' /\ clientOf' \in Seq(Clients \cup {NoClient})
           /\ Len(clientOf') = Len(clientOf) + 1
           /\ eventSession' \in [mAcceptEvents -> 0..Len(clientOf')]
<1> DEFINE n == Len(clientOf) + 1
           ev == event[t]
<1>1. /\ pc[t] = "register" /\ clientOf' = Append(clientOf, NoClient)
      /\ UNCHANGED <<client, completed, serviceVars>>
    BY DEF RegisterAccept, RegisterAcceptFails, At
<1>2. ev \in mAcceptEvents /\ ev \notin posted /\ ~Completed(ev)
    BY <1>1 DEF ThreadInv, Working, PlaceInv, InHand
<1>3. /\ clientOf' \in Seq(Clients \cup {NoClient}) /\ Len(clientOf') = n /\ n \in Nat /\ n # None
      /\ \A i \in 1..Len(clientOf) : clientOf'[i] = clientOf[i]
      /\ clientOf'[n] = NoClient
    BY <1>1, AppendProperties, TypesOfSessions DEF TypeOK, None
<1>4. /\ \A f \in mAcceptEvents : f # ev => eventSession'[f] = eventSession[f]
      /\ eventSession'[ev] \in {None, n} /\ (posted' \subseteq posted \cup {ev})
      /\ (eventSession'[ev] = n \/ ev \notin posted')
    BY <1>2 DEF TypeOK, RegisterAccept, RegisterAcceptFails, AcceptAsync, NewSession
<1>5. eventSession' \in [mAcceptEvents -> 0..n]
  <2>1. eventSession \in [mAcceptEvents -> 0..n] /\ None \in 0..n /\ n \in 0..n
      BY <1>3, TypesOfSessions DEF TypeOK, None
  <2> QED BY <2>1 DEF RegisterAccept, RegisterAcceptFails, NewSession
<1>6. \A i : i \in 0..Len(clientOf) => i # n
    BY TypesOfSessions
<1>7. \A f \in mAcceptEvents : eventSession[f] \in 0..Len(clientOf)
    BY DEF TypeOK
<1>8. ClientInv'
  <2>1. \A i \in 1..n : i \in 1..Len(clientOf) \/ i = n
      BY TypesOfSessions
  <2>2. \A i \in 1..n : clientOf'[i] # NoClient => i \in 1..Len(clientOf) /\ clientOf'[i] = clientOf[i]
      BY <1>3, <2>1
  <2>3. \A i \in 1..n : clientOf'[i] # NoClient => client'[clientOf'[i]] \notin {"away", "waiting"}
      BY <1>1, <2>2 DEF SessionInv, ClientInv
  <2>4. \A i, j \in 1..n : i # j /\ clientOf'[i] = clientOf'[j] => clientOf'[i] = NoClient
      BY <2>2 DEF SessionInv, ClientInv
  <2> QED BY <1>3, <2>3, <2>4 DEF ClientInv
<1>9. EventSessionInv'
  <2>1. \A e, f \in mAcceptEvents : e # f /\ eventSession'[e] = eventSession'[f] => eventSession'[e] = None
      BY <1>3, <1>4, <1>6, <1>7 DEF SessionInv, EventSessionInv
  <2>2. ASSUME NEW f \in posted'
        PROVE  eventSession'[f] # None /\ clientOf'[eventSession'[f]] = NoClient
    <3>1. CASE f = ev
        BY <1>3, <1>4, <3>1
    <3>2. CASE f # ev
      <4>1. f \in posted /\ f \in mAcceptEvents
          BY <1>4, <3>2 DEF TypeOK
      <4>2. eventSession[f] # None /\ eventSession[f] \in 1..Len(clientOf)
          BY <1>7, <4>1, TypesOfSessions DEF SessionInv, EventSessionInv
      <4> QED BY <1>3, <1>4, <3>2, <4>1, <4>2 DEF SessionInv, EventSessionInv
    <3> QED BY <3>1, <3>2
  <2>3. ASSUME NEW f \in mAcceptEvents, <<f, "ok">> \in completed'
        PROVE  /\ eventSession'[f] # None /\ clientOf'[eventSession'[f]] # NoClient
               /\ client'[clientOf'[eventSession'[f]]] = "accepted"
    <3>1. f # ev /\ <<f, "ok">> \in completed
        BY <1>1, <1>2, <2>3 DEF Completed
    <3>2. eventSession'[f] = eventSession[f] /\ eventSession[f] # None
        BY <1>4, <3>1 DEF SessionInv, EventSessionInv
    <3>3. eventSession[f] \in 1..Len(clientOf)
        BY <1>7, <3>2, TypesOfSessions
    <3> QED BY <1>1, <1>3, <3>1, <3>2, <3>3 DEF SessionInv, EventSessionInv
  <2> QED BY <2>1, <2>2, <2>3 DEF EventSessionInv
<1>10. \A u \in Threads : pc'[u] \in Holding => pc'[u] = pc[u] /\ session'[u] = session[u]
  <2>1. CASE RegisterAcceptFails(t)
      BY <2>1 DEF RegisterAcceptFails, threadVars
  <2>2. CASE RegisterAccept(t)
    <3>1. \E l \in {"port", "register", "launch"} : \E e : Goto(t, l, e, None)
        BY <2>2 DEF RegisterAccept, Registered
    <3> QED BY <3>1, GotoMoves DEF Moved, Holding
  <2> QED BY <2>1, <2>2
<1>11. \A u \in Threads : pc[u] \in {"setConnected", "remove"} => pc'[u] = pc[u] /\ session'[u] = session[u]
  <2>1. CASE RegisterAcceptFails(t)
      BY <2>1 DEF RegisterAcceptFails, threadVars
  <2>2. CASE RegisterAccept(t)
    <3>1. \E l \in {"port", "register", "launch"} : \E e : Goto(t, l, e, None)
        BY <2>2 DEF RegisterAccept, Registered
    <3> QED BY <1>1, <3>1, GotoMoves DEF Moved
  <2> QED BY <2>1, <2>2
<1>12. ThreadSessionInv'
  <2>1. \A u \in Threads : pc[u] \in Holding => session[u] \in 1..Len(clientOf)
      BY TypesOfSessions DEF TypeOK, SessionInv, ThreadSessionInv
  <2>2. \A u \in Threads, e \in mAcceptEvents : pc'[u] \in Holding => eventSession'[e] # session'[u]
      BY <1>3, <1>4, <1>6, <1>10, <2>1, TypesOfSessions DEF SessionInv, ThreadSessionInv
  <2>3. \A u \in Threads : pc'[u] \in {"setup", "addSession"} =>
          clientOf'[session'[u]] # NoClient /\ client'[clientOf'[session'[u]]] = "accepted"
      BY <1>1, <1>3, <1>10, <2>1 DEF SessionInv, ThreadSessionInv, Holding
  <2>4. \A u \in Threads : pc'[u] \in {"setConnected", "remove"} => session'[u] \in mSessions' \ mIsConnected'
      BY <1>1, <1>10 DEF SessionInv, ThreadSessionInv, Holding, serviceVars
  <2>5. \A u \in Threads : pc'[u] \in Holding => session'[u] # None
      BY <1>10 DEF SessionInv, ThreadSessionInv
  <2>6. \A u, v \in Threads : u # v /\ pc'[u] \in Holding /\ pc'[v] \in Holding => session'[u] # session'[v]
      BY <1>10 DEF SessionInv, ThreadSessionInv
  <2> QED BY <2>2, <2>3, <2>4, <2>5, <2>6 DEF ThreadSessionInv
<1>13. ServiceInv'
  <2>1. \A s \in mSessions : s \in 1..Len(clientOf)
      BY TypesOfSessions
  <2>2. \A s \in mSessions, e \in mAcceptEvents : eventSession'[e] # s
      BY <1>3, <1>4, <1>6, <2>1, TypesOfSessions DEF SessionInv, ServiceInv, None
  <2> QED BY <1>1, <1>3, <1>11, <2>1, <2>2 DEF SessionInv, ServiceInv, serviceVars, Threads
<1> QED BY <1>3, <1>5, <1>8, <1>9, <1>12, <1>13 DEF SessionInv

\* The session goes from the event to the thread.
LEMMA TakeSessions ==
    ASSUME TypeOK, PlaceInv, SessionInv, NEW t \in Threads, NEW e \in mAcceptEvents, TakeAccept(t, e)
    PROVE  SessionInv'
<1>1. /\ pc[t] = "port" /\ UNCHANGED <<client, clientOf, posted, serviceVars>>
      /\ eventSession'[e] = None
      /\ \A f \in mAcceptEvents : f # e => eventSession'[f] = eventSession[f]
    BY DEF TakeAccept, At, TypeOK
<1>2. PICK r \in {"ok", "failed"}, l \in {"setup", "register"}, s \in {None, eventSession[e]} :
         /\ <<e, r>> \in completed /\ completed' = completed \ {<<e, r>>} /\ Moved(t, l, e, s)
         /\ l = "setup" => r = "ok" /\ s = eventSession[e]
  <2>1. \E r \in {"ok", "failed"} :
           /\ <<e, r>> \in completed /\ completed' = completed \ {<<e, r>>}
           /\ IF r = "ok" THEN Goto(t, "setup", e, eventSession[e]) ELSE Goto(t, "register", e, None)
      BY DEF TakeAccept, AfterError
  <2> QED BY <2>1, GotoMoves
<1>3. <<e, "ok">> \notin completed' /\ completed' \subseteq completed /\ e \notin posted
    BY <1>2 DEF PlaceInv, Completed
<1>4. ClientInv'
    BY <1>1 DEF SessionInv, ClientInv
<1>5. EventSessionInv'
  <2>1. \A f, g \in mAcceptEvents : f # g /\ eventSession'[f] = eventSession'[g] => eventSession'[f] = None
      BY <1>1 DEF SessionInv, EventSessionInv
  <2>2. \A f \in posted' : eventSession'[f] # None /\ clientOf'[eventSession'[f]] = NoClient
    <3>1. \A f \in posted' : f \in posted /\ f # e /\ f \in mAcceptEvents
        BY <1>1, <1>3 DEF TypeOK
    <3> QED BY <1>1, <3>1 DEF SessionInv, EventSessionInv
  <2>3. ASSUME NEW f \in mAcceptEvents, <<f, "ok">> \in completed'
        PROVE  /\ eventSession'[f] # None /\ clientOf'[eventSession'[f]] # NoClient
               /\ client'[clientOf'[eventSession'[f]]] = "accepted"
    <3>1. f # e /\ <<f, "ok">> \in completed
        BY <1>3, <2>3
    <3> QED BY <1>1, <3>1 DEF SessionInv, EventSessionInv
  <2> QED BY <2>1, <2>2, <2>3 DEF EventSessionInv
<1>6. ServiceInv'
  <2>1. \A x \in mSessions, f \in mAcceptEvents : eventSession'[f] # x
      BY <1>1, TypesOfSessions DEF SessionInv, ServiceInv, None
  <2> QED BY <1>1, <1>2, <2>1 DEF SessionInv, ServiceInv, serviceVars, Moved, Threads
<1>7. \A u \in Threads : u # t => pc'[u] = pc[u] /\ session'[u] = session[u]
    BY <1>2 DEF Moved
<1>8. CASE l = "register"
  <2>1. \A u \in Threads : pc'[u] \in Holding => u # t
      BY <1>2, <1>8 DEF Moved, Holding
  <2>2. \A u \in Threads : pc'[u] \in {"setup", "addSession", "setConnected", "remove"} => u # t
      BY <1>2, <1>8 DEF Moved
  <2>3. \A u \in Threads, f \in mAcceptEvents : pc'[u] \in Holding => eventSession'[f] # session'[u]
      BY <1>1, <1>7, <2>1 DEF SessionInv, ThreadSessionInv
  <2>4. ThreadSessionInv'
      BY <1>1, <1>7, <2>1, <2>2, <2>3 DEF SessionInv, ThreadSessionInv, serviceVars
  <2> QED BY <1>4, <1>5, <1>6, <2>4 DEF SessionInv
<1>9. CASE l = "setup"
  <2>1. /\ pc'[t] = "setup" /\ session'[t] = eventSession[e] /\ eventSession[e] # None
        /\ clientOf[eventSession[e]] # NoClient /\ client[clientOf[eventSession[e]]] = "accepted"
      BY <1>2, <1>9 DEF Moved, SessionInv, EventSessionInv
  <2>2. \A f \in mAcceptEvents : eventSession'[f] # eventSession[e]
      BY <1>1, <2>1 DEF SessionInv, EventSessionInv
  <2>3. \A u \in Threads : pc'[u] \in Holding => session'[u] # None
      BY <1>7, <2>1 DEF SessionInv, ThreadSessionInv
  <2>4. \A u \in Threads : pc'[u] \in {"setup", "addSession"} =>
            clientOf'[session'[u]] # NoClient /\ client'[clientOf'[session'[u]]] = "accepted"
      BY <1>1, <1>7, <2>1 DEF SessionInv, ThreadSessionInv
  <2>5. \A u \in Threads : pc'[u] \in {"setConnected", "remove"} => session'[u] \in mSessions' \ mIsConnected'
      BY <1>1, <1>7, <2>1 DEF SessionInv, ThreadSessionInv, serviceVars
  <2>6. \A u, v \in Threads : u # v /\ pc'[u] \in Holding /\ pc'[v] \in Holding => session'[u] # session'[v]
      BY <1>7, <2>1 DEF SessionInv, ThreadSessionInv
  <2>7. \A u \in Threads, f \in mAcceptEvents : pc'[u] \in Holding => eventSession'[f] # session'[u]
      BY <1>1, <1>7, <2>1, <2>2 DEF SessionInv, ThreadSessionInv
  <2>8. ThreadSessionInv'
      BY <2>3, <2>4, <2>5, <2>6, <2>7 DEF ThreadSessionInv
  <2> QED BY <1>4, <1>5, <1>6, <2>8 DEF SessionInv
<1> QED BY <1>8, <1>9

\* What a thread may do with a session it holds: the session's client changes,
\* and the session comes to the service or leaves it.
LEMMA HolderSteps ==
    ASSUME TypeOK, SessionInv, NEW t \in Threads, pc[t] \in Holding, NEW l, NEW e, NEW s,
           Moved(t, l, e, s), UNCHANGED <<clientOf, acceptVars>>,
           l \in Holding => l = "setConnected" /\ s = session[t],
           \A c \in Clients : c # clientOf[session[t]] => client'[c] = client[c],
           client'[clientOf[session[t]]] \notin {"away", "waiting"},
           mSessions' \ {session[t]} = mSessions \ {session[t]},
           mIsConnected' \ {session[t]} = mIsConnected \ {session[t]},
           session[t] \in mSessions' =>
              client'[clientOf[session[t]]] = "served" /\ (l = "setConnected" \/ session[t] \in mIsConnected'),
           session[t] \in mIsConnected' => session[t] \in mSessions' /\ l \notin Holding,
           l = "setConnected" => session[t] \in mSessions' /\ t \in IoThreads
    PROVE  SessionInv'
<1> DEFINE x == session[t]
           d == clientOf[x]
<1>1. x \in 1..Len(clientOf)
    BY TypesOfSessions DEF TypeOK, SessionInv, ThreadSessionInv
<1>2. d # NoClient
    BY DEF SessionInv, ThreadSessionInv, ServiceInv, Holding
<1>3. \A i \in 1..Len(clientOf) : i # x /\ clientOf[i] # NoClient =>
          clientOf[i] # d /\ client'[clientOf[i]] = client[clientOf[i]]
    BY <1>1, <1>2, TypesOfSessions DEF SessionInv, ClientInv
<1>4. ClientInv'
    BY <1>1, <1>3 DEF SessionInv, ClientInv
<1>5. \A f \in mAcceptEvents : eventSession[f] # x /\ eventSession[f] \in 0..Len(clientOf)
    BY DEF SessionInv, ThreadSessionInv, TypeOK
<1>6. EventSessionInv'
    BY <1>3, <1>5, TypesOfSessions DEF SessionInv, EventSessionInv, acceptVars
<1>7. \A u \in Threads : u # t => pc'[u] = pc[u] /\ session'[u] = session[u]
    BY DEF Moved
<1>8. \A u \in Threads : u # t /\ pc[u] \in Holding => session[u] # x /\ session[u] \in 1..Len(clientOf)
    BY TypesOfSessions DEF TypeOK, SessionInv, ThreadSessionInv
<1>9. pc'[t] \in Holding => pc'[t] = "setConnected" /\ session'[t] = x
    BY DEF Moved
<1>10. ThreadSessionInv'
  <2>1. \A u \in Threads : pc'[u] \in Holding => session'[u] # None
      BY <1>1, <1>7, <1>9 DEF SessionInv, ThreadSessionInv
  <2>2. \A u \in Threads : pc'[u] \in {"setup", "addSession"} =>
            clientOf'[session'[u]] # NoClient /\ client'[clientOf'[session'[u]]] = "accepted"
      BY <1>3, <1>7, <1>8, <1>9 DEF SessionInv, ThreadSessionInv, Holding
  <2>3. \A u \in Threads : pc'[u] \in {"setConnected", "remove"} => session'[u] \in mSessions' \ mIsConnected'
    <3>1. CASE pc'[t] \in {"setConnected", "remove"}
      <4>1. l = "setConnected" /\ session'[t] = x
          BY <1>9, <3>1 DEF Holding, Moved
      <4> QED BY <1>7, <1>8, <4>1 DEF SessionInv, ThreadSessionInv, Holding
    <3>2. CASE pc'[t] \notin {"setConnected", "remove"}
        BY <1>7, <1>8, <3>2 DEF SessionInv, ThreadSessionInv, Holding
    <3> QED BY <3>1, <3>2
  <2>4. \A u, v \in Threads : u # v /\ pc'[u] \in Holding /\ pc'[v] \in Holding => session'[u] # session'[v]
      BY <1>7, <1>8, <1>9 DEF SessionInv, ThreadSessionInv
  <2>5. \A u \in Threads, f \in mAcceptEvents : pc'[u] \in Holding => eventSession'[f] # session'[u]
      BY <1>5, <1>7, <1>9 DEF SessionInv, ThreadSessionInv, acceptVars
  <2> QED BY <2>1, <2>2, <2>3, <2>4, <2>5 DEF ThreadSessionInv
<1>11. ServiceInv'
  <2>1. mIsConnected' \subseteq mSessions'
      BY DEF SessionInv, ServiceInv
  <2>2. \A r \in mSessions' : r # x => r \in mSessions /\ r \in 1..Len(clientOf)
      BY TypesOfSessions
  <2>3. \A r \in mSessions' : clientOf'[r] # NoClient /\ client'[clientOf'[r]] = "served"
      BY <1>2, <1>3, <2>2 DEF SessionInv, ServiceInv
  <2>4. ASSUME NEW r \in mSessions'
        PROVE  \/ r \in mIsConnected'
               \/ \E u \in IoThreads : session'[u] = r /\ pc'[u] \in {"setConnected", "remove"}
    <3>1. CASE r = x
        BY <1>9, <2>4, <3>1 DEF Moved, Holding
    <3>2. CASE r # x
      <4>1. CASE r \in mIsConnected
          BY <3>2, <4>1
      <4>2. ASSUME NEW u \in IoThreads, session[u] = r, pc[u] \in {"setConnected", "remove"}
            PROVE  session'[u] = r /\ pc'[u] \in {"setConnected", "remove"}
          BY <1>7, <3>2, <4>2 DEF Threads
      <4>3. r \in mSessions
          BY <2>2, <3>2
      <4> QED BY <4>1, <4>2, <4>3 DEF SessionInv, ServiceInv
    <3> QED BY <3>1, <3>2
  <2>5. \A r \in mSessions', f \in mAcceptEvents : eventSession'[f] # r
      BY <1>5, <2>2 DEF SessionInv, ServiceInv, acceptVars
  <2> QED BY <2>1, <2>3, <2>4, <2>5 DEF ServiceInv
<1> QED BY <1>4, <1>6, <1>10, <1>11 DEF SessionInv

-------------------------------------------------------------------------------
(* The count, the types and the invariant                                  *)

\* One client begins or ends to be served, as a session comes or goes.
LEMMA CountStep ==
    ASSUME TypeOK, CountInv, NEW c \in Clients, NEW s,
           \/ /\ client[c] # "served" /\ client' = [client EXCEPT ![c] = "served"]
              /\ s \notin mSessions /\ mSessions' = mSessions \cup {s}
              /\ mSessionCount < maxSessionCount /\ mSessionCount' = mSessionCount + 1
           \/ /\ client[c] = "served" /\ client' = [client EXCEPT ![c] = "left"]
              /\ s \in mSessions /\ mSessions' = mSessions \ {s}
              /\ mSessionCount' = mSessionCount - 1
    PROVE  CountInv' /\ mSessionCount' \in 0..maxSessionCount
<1>1. IsFiniteSet(Served) /\ IsFiniteSet(mSessions)
  <2>1. Served \subseteq Clients
      BY DEF Served
  <2> QED BY <2>1, ClientsAssumption, FS_Subset, TypesOfSessions
<1>2. \A d \in Clients : d # c => client'[d] = client[d]
    BY DEF TypeOK
<1> mSessionCount \in Nat /\ mSessionCount \in 0..maxSessionCount
    BY DEF TypeOK
<1>3. CASE s \notin mSessions
  <2>1. client'[c] = "served" /\ client[c] # "served"
      BY <1>3 DEF TypeOK
  <2>2. Served' = Served \cup {c} /\ c \notin Served
      BY <1>2, <2>1 DEF Served
  <2>3. Cardinality(Served') = Cardinality(Served) + 1
        /\ Cardinality(mSessions') = Cardinality(mSessions) + 1
      BY <1>1, <1>3, <2>2, FS_AddElement
  <2>4. mSessionCount' = mSessionCount + 1 /\ mSessionCount < maxSessionCount
      BY <1>3
  <2>5. mSessionCount' \in 0..maxSessionCount
      BY <2>4
  <2> QED BY <2>3, <2>4, <2>5 DEF CountInv
<1>4. CASE s \in mSessions
  <2>1. client'[c] = "left" /\ client[c] = "served"
      BY <1>4 DEF TypeOK
  <2>2. Served' = Served \ {c} /\ c \in Served
      BY <1>2, <2>1 DEF Served
  <2>3. Cardinality(Served') = Cardinality(Served) - 1
        /\ Cardinality(mSessions') = Cardinality(mSessions) - 1
      BY <1>1, <1>4, <2>2, FS_RemoveElement
  <2>4. mSessionCount # 0
      BY <1>1, <2>2, FS_EmptySet DEF CountInv
  <2>5. mSessionCount' = mSessionCount - 1 /\ mSessionCount' \in 0..maxSessionCount
      BY <1>4, <2>4
  <2> QED BY <2>3, <2>5 DEF CountInv
<1> QED BY <1>3, <1>4

LEMMA CountKept ==
    ASSUME TypeOK, CountInv, UNCHANGED <<mSessions, mSessionCount>>,
           \A c \in Clients : client'[c] = "served" <=> client[c] = "served"
    PROVE  CountInv'
<1>1. Served' = Served
    BY DEF Served
<1> QED BY <1>1 DEF CountInv

\* The four steps that change a session's client or what the service has of it.
LEMMA SetupFailsStep ==
    ASSUME TypeOK, SessionInv, CountInv, NEW t \in Threads, SetupFails(t)
    PROVE  /\ SessionInv' /\ CountInv'
           /\ \E c \in Clients : client[c] = "accepted" /\ client' = [client EXCEPT ![c] = "failed"]
<1> DEFINE d == clientOf[session[t]]
<1>1. /\ pc[t] = "setup" /\ client' = [client EXCEPT ![d] = "failed"]
      /\ UNCHANGED <<clientOf, acceptVars, serviceVars>>
      /\ Goto(t, "register", event[t], None)
    BY DEF SetupFails, At, AfterError
<1>2. d \in Clients /\ client[d] = "accepted"
    BY <1>1, TypesOfSessions DEF TypeOK, SessionInv, ThreadSessionInv, Holding
<1>3. client'[d] = "failed" /\ \A c \in Clients : c # d => client'[c] = client[c]
    BY <1>1, <1>2 DEF TypeOK
<1>4. session[t] \notin mSessions
    BY <1>2 DEF SessionInv, ServiceInv
<1>5. SessionInv'
  <2>1. Moved(t, "register", event[t], None)
      BY <1>1, GotoMoves
  <2>2. "register" \notin Holding /\ pc[t] \in Holding
      BY <1>1 DEF Holding
  <2>3. session[t] \notin mIsConnected
      BY <1>4 DEF SessionInv, ServiceInv
  <2> QED BY <1>1, <1>3, <1>4, <2>1, <2>2, <2>3, HolderSteps DEF serviceVars
<1>6. CountInv'
    BY <1>1, <1>2, <1>3, CountKept DEF serviceVars
<1> QED BY <1>1, <1>2, <1>5, <1>6

LEMMA AddSessionStep ==
    ASSUME TypeOK, ThreadInv, SessionInv, CountInv, NEW t \in Threads, AddSession(t)
    PROVE  /\ SessionInv' /\ CountInv' /\ mSessionCount' \in 0..maxSessionCount
           /\ mSessions' \subseteq mSessions \cup {session[t]}
           /\ \E c \in Clients :
                /\ client[c] = "accepted"
                /\ \/ client' = [client EXCEPT ![c] = "served"] /\ mSessionCount < maxSessionCount
                   \/ client' = [client EXCEPT ![c] = "refused"] /\ mSessionCount = maxSessionCount
<1> DEFINE d == clientOf[session[t]]
<1>1. pc[t] = "addSession" /\ UNCHANGED <<clientOf, acceptVars, mIsConnected>> /\ t \in IoThreads
    BY DEF AddSession, At, ThreadInv, Threads, SetUpCalls
<1>2. d \in Clients /\ client[d] = "accepted" /\ pc[t] \in Holding
    BY <1>1, TypesOfSessions DEF TypeOK, SessionInv, ThreadSessionInv, Holding
<1>3. session[t] \notin mSessions /\ session[t] \notin mIsConnected
    BY <1>2 DEF SessionInv, ServiceInv
<1>4. mSessionCount \in Nat /\ mSessionCount <= maxSessionCount /\ mSessionCount \in 0..maxSessionCount
    BY DEF TypeOK
<1>5. CASE IsFull
  <2>1. /\ client' = [client EXCEPT ![d] = "refused"] /\ Goto(t, "refuse", event[t], session[t])
        /\ UNCHANGED <<mSessions, mSessionCount>>
      BY <1>5 DEF AddSession
  <2>2. client'[d] = "refused" /\ \A c \in Clients : c # d => client'[c] = client[c]
      BY <1>2, <2>1 DEF TypeOK
  <2>3. SessionInv'
    <3>1. Moved(t, "refuse", event[t], session[t]) /\ "refuse" \notin Holding
        BY <2>1, GotoMoves DEF Holding
    <3> QED BY <1>1, <1>2, <1>3, <2>1, <2>2, <3>1, HolderSteps
  <2>4. CountInv'
      BY <1>2, <2>1, <2>2, CountKept
  <2>5. mSessionCount = maxSessionCount
      BY <1>4, <1>5 DEF IsFull
  <2>6. mSessionCount' \in 0..maxSessionCount /\ mSessions' \subseteq mSessions \cup {session[t]}
      BY <1>4, <2>1
  <2> HIDE DEF d
  <2> QED BY <1>2, <2>1, <2>3, <2>4, <2>5, <2>6
<1>6. CASE ~IsFull
  <2>1. /\ client' = [client EXCEPT ![d] = "served"] /\ Goto(t, "setConnected", event[t], session[t])
        /\ mSessions' = mSessions \cup {session[t]} /\ mSessionCount' = mSessionCount + 1
      BY <1>3, <1>6 DEF AddSession
  <2>2. client'[d] = "served" /\ \A c \in Clients : c # d => client'[c] = client[c]
      BY <1>2, <2>1 DEF TypeOK
  <2>3. SessionInv'
    <3>1. Moved(t, "setConnected", event[t], session[t])
        BY <2>1, GotoMoves
    <3> QED BY <1>1, <1>2, <1>3, <2>1, <2>2, <3>1, HolderSteps
  <2>4. mSessionCount < maxSessionCount
      BY <1>4, <1>6 DEF IsFull
  <2>5. CountInv' /\ mSessionCount' \in 0..maxSessionCount
      BY <1>2, <1>3, <2>1, <2>4, CountStep
  <2> QED BY <1>2, <2>1, <2>3, <2>4, <2>5
<1> QED BY <1>5, <1>6

LEMMA SetConnectedStep ==
    ASSUME TypeOK, SessionInv, NEW t \in Threads, SetConnected(t)
    PROVE  SessionInv' /\ session[t] \in mSessions
<1> DEFINE d == clientOf[session[t]]
<1>1. /\ pc[t] = "setConnected" /\ Goto(t, "register", event[t], None)
      /\ mIsConnected' = mIsConnected \cup {session[t]}
      /\ UNCHANGED <<client, clientOf, acceptVars, mSessions, mSessionCount>>
    BY DEF SetConnected, At, AfterConnect
<1>2. session[t] \in mSessions /\ client[d] = "served"
    BY <1>1 DEF SessionInv, ThreadSessionInv, ServiceInv
<1>3. Moved(t, "register", event[t], None) /\ "register" \notin Holding /\ pc[t] \in Holding
    BY <1>1, GotoMoves DEF Holding
<1> QED BY <1>1, <1>2, <1>3, HolderSteps

LEMMA RemoveSessionStep ==
    ASSUME TypeOK, SessionInv, CountInv, NEW t \in Threads, RemoveSession(t)
    PROVE  /\ SessionInv' /\ CountInv' /\ mSessionCount' \in 0..maxSessionCount
           /\ mSessions' \subseteq mSessions
           /\ \E c \in Clients : client[c] = "served" /\ client' = [client EXCEPT ![c] = "left"]
<1> DEFINE d == clientOf[session[t]]
<1>1. pc[t] = "remove" /\ UNCHANGED <<clientOf, acceptVars, mIsConnected>> /\ pc[t] \in Holding
    BY DEF RemoveSession, At, Holding
<1>2. session[t] \in mSessions /\ session[t] \notin mIsConnected
    BY <1>1 DEF SessionInv, ThreadSessionInv
<1>3. /\ client' = [client EXCEPT ![d] = "left"] /\ Goto(t, "disconnect", None, session[t])
      /\ mSessions' = mSessions \ {session[t]} /\ mSessionCount' = mSessionCount - 1
    BY <1>2 DEF RemoveSession, CountDown
<1>4. d \in Clients /\ client[d] = "served"
    BY <1>2, TypesOfSessions DEF SessionInv, ServiceInv
<1>5. client'[d] = "left" /\ \A c \in Clients : c # d => client'[c] = client[c]
    BY <1>3, <1>4 DEF TypeOK
<1>6. SessionInv'
  <2>1. Moved(t, "disconnect", None, session[t]) /\ "disconnect" \notin Holding
      BY <1>3, GotoMoves DEF Holding
  <2> QED BY <1>1, <1>2, <1>3, <1>5, <2>1, HolderSteps
<1>7. CountInv' /\ mSessionCount' \in 0..maxSessionCount
    BY <1>2, <1>3, <1>4, CountStep
<1> QED BY <1>3, <1>4, <1>6, <1>7

\* A thread with no session takes the one whose connection it ends.
LEMMA LoseConnectionStep ==
    ASSUME TypeOK, ThreadInv, SessionInv, NEW t \in Threads, NEW s \in mIsConnected, LoseConnection(t, s)
    PROVE  SessionInv'
<1>1. /\ pc[t] = "port" /\ Moved(t, "remove", None, s) /\ mIsConnected' = mIsConnected \ {s}
      /\ UNCHANGED <<client, clientOf, acceptVars, mSessions, mSessionCount>> /\ t \in IoThreads
  <2>1. pc[t] = "port" /\ Goto(t, "remove", None, s) /\ mIsConnected' = mIsConnected \ {s}
        /\ UNCHANGED <<client, clientOf, acceptVars, mSessions, mSessionCount>>
      BY DEF LoseConnection, At, AfterExchange
  <2> QED BY <2>1, GotoMoves DEF ThreadInv, Threads, SetUpCalls
<1>2. s \in mSessions /\ s \in 1..Len(clientOf) /\ clientOf[s] # NoClient /\ client[clientOf[s]] = "served"
    BY TypesOfSessions DEF SessionInv, ServiceInv
<1>3. ASSUME NEW u \in Threads, pc[u] \in Holding
      PROVE  session[u] # s
  <2>1. CASE pc[u] \in {"setup", "addSession"}
      BY <1>2, <2>1 DEF SessionInv, ThreadSessionInv
  <2>2. CASE pc[u] \in {"setConnected", "remove"}
      BY <2>2 DEF SessionInv, ThreadSessionInv
  <2> QED BY <1>3, <2>1, <2>2 DEF Holding
<1>4. \A e \in mAcceptEvents : eventSession[e] # s
    BY <1>2 DEF SessionInv, ServiceInv
<1>5. \A u \in Threads : u # t => pc'[u] = pc[u] /\ session'[u] = session[u]
    BY <1>1 DEF Moved
<1>6. pc'[t] = "remove" /\ session'[t] = s
    BY <1>1 DEF Moved
<1>7. ClientInv' /\ EventSessionInv'
    BY <1>1 DEF SessionInv, ClientInv, EventSessionInv, acceptVars
<1>8. ThreadSessionInv'
  <2>1. \A u \in Threads : pc'[u] \in Holding => session'[u] # None
      BY <1>2, <1>5, <1>6 DEF SessionInv, ThreadSessionInv, None
  <2>2. \A u \in Threads : pc'[u] \in {"setup", "addSession"} =>
            clientOf'[session'[u]] # NoClient /\ client'[clientOf'[session'[u]]] = "accepted"
      BY <1>1, <1>5, <1>6 DEF SessionInv, ThreadSessionInv
  <2>3. \A u \in Threads : pc'[u] \in {"setConnected", "remove"} => session'[u] \in mSessions' \ mIsConnected'
      BY <1>1, <1>2, <1>5, <1>6 DEF SessionInv, ThreadSessionInv
  <2>4. \A u, v \in Threads : u # v /\ pc'[u] \in Holding /\ pc'[v] \in Holding => session'[u] # session'[v]
      BY <1>3, <1>5, <1>6 DEF SessionInv, ThreadSessionInv
  <2>5. \A u \in Threads, f \in mAcceptEvents : pc'[u] \in Holding => eventSession'[f] # session'[u]
      BY <1>1, <1>4, <1>5, <1>6 DEF SessionInv, ThreadSessionInv, acceptVars
  <2> QED BY <2>1, <2>2, <2>3, <2>4, <2>5 DEF ThreadSessionInv
<1>9. ServiceInv'
  <2>1. ASSUME NEW r \in mSessions'
        PROVE  \/ r \in mIsConnected'
               \/ \E u \in IoThreads : session'[u] = r /\ pc'[u] \in {"setConnected", "remove"}
    <3>1. CASE r = s
        BY <1>1, <1>6, <3>1
    <3>2. CASE r # s /\ r \in mIsConnected
        BY <1>1, <3>2
    <3>3. ASSUME NEW u \in IoThreads, session[u] = r, pc[u] \in {"setConnected", "remove"}
          PROVE  session'[u] = r /\ pc'[u] \in {"setConnected", "remove"}
        BY <1>1, <1>5, <3>3 DEF Threads
    <3> QED BY <1>1, <3>1, <3>2, <3>3 DEF SessionInv, ServiceInv
  <2> QED BY <1>1, <2>1 DEF SessionInv, ServiceInv, acceptVars
<1> QED BY <1>7, <1>8, <1>9 DEF SessionInv

LEMMA InitHolds == Init => IInv
<1> SUFFICES ASSUME Init PROVE IInv
    OBVIOUS
<1>1. clientOf \in Seq(Clients \cup {NoClient}) /\ Len(clientOf) = 0 /\ DOMAIN clientOf = 1..0
  <2>1. clientOf = <<>>
      BY DEF Init
  <2> QED BY <2>1, EmptySeq, LenProperties
<1>2. \A t \in Threads : pc[t] = IF t = Main THEN "initSockets" ELSE "off"
    BY DEF Init
<1>3. \A t \in Threads : event[t] = None /\ session[t] = None
    BY DEF Init
<1>4. TypeOK
  <2>1. pc \in [Threads -> SetUpCalls \cup {"off"}]
      BY DEF Init, SetUpCalls
  <2>2. /\ eventSession \in [mAcceptEvents -> 0..Len(clientOf)]
        /\ event \in [Threads -> 0..maxSessionCount]
        /\ session \in [Threads -> 0..Len(clientOf)]
    <3>1. None \in 0..Len(clientOf) /\ None \in 0..maxSessionCount
        BY <1>1 DEF None
    <3> QED BY <3>1 DEF Init
  <2>3. client \in [Clients -> {"away", "waiting", "accepted", "served", "refused", "failed", "left"}]
      BY DEF Init
  <2>4. /\ posted \subseteq mAcceptEvents /\ completed \subseteq mAcceptEvents \X {"ok", "failed"}
        /\ mSessions \subseteq DOMAIN clientOf /\ mIsConnected \subseteq DOMAIN clientOf
        /\ mSessionCount \in 0..maxSessionCount /\ failures \in 0..MaxFailures /\ crashed \in BOOLEAN
    <3>1. 0 \in 0..maxSessionCount /\ 0 \in 0..MaxFailures
        OBVIOUS
    <3>2. posted = {} /\ completed = {} /\ mSessions = {} /\ mIsConnected = {} /\ mSessionCount = 0
          /\ failures = 0 /\ crashed = FALSE
        BY DEF Init
    <3> QED BY <3>1, <3>2
  <2>5. pc \in [Threads -> SetUpCalls \cup {"off", "launch", "register", "port", "setup", "addSession",
                                        "refuse", "setConnected", "remove", "disconnect"}]
      BY <2>1
  <2> QED BY <1>1, <2>2, <2>3, <2>4, <2>5 DEF TypeOK
<1>5. ThreadInv
  <2>1. Main \in Threads /\ \A t \in IoThreads : t \in Threads /\ t # Main
      BY DEF Threads
  <2>2. None \notin mAcceptEvents
      BY DEF None, mAcceptEvents
  <2> QED BY <1>2, <1>3, <2>1, <2>2 DEF ThreadInv, SetUpCalls, Working
<1>6. PlaceInv
  <2>1. \A e \in mAcceptEvents : Ahead(e) /\ ~InHand(e)
      BY <1>2, <1>3 DEF Ahead, InHand, Threads, SetUpCalls, None, mAcceptEvents
  <2> QED BY <1>3, <2>1 DEF Init, PlaceInv, Completed
<1>7. SessionInv
  <2>1. \A t \in Threads : pc[t] \notin Holding
      BY <1>2 DEF Holding
  <2>2. \A t \in Threads : pc[t] \notin {"setup", "addSession", "setConnected", "remove"}
      BY <1>2
  <2>3. EventSessionInv
      BY DEF Init, EventSessionInv, None
  <2>4. ClientInv
      BY <1>1 DEF ClientInv
  <2>5. ThreadSessionInv
      BY <2>1, <2>2 DEF ThreadSessionInv
  <2>6. ServiceInv
      BY DEF Init, ServiceInv
  <2> QED BY <2>3, <2>4, <2>5, <2>6 DEF SessionInv
<1>8. CountInv
  <2>1. Served = {} /\ mSessions = {} /\ mSessionCount = 0
      BY DEF Init, Served
  <2> QED BY <2>1, FS_EmptySet DEF CountInv
<1> QED BY <1>4, <1>5, <1>6, <1>7, <1>8 DEF IInv, SessionInv

LEMMA SessionStep ==
    ASSUME IInv, Next
    PROVE  SessionInv'
<1> USE DEF IInv
<1> SessionInv
    BY DEF SessionInv
<1>1. CASE StartAccept
  <2>1. CASE UNCHANGED threadVars
      BY <1>1, <2>1, SetUpMoves, SessionsUnchanged
  <2>2. ASSUME NEW l \in SetUpCalls \cup {"register"}, NEW e, Moved(Main, l, e, None) PROVE SessionInv'
    <3>1. pc[Main] \notin {"setConnected", "remove"} /\ l \notin Holding /\ Main \in Threads
          /\ UNCHANGED <<client, clientOf, acceptVars, serviceVars>>
        BY <1>1, SetUpMoves DEF SetUpCalls, Holding, Threads
    <3> QED BY <2>2, <3>1, SessionsKept
  <2> QED BY <1>1, <2>1, <2>2, SetUpMoves
<1>2. ASSUME NEW t \in IoThreads, Launch(t) PROVE SessionInv'
  <2>1. pc[t] = "off" /\ Goto(t, "port", None, None) /\ t \in Threads /\ "port" \notin Holding
        /\ UNCHANGED <<client, clientOf, acceptVars, serviceVars>>
      BY <1>2 DEF Launch, Threads, Holding
  <2> QED BY <2>1, GotoMoves, SessionsKept
<1>3. ASSUME NEW t \in Threads, RegisterAccept(t) \/ RegisterAcceptFails(t) PROVE SessionInv'
    BY <1>3, RegisterSessions
<1>4. ASSUME NEW t \in Threads, CreateSessionFails(t) PROVE SessionInv'
    BY <1>4, SessionsUnchanged DEF CreateSessionFails
<1>5. ASSUME NEW c \in Clients, ClientArrives(c) PROVE SessionInv'
  <2>1. client[c] = "away" /\ \A d \in Clients : d # c => client'[d] = client[d]
      BY <1>5 DEF ClientArrives, TypeOK
  <2> QED BY <1>5, <2>1, ClientChanges DEF ClientArrives, acceptVars
<1>6. ASSUME NEW e \in mAcceptEvents, NEW c \in Clients, AcceptCompletes(e, c) PROVE SessionInv'
    BY <1>6, CompleteSessions
<1>7. ASSUME NEW e \in mAcceptEvents, AcceptFails(e) PROVE SessionInv'
  <2>1. /\ UNCHANGED <<clientOf, eventSession, serviceVars, threadVars>> /\ posted' \subseteq posted
        /\ \A f \in mAcceptEvents : <<f, "ok">> \in completed' => <<f, "ok">> \in completed
      BY <1>7 DEF AcceptFails
  <2>2. CASE client' = client
    <3>1. EventSessionInv' /\ ClientInv'
        BY <2>1, <2>2 DEF SessionInv, EventSessionInv, ClientInv
    <3>2. ThreadSessionInv' /\ ServiceInv'
        BY <2>1, <2>2 DEF SessionInv, ThreadSessionInv, ServiceInv, threadVars, serviceVars
    <3> QED BY <3>1, <3>2 DEF SessionInv
  <2>3. ASSUME NEW c \in Clients, client[c] = "waiting", client' = [client EXCEPT ![c] = "failed"]
        PROVE  SessionInv'
    <3>1. client[c] \in {"away", "waiting"} /\ \A d \in Clients : d # c => client'[d] = client[d]
        BY <2>3 DEF TypeOK
    <3> QED BY <2>1, <3>1, ClientChanges
  <2>4. \/ client' = client
        \/ \E c \in Clients : client[c] = "waiting" /\ client' = [client EXCEPT ![c] = "failed"]
      BY <1>7, Zenon DEF AcceptFails
  <2> QED BY <2>2, <2>3, <2>4, Zenon
<1>8. ASSUME NEW t \in Threads, NEW e \in mAcceptEvents, TakeAccept(t, e) PROVE SessionInv'
    BY <1>8, TakeSessions
<1>9. ASSUME NEW t \in Threads, Setup(t) PROVE SessionInv'
  <2>1. pc[t] = "setup" /\ Goto(t, "addSession", event[t], session[t])
        /\ UNCHANGED <<client, clientOf, acceptVars, serviceVars>>
      BY <1>9 DEF Setup, At
  <2> QED BY <2>1, GotoMoves, SessionsKept
<1>10. ASSUME NEW t \in Threads, Refuse(t) \/ Disconnect(t) PROVE SessionInv'
  <2>1. \E l \in {"register", "port"} : \E e, s : Goto(t, l, e, s)
        /\ UNCHANGED <<client, clientOf, acceptVars, serviceVars>>
        /\ pc[t] \notin {"setConnected", "remove"} /\ l \notin Holding
      BY <1>10 DEF Refuse, Disconnect, AfterConnect, At, Holding
  <2> QED BY <2>1, GotoMoves, SessionsKept
<1>11. ASSUME NEW t \in Threads, SetupFails(t) \/ AddSession(t) \/ SetConnected(t) \/ RemoveSession(t)
                                 \/ \E s \in mIsConnected : LoseConnection(t, s)
       PROVE  SessionInv'
    BY <1>11, SetupFailsStep, AddSessionStep, SetConnectedStep, RemoveSessionStep, LoseConnectionStep
<1>12. ASSUME NEW t \in Threads, Step(t) PROVE SessionInv'
    BY <1>3, <1>4, <1>8, <1>9, <1>10, <1>11, <1>12 DEF Step
<1>13. CASE Kernel
    BY <1>6, <1>7, <1>13 DEF Kernel
<1> QED BY <1>1, <1>2, <1>5, <1>12, <1>13 DEF Next

LEMMA CountsStep ==
    ASSUME IInv, Next
    PROVE  CountInv' /\ mSessionCount' \in 0..maxSessionCount
<1> USE DEF IInv
<1> SessionInv /\ mSessionCount \in 0..maxSessionCount
    BY DEF SessionInv, TypeOK
<1>1. ASSUME UNCHANGED <<mSessions, mSessionCount>>,
             \/ UNCHANGED client
             \/ \E c \in Clients, f \in {"waiting", "accepted", "failed"} :
                   client[c] \in {"away", "waiting", "accepted"} /\ client' = [client EXCEPT ![c] = f]
      PROVE  CountInv' /\ mSessionCount' \in 0..maxSessionCount
  <2>1. \A c \in Clients : client'[c] = "served" <=> client[c] = "served"
    <3>1. CASE UNCHANGED client
        BY <3>1
    <3>2. ASSUME NEW c \in Clients, NEW f \in {"waiting", "accepted", "failed"},
                 client[c] \in {"away", "waiting", "accepted"}, client' = [client EXCEPT ![c] = f]
          PROVE  \A d \in Clients : client'[d] = "served" <=> client[d] = "served"
      <4>1. client'[c] = f /\ \A d \in Clients : d # c => client'[d] = client[d]
          BY <3>2 DEF TypeOK
      <4> QED BY <3>2, <4>1
    <3> QED BY <1>1, <3>1, <3>2
  <2>2. CountInv'
      BY <1>1, <2>1, CountKept
  <2> QED BY <1>1, <2>2
<1>2. CASE StartAccept
    BY <1>1, <1>2, SetUpMoves DEF serviceVars
<1>3. ASSUME NEW t \in IoThreads, Launch(t) PROVE CountInv' /\ mSessionCount' \in 0..maxSessionCount
    BY <1>1, <1>3 DEF Launch, serviceVars
<1>4. ASSUME NEW c \in Clients, ClientArrives(c) PROVE CountInv' /\ mSessionCount' \in 0..maxSessionCount
    BY <1>1, <1>4 DEF ClientArrives, serviceVars
<1>5. CASE Kernel
    BY <1>1, <1>5 DEF Kernel, AcceptFails, AcceptCompletes, serviceVars
<1>6. ASSUME NEW t \in Threads, Step(t) PROVE CountInv' /\ mSessionCount' \in 0..maxSessionCount
  <2>1. CASE \/ RegisterAccept(t) \/ RegisterAcceptFails(t) \/ CreateSessionFails(t) \/ Setup(t) \/ Refuse(t)
             \/ SetConnected(t) \/ Disconnect(t) \/ \E e \in mAcceptEvents : TakeAccept(t, e)
             \/ \E s \in mIsConnected : LoseConnection(t, s)
    <3>1. UNCHANGED <<client, mSessions, mSessionCount>>
        BY <2>1 DEF RegisterAccept, RegisterAcceptFails, CreateSessionFails, Setup, Refuse, SetConnected,
                    Disconnect, TakeAccept, LoseConnection, serviceVars
    <3> QED BY <1>1, <3>1
  <2>2. CASE SetupFails(t)
      BY <1>1, <2>2, SetupFailsStep DEF SetupFails, serviceVars
  <2>3. CASE AddSession(t)
      BY <2>3, AddSessionStep
  <2>4. CASE RemoveSession(t)
      BY <2>4, RemoveSessionStep
  <2> QED BY <1>6, <2>1, <2>2, <2>3, <2>4 DEF Step
<1> QED BY <1>2, <1>3, <1>4, <1>5, <1>6 DEF Next

\* Every thread goes to one of the labels, with an event and a session there are.
LEMMA ThreadTypes ==
    ASSUME TypeOK, Len(clientOf') \in Nat, Len(clientOf) <= Len(clientOf'), Len(clientOf) \in Nat,
           NEW t \in Threads, NEW l \in Labels, NEW e \in 0..maxSessionCount,
           NEW s \in 0..Len(clientOf), Goto(t, l, e, s)
    PROVE  /\ pc' \in [Threads -> Labels]
           /\ event' \in [Threads -> 0..maxSessionCount]
           /\ session' \in [Threads -> 0..Len(clientOf')]
<1>1. pc \in [Threads -> Labels]
    BY TypesOfThreads
<1>2. \A i \in 0..Len(clientOf) : i \in 0..Len(clientOf')
    OBVIOUS
<1> QED BY <1>1, <1>2 DEF TypeOK, Goto

\* The sessions created are never fewer, and the events name some of them.
LEMMA SessionTypes ==
    ASSUME IInv, Next
    PROVE  /\ clientOf' \in Seq(Clients \cup {NoClient})
           /\ Len(clientOf) \in Nat /\ Len(clientOf') \in Nat /\ Len(clientOf) <= Len(clientOf')
           /\ DOMAIN clientOf \subseteq DOMAIN clientOf' /\ DOMAIN clientOf = 1..Len(clientOf)
           /\ eventSession' \in [mAcceptEvents -> 0..Len(clientOf')]
<1> USE DEF IInv
<1> SessionInv
    BY DEF SessionInv
<1>1. /\ clientOf \in Seq(Clients \cup {NoClient}) /\ eventSession \in [mAcceptEvents -> 0..Len(clientOf)]
      /\ Len(clientOf) \in Nat
    BY TypesOfSessions DEF TypeOK
<1>2. /\ clientOf' \in Seq(Clients \cup {NoClient}) /\ eventSession' \in [mAcceptEvents -> 0..Len(clientOf')]
      /\ Len(clientOf') \in {Len(clientOf), Len(clientOf) + 1}
  <2>1. ASSUME NEW t \in Threads, RegisterAccept(t) \/ RegisterAcceptFails(t)
        PROVE  /\ clientOf' \in Seq(Clients \cup {NoClient})
               /\ eventSession' \in [mAcceptEvents -> 0..Len(clientOf')]
               /\ Len(clientOf') \in {Len(clientOf), Len(clientOf) + 1}
      BY <2>1, RegisterSessions
  <2>2. ASSUME NEW e \in mAcceptEvents, NEW c \in Clients, AcceptCompletes(e, c)
        PROVE  /\ clientOf' \in Seq(Clients \cup {NoClient})
               /\ eventSession' \in [mAcceptEvents -> 0..Len(clientOf')]
               /\ Len(clientOf') \in {Len(clientOf), Len(clientOf) + 1}
    <3>1. eventSession' = eventSession
        BY <2>2 DEF AcceptCompletes
    <3> QED BY <1>1, <2>2, <3>1, CompleteSessions
  <2>3. ASSUME NEW t \in Threads, NEW e \in mAcceptEvents, TakeAccept(t, e)
        PROVE  clientOf' = clientOf /\ eventSession' \in [mAcceptEvents -> 0..Len(clientOf)]
    <3>1. clientOf' = clientOf /\ eventSession' = [eventSession EXCEPT ![e] = None]
        BY <2>3 DEF TakeAccept
    <3>2. None \in 0..Len(clientOf)
        BY <1>1 DEF None
    <3> QED BY <1>1, <3>1, <3>2
  <2>4. CASE UNCHANGED <<clientOf, eventSession>>
      BY <1>1, <2>4
  <2>5. CASE \/ StartAccept \/ \E t \in IoThreads : Launch(t)
             \/ \E c \in Clients : ClientArrives(c)
             \/ \E e \in mAcceptEvents : AcceptFails(e)
             \/ \E t \in Threads : \/ CreateSessionFails(t) \/ Setup(t) \/ SetupFails(t) \/ AddSession(t)
                                   \/ Refuse(t) \/ SetConnected(t) \/ RemoveSession(t) \/ Disconnect(t)
                                   \/ \E s \in mIsConnected : LoseConnection(t, s)
    <3>1. UNCHANGED <<clientOf, eventSession>>
        BY <2>5, SetUpMoves DEF Launch, ClientArrives, AcceptFails, CreateSessionFails, Setup, SetupFails,
              AddSession, Refuse, SetConnected, RemoveSession, Disconnect, LoseConnection, acceptVars
    <3> QED BY <2>4, <3>1
  <2> QED BY <1>1, <2>1, <2>2, <2>3, <2>5 DEF Next, Step, Kernel
<1>3. DOMAIN clientOf = 1..Len(clientOf) /\ DOMAIN clientOf' = 1..Len(clientOf')
    BY <1>1, <1>2, LenProperties
<1>4. Len(clientOf') \in Nat /\ Len(clientOf) <= Len(clientOf')
    BY <1>1, <1>2
<1>5. DOMAIN clientOf \subseteq DOMAIN clientOf'
    BY <1>1, <1>3, <1>4
<1> QED BY <1>1, <1>2, <1>3, <1>4, <1>5

LEMMA ThreadTypesStep ==
    ASSUME IInv, Next
    PROVE  /\ pc' \in [Threads -> Labels]
           /\ event' \in [Threads -> 0..maxSessionCount]
           /\ session' \in [Threads -> 0..Len(clientOf')]
<1> USE DEF IInv
<1> DEFINE Typed == /\ pc' \in [Threads -> Labels]
                    /\ event' \in [Threads -> 0..maxSessionCount]
                    /\ session' \in [Threads -> 0..Len(clientOf')]
<1>0. Len(clientOf) \in Nat /\ Len(clientOf') \in Nat /\ Len(clientOf) <= Len(clientOf')
    BY SessionTypes
<1>1. /\ pc \in [Threads -> Labels] /\ event \in [Threads -> 0..maxSessionCount]
      /\ session \in [Threads -> 0..Len(clientOf)]
    BY TypesOfThreads DEF TypeOK
<1>2. None \in 0..maxSessionCount /\ None \in 0..Len(clientOf)
    BY <1>0 DEF None
<1>3. CASE UNCHANGED threadVars
  <2>1. \A i \in 0..Len(clientOf) : i \in 0..Len(clientOf')
      BY <1>0
  <2> QED BY <1>1, <1>3, <2>1 DEF threadVars
<1>4. ASSUME NEW t \in Threads, NEW l \in Labels, NEW e \in 0..maxSessionCount, NEW s \in 0..Len(clientOf),
             Goto(t, l, e, s)
      PROVE  Typed
    BY <1>0, <1>4, ThreadTypes
<1> HIDE DEF Typed
<1>5. {"port", "register", "launch", "setup", "addSession", "refuse", "setConnected", "remove", "disconnect"}
         \subseteq Labels
    BY DEF Labels, Working
<1>6. ASSUME NEW t \in Threads, Step(t) PROVE Typed
  <2>1. event[t] \in 0..maxSessionCount /\ session[t] \in 0..Len(clientOf)
      BY <1>1
  <2>2. CASE RegisterAccept(t)
    <3>1. pc[t] = "register" /\ Registered(t)
        BY <2>2 DEF RegisterAccept, At
    <3>2. event[t] \in mAcceptEvents
        BY <3>1 DEF ThreadInv, Working
    <3>3. event[t] < maxSessionCount => event[t] + 1 \in 0..maxSessionCount
        BY <3>2 DEF mAcceptEvents
    <3>4. CASE t # Main
        BY <1>2, <1>4, <1>5, <3>1, <3>4 DEF Registered
    <3>5. CASE t = Main
        BY <1>2, <1>4, <1>5, <3>1, <3>3, <3>5 DEF Registered
    <3> QED BY <3>4, <3>5
  <2>3. CASE RegisterAcceptFails(t) \/ CreateSessionFails(t)
      BY <1>3, <2>3 DEF RegisterAcceptFails, CreateSessionFails, Typed
  <2>4. ASSUME NEW e \in mAcceptEvents, TakeAccept(t, e) PROVE Typed
    <3>1. e \in 0..maxSessionCount /\ eventSession[e] \in 0..Len(clientOf)
        BY DEF mAcceptEvents, TypeOK
    <3>2. Goto(t, "setup", e, eventSession[e]) \/ Goto(t, "register", e, None)
        BY <2>4 DEF TakeAccept, AfterError
    <3> QED BY <1>2, <1>4, <1>5, <3>1, <3>2
  <2>5. CASE Setup(t) \/ SetupFails(t) \/ AddSession(t) \/ Refuse(t) \/ SetConnected(t)
    <3>1. \E l \in {"addSession", "register", "refuse", "setConnected"}, s \in {session[t], None} :
             Goto(t, l, event[t], s)
        BY <2>5 DEF Setup, SetupFails, AddSession, Refuse, SetConnected, AfterError, AfterConnect
    <3> QED BY <1>2, <1>4, <1>5, <2>1, <3>1
  <2>6. ASSUME NEW s \in mIsConnected, LoseConnection(t, s) PROVE Typed
    <3>1. s \in 0..Len(clientOf)
        BY TypesOfSessions DEF ServiceInv
    <3> QED BY <1>2, <1>4, <1>5, <2>6, <3>1 DEF LoseConnection, AfterExchange
  <2>7. CASE RemoveSession(t) \/ Disconnect(t)
    <3>1. Goto(t, "disconnect", None, session[t]) \/ Goto(t, "port", None, None)
        BY <2>7 DEF RemoveSession, Disconnect
    <3> QED BY <1>2, <1>4, <1>5, <2>1, <3>1
  <2> QED BY <1>6, <2>2, <2>3, <2>4, <2>5, <2>6, <2>7 DEF Step
<1>7. ASSUME NEW t \in IoThreads, Launch(t) PROVE Typed
    BY <1>2, <1>4, <1>5, <1>7 DEF Launch, Threads
<1>8. CASE StartAccept
  <2>1. \/ UNCHANGED threadVars
        \/ \E l \in SetUpCalls \cup {"register"} :
              Goto(Main, l, IF l = "register" THEN 1 ELSE None, None)
      BY <1>8 DEF StartAccept, InitSockets, IoEventDispatcher, CreateSocket, RegisterListener,
                  SetReuseAddress, SetLinger, BindAddress, Listen, SetUp, SetUpCalls
  <2>2. SetUpCalls \cup {"register"} \subseteq Labels /\ 1 \in 0..maxSessionCount /\ Main \in Threads
      BY DEF Labels, Working, Threads
  <2>3. ASSUME NEW l \in SetUpCalls \cup {"register"}, Goto(Main, l, IF l = "register" THEN 1 ELSE None, None)
        PROVE  Typed
    <3>1. CASE l = "register"
        BY <1>2, <1>4, <2>2, <2>3, <3>1
    <3>2. CASE l # "register"
        BY <1>2, <1>4, <2>2, <2>3, <3>2
    <3> QED BY <3>1, <3>2
  <2> QED BY <1>3, <2>1, <2>3 DEF Typed
<1>9. CASE Kernel \/ \E c \in Clients : ClientArrives(c)
    BY <1>3, <1>9 DEF Kernel, AcceptFails, AcceptCompletes, ClientArrives, Typed
<1> QED BY <1>6, <1>7, <1>8, <1>9 DEF Next, Typed

LEMMA TypeStep ==
    ASSUME IInv, Next
    PROVE  TypeOK'
<1> USE DEF IInv
<1> SessionInv
    BY DEF SessionInv
<1>1. client' \in [Clients -> {"away", "waiting", "accepted", "served", "refused", "failed", "left"}]
  <2>1. ASSUME NEW c, NEW f \in {"waiting", "accepted", "served", "refused", "failed", "left"},
               client' = [client EXCEPT ![c] = f]
        PROVE  client' \in [Clients -> {"away", "waiting", "accepted", "served", "refused", "failed", "left"}]
      BY <2>1 DEF TypeOK
  <2>2. \/ client' = client
        \/ \E c, f : /\ f \in {"waiting", "accepted", "served", "refused", "failed", "left"}
                     /\ client' = [client EXCEPT ![c] = f]
    <3>1. CASE StartAccept
        BY <3>1, SetUpMoves
    <3>2. CASE Kernel
        BY <3>2 DEF Kernel, AcceptFails, AcceptCompletes
    <3>3. CASE \E c \in Clients : ClientArrives(c)
        BY <3>3 DEF ClientArrives
    <3>4. CASE \E t \in IoThreads : Launch(t)
        BY <3>4 DEF Launch
    <3>5. ASSUME NEW t \in Threads, SetupFails(t) \/ AddSession(t) \/ RemoveSession(t)
          PROVE  \/ client' = client
                 \/ \E c, f : /\ f \in {"waiting", "accepted", "served", "refused", "failed", "left"}
                              /\ client' = [client EXCEPT ![c] = f]
      <4>1. CASE SetupFails(t)
          BY <4>1 DEF SetupFails
      <4>2. CASE AddSession(t)
          BY <4>2, AddSessionStep
      <4>3. CASE RemoveSession(t)
          BY <4>3, RemoveSessionStep
      <4> QED BY <3>5, <4>1, <4>2, <4>3
    <3>6. CASE \E t \in Threads : \/ RegisterAccept(t) \/ RegisterAcceptFails(t) \/ CreateSessionFails(t)
                                  \/ Setup(t) \/ Refuse(t) \/ SetConnected(t) \/ Disconnect(t)
                                  \/ \E e \in mAcceptEvents : TakeAccept(t, e)
                                  \/ \E s \in mIsConnected : LoseConnection(t, s)
        BY <3>6 DEF RegisterAccept, RegisterAcceptFails, CreateSessionFails, Setup, Refuse, SetConnected,
                    Disconnect, TakeAccept, LoseConnection
    <3> QED BY <3>1, <3>2, <3>3, <3>4, <3>5, <3>6 DEF Next, Step
  <2> QED BY <2>1, <2>2 DEF TypeOK
<1>2. posted' \subseteq mAcceptEvents /\ completed' \subseteq mAcceptEvents \X {"ok", "failed"}
  <2>1. posted \subseteq mAcceptEvents /\ completed \subseteq mAcceptEvents \X {"ok", "failed"}
      BY DEF TypeOK
  <2>2. ASSUME NEW t \in Threads, Step(t)
        PROVE  posted' \subseteq mAcceptEvents /\ completed' \subseteq completed
    <3>1. CASE RegisterAccept(t)
      <4>1. event[t] \in mAcceptEvents /\ posted' = posted \cup {event[t]} /\ completed' = completed
          BY <3>1, RegisterPlaces DEF RegisterAccept, AcceptAsync
      <4> QED BY <2>1, <4>1
    <3>2. CASE \E e \in mAcceptEvents : TakeAccept(t, e)
        BY <2>1, <3>2 DEF TakeAccept
    <3>3. CASE \/ RegisterAcceptFails(t) \/ CreateSessionFails(t) \/ Setup(t) \/ SetupFails(t) \/ AddSession(t)
               \/ Refuse(t) \/ SetConnected(t) \/ RemoveSession(t) \/ Disconnect(t)
               \/ \E s \in mIsConnected : LoseConnection(t, s)
        BY <2>1, <3>3 DEF RegisterAcceptFails, CreateSessionFails, Setup, SetupFails, AddSession, Refuse,
                    SetConnected, RemoveSession, Disconnect, LoseConnection, acceptVars
    <3> QED BY <2>2, <3>1, <3>2, <3>3 DEF Step
  <2>3. CASE Kernel
      BY <2>1, <2>3 DEF Kernel, AcceptFails, AcceptCompletes
  <2>4. CASE StartAccept \/ (\E t \in IoThreads : Launch(t)) \/ \E c \in Clients : ClientArrives(c)
      BY <2>1, <2>4, SetUpMoves DEF Launch, ClientArrives, acceptVars
  <2> QED BY <2>1, <2>2, <2>3, <2>4 DEF Next
<1>3. mSessions' \subseteq DOMAIN clientOf'
  <2>1. mSessions' \subseteq DOMAIN clientOf
    <3>1. mSessions \subseteq DOMAIN clientOf /\ DOMAIN clientOf = 1..Len(clientOf)
        BY SessionTypes DEF TypeOK
    <3>2. ASSUME NEW t \in Threads, AddSession(t) PROVE mSessions' \subseteq DOMAIN clientOf
      <4>1. pc[t] \in Holding
          BY <3>2 DEF AddSession, At, Holding
      <4>2. session[t] \in 1..Len(clientOf)
          BY <4>1, TypesOfSessions DEF TypeOK, ThreadSessionInv
      <4>3. mSessions' \subseteq mSessions \cup {session[t]}
          BY <3>2, AddSessionStep
      <4>4. session[t] \in DOMAIN clientOf
          BY <3>1, <4>2, Zenon
      <4> QED BY <3>1, <4>3, <4>4, Zenon
    <3>3. ASSUME NEW t \in Threads, RemoveSession(t) PROVE mSessions' \subseteq DOMAIN clientOf
      <4>1. mSessions' \subseteq mSessions
          BY <3>3, RemoveSessionStep
      <4> QED BY <3>1, <4>1
    <3>4. ASSUME NEW t \in Threads,
                 \/ RegisterAccept(t) \/ RegisterAcceptFails(t) \/ CreateSessionFails(t)
                 \/ Setup(t) \/ SetupFails(t) \/ Refuse(t) \/ SetConnected(t) \/ Disconnect(t)
                 \/ \E e \in mAcceptEvents : TakeAccept(t, e)
                 \/ \E s \in mIsConnected : LoseConnection(t, s)
          PROVE  mSessions' \subseteq DOMAIN clientOf
        BY <3>1, <3>4 DEF RegisterAccept, RegisterAcceptFails, CreateSessionFails, Setup, SetupFails, Refuse,
                    SetConnected, Disconnect, TakeAccept, LoseConnection, serviceVars
    <3>5. CASE StartAccept \/ Kernel \/ (\E t \in IoThreads : Launch(t)) \/ \E c \in Clients : ClientArrives(c)
        BY <3>1, <3>5, SetUpMoves DEF Kernel, AcceptFails, AcceptCompletes, Launch, ClientArrives, serviceVars
    <3>6. ASSUME NEW t \in Threads, Step(t) PROVE mSessions' \subseteq DOMAIN clientOf
        BY <3>2, <3>3, <3>4, <3>6 DEF Step
    <3> QED BY <3>5, <3>6 DEF Next
  <2> QED BY <2>1, SessionTypes
<1>4. mIsConnected' \subseteq DOMAIN clientOf'
    BY <1>3, SessionStep DEF SessionInv, ServiceInv
<1>5. failures' \in 0..MaxFailures /\ crashed' \in BOOLEAN
  <2>1. failures \in 0..MaxFailures /\ crashed \in BOOLEAN
      BY DEF TypeOK
  <2>2. Fail => failures' \in 0..MaxFailures
      BY <2>1 DEF Fail
  <2>3. ASSUME NEW t \in Threads, Step(t)
        PROVE  (failures' = failures \/ Fail) /\ (crashed' = crashed \/ crashed' = TRUE)
      BY <2>3 DEF Step, RegisterAccept, RegisterAcceptFails, CreateSessionFails, Setup, SetupFails, AddSession,
                  Refuse, SetConnected, RemoveSession, Disconnect, LoseConnection, TakeAccept
  <2>4. CASE StartAccept
    <3>1. (failures' = failures \/ Fail) /\ (crashed' = crashed \/ crashed' = TRUE)
        BY <2>4 DEF StartAccept, InitSockets, IoEventDispatcher, CreateSocket, RegisterListener,
                    SetReuseAddress, SetLinger, BindAddress, Listen, SetUp
    <3> QED BY <2>1, <2>2, <3>1
  <2>5. CASE Kernel \/ (\E t \in IoThreads : Launch(t)) \/ \E c \in Clients : ClientArrives(c)
    <3>1. (failures' = failures \/ Fail) /\ crashed' = crashed
        BY <2>5 DEF Kernel, AcceptFails, AcceptCompletes, Launch, ClientArrives
    <3> QED BY <2>1, <2>2, <3>1
  <2> QED BY <2>1, <2>2, <2>3, <2>4, <2>5 DEF Next
<1>6. pc' \in [Threads -> SetUpCalls \cup {"off", "launch", "register", "port", "setup", "addSession",
                                        "refuse", "setConnected", "remove", "disconnect"}]
  <2>1. Labels = SetUpCalls \cup {"off", "launch", "register", "port", "setup", "addSession",
                                  "refuse", "setConnected", "remove", "disconnect"}
      BY DEF Labels, Working
  <2> QED BY <2>1, ThreadTypesStep
<1> QED BY <1>1, <1>2, <1>3, <1>4, <1>5, <1>6, SessionTypes, ThreadTypesStep, CountsStep DEF TypeOK

LEMMA Inductive == IInv /\ [Next]_vars => IInv'
<1> SUFFICES ASSUME IInv, [Next]_vars PROVE IInv'
    OBVIOUS
<1>1. CASE Next
    BY <1>1, TypeStep, PlaceStep, SessionStep, CountsStep DEF IInv, SessionInv
<1>2. CASE UNCHANGED vars
  <2> USE <1>2 DEF IInv, vars, threadVars, acceptVars, serviceVars
  <2>1. TypeOK'
      BY DEF TypeOK
  <2>2. ThreadInv' /\ PlaceInv'
      BY PlaceUnchanged
  <2>3. SessionInv'
      BY SessionsUnchanged DEF SessionInv
  <2>4. CountInv'
      BY DEF CountInv, Served
  <2> QED BY <2>1, <2>2, <2>3, <2>4 DEF SessionInv
<1> QED BY <1>1, <1>2

LEMMA Invariant == Spec => []IInv
BY InitHolds, Inductive, PTL DEF Spec

-------------------------------------------------------------------------------
(* The theorems                                                            *)

\* The listener, its events and the service are always as TypeOK says.
THEOREM TypeCorrect == Spec => []TypeOK
<1>1. IInv => TypeOK
    BY DEF IInv
<1> QED BY <1>1, Invariant, PTL

\* The session count is right and no slot is kept by a session that has ended.
THEOREM SlotsAccountedHolds == Spec => []SlotsAccounted
<1>1. IInv => SlotsAccounted
    BY DEF IInv, CountInv, ServiceInv, SlotsAccounted
<1> QED BY <1>1, Invariant, PTL

LEMMA OfOne == \A S, x : S = {x} \/ S = {} => Cardinality(S) = IF S = {} THEN 0 ELSE 1
BY FS_EmptySet, FS_Singleton

\* Through all the errors of ProcessAccept and RegisterAccept, every accept event
\* is in exactly one place: none is lost, none is posted twice.
THEOREM EventInOnePlaceHolds == Spec => []EventInOnePlace
<1>1. ASSUME IInv, NEW e \in mAcceptEvents
      PROVE  Places(e) = 1
  <2> DEFINE H == {t \in {Main} : pc[t] \in SetUpCalls \/ event[t] \in 1..(e - 1)}
             P == posted \cap {e}
             C == {c \in completed : c[1] = e}
             T == {t \in Threads : event[t] = e /\ pc[t] # "port"}
  <2>1. (H = {Main} <=> Ahead(e)) /\ (H = {} <=> ~Ahead(e))
      BY DEF Ahead
  <2>2. (P = {e} <=> e \in posted) /\ (P = {} <=> e \notin posted)
      OBVIOUS
  <2>3. (Completed(e) <=> \E c : C = {c}) /\ (~Completed(e) <=> C = {})
    <3>1. \A c \in completed : c[1] = e => c = <<e, "ok">> \/ c = <<e, "failed">>
        BY <1>1 DEF IInv, TypeOK
    <3>2. ~(<<e, "ok">> \in completed /\ <<e, "failed">> \in completed)
        BY <1>1 DEF IInv, PlaceInv
    <3>3. \A r \in {"ok", "failed"} : <<e, r>> \in completed <=> <<e, r>> \in C
        OBVIOUS
    <3>4. CASE <<e, "ok">> \in completed
      <4>1. C = {<<e, "ok">>}
          BY <3>1, <3>2, <3>3, <3>4
      <4> QED BY <3>4, <4>1 DEF Completed
    <3>5. CASE <<e, "failed">> \in completed
      <4>1. C = {<<e, "failed">>}
          BY <3>1, <3>2, <3>3, <3>5
      <4> QED BY <3>5, <4>1 DEF Completed
    <3>6. CASE ~Completed(e)
      <4>1. C = {}
          BY <3>1, <3>6 DEF Completed
      <4> QED BY <3>6, <4>1
    <3> QED BY <3>4, <3>5, <3>6 DEF Completed
  <2>4. (InHand(e) <=> \E t : T = {t}) /\ (~InHand(e) <=> T = {})
    <3>1. \A t \in Threads : event[t] = e => pc[t] # "port"
        BY <1>1 DEF IInv, ThreadInv, Working
    <3>2. CASE InHand(e)
      <4>1. PICK t \in Threads : event[t] = e
          BY <3>2 DEF InHand
      <4>2. \A u \in Threads : event[u] = e => u = t
          BY <1>1, <4>1 DEF IInv, PlaceInv, None, mAcceptEvents
      <4>3. T = {t}
          BY <3>1, <4>1, <4>2
      <4> QED BY <3>2, <4>3
    <3>3. CASE ~InHand(e)
      <4>1. T = {}
          BY <3>3 DEF InHand
      <4> QED BY <3>3, <4>1
    <3> QED BY <3>2, <3>3
  <2>5. /\ Cardinality(H) = IF Ahead(e) THEN 1 ELSE 0
        /\ Cardinality(P) = IF e \in posted THEN 1 ELSE 0
        /\ Cardinality(C) = IF Completed(e) THEN 1 ELSE 0
        /\ Cardinality(T) = IF InHand(e) THEN 1 ELSE 0
    <3> HIDE DEF H, P, C, T
    <3>1. Cardinality(H) = IF Ahead(e) THEN 1 ELSE 0
        BY <2>1, OfOne
    <3>2. Cardinality(P) = IF e \in posted THEN 1 ELSE 0
        BY <2>2, OfOne
    <3>3. Cardinality(C) = IF Completed(e) THEN 1 ELSE 0
        BY <2>3, OfOne
    <3>4. Cardinality(T) = IF InHand(e) THEN 1 ELSE 0
        BY <2>4, OfOne
    <3> QED BY <3>1, <3>2, <3>3, <3>4
  <2>6. Places(e) = Cardinality(H) + Cardinality(P) + Cardinality(C) + Cardinality(T)
      BY DEF Places
  <2>7. /\ Ahead(e) \/ e \in posted \/ Completed(e) \/ InHand(e)
        /\ Ahead(e) => e \notin posted /\ ~Completed(e) /\ ~InHand(e)
        /\ e \in posted => ~Completed(e) /\ ~InHand(e)
        /\ Completed(e) => ~InHand(e)
      BY <1>1 DEF IInv, PlaceInv
  <2> HIDE DEF H, P, C, T
  <2> QED BY <2>5, <2>6, <2>7
<1>2. IInv => EventInOnePlace
    BY <1>1 DEF EventInOnePlace
<1> QED BY <1>2, Invariant, PTL

\* The service lets its clients in as Admission says, whatever the order in which
\* its threads take accepts and lose connections: it implements Admission.
THEOREM AdmissionSpecHolds == Spec => AdmissionSpec
<1>1. Init => A!Init
    BY DEF Init, A!Init, Fate
<1>2. ASSUME IInv, Next
      PROVE  A!Next \/ UNCHANGED Fate
  <2> SessionInv
      BY <1>2 DEF IInv, SessionInv
  <2>1. A!Served = Served
      BY DEF A!Served, Served, Fate
  <2>2. A!Cardinality(Served) = mSessionCount
    <3>1. A!Cardinality(Served) = Cardinality(Served)
        BY DEF A!Cardinality, Cardinality
    <3> QED BY <1>2, <3>1 DEF IInv, CountInv
  <2>3. ASSUME NEW c \in Clients, NEW f, client' = [client EXCEPT ![c] = f]
        PROVE  Fate' = [Fate EXCEPT ![c] = IF f = "accepted" THEN "waiting" ELSE f]
      BY <1>2, <2>3 DEF IInv, TypeOK, Fate
  <2>4. CASE UNCHANGED client
      BY <2>4 DEF Fate
  <2>5. ASSUME NEW c \in Clients, ClientArrives(c) PROVE A!Next
    <3>1. A!Arrive(c)
        BY <2>3, <2>5 DEF ClientArrives, A!Arrive, A!Becomes, Fate
    <3> QED BY <3>1 DEF A!Next
  <2>6. ASSUME NEW e \in mAcceptEvents, NEW c \in Clients, AcceptCompletes(e, c) PROVE UNCHANGED Fate
      BY <1>2, <2>6 DEF IInv, TypeOK, AcceptCompletes, Fate
  <2>7. ASSUME NEW c \in Clients, client[c] \in {"waiting", "accepted"}, client' = [client EXCEPT ![c] = "failed"]
        PROVE  A!Next
    <3>1. A!Lose(c)
        BY <2>3, <2>7 DEF A!Lose, A!Becomes, Fate
    <3> QED BY <3>1 DEF A!Next
  <2>8. ASSUME NEW t \in Threads, AddSession(t) PROVE A!Next
    <3>1. PICK c \in Clients :
             /\ client[c] = "accepted"
             /\ \/ client' = [client EXCEPT ![c] = "served"] /\ mSessionCount < maxSessionCount
                \/ client' = [client EXCEPT ![c] = "refused"] /\ mSessionCount = maxSessionCount
        BY <1>2, <2>8, AddSessionStep DEF IInv
    <3>2. Fate[c] = "waiting"
        BY <3>1 DEF Fate
    <3>3. CASE client' = [client EXCEPT ![c] = "served"] /\ mSessionCount < maxSessionCount
      <4>1. Fate' = [Fate EXCEPT ![c] = "served"]
          BY <2>3, <3>3
      <4>2. A!Cardinality(A!Served) < maxSessionCount
          BY <2>1, <2>2, <3>3
      <4>3. A!Admit(c)
          BY <3>2, <4>1, <4>2 DEF A!Admit, A!Becomes
      <4> QED BY <4>3 DEF A!Next
    <3>4. CASE client' = [client EXCEPT ![c] = "refused"] /\ mSessionCount = maxSessionCount
      <4>1. Fate' = [Fate EXCEPT ![c] = "refused"]
          BY <2>3, <3>4
      <4>2. A!Cardinality(A!Served) = maxSessionCount
          BY <2>1, <2>2, <3>4
      <4>3. A!Refuse(c)
          BY <3>2, <4>1, <4>2 DEF A!Refuse, A!Becomes
      <4> QED BY <4>3 DEF A!Next
    <3> QED BY <3>1, <3>3, <3>4
  <2>9. ASSUME NEW t \in Threads, RemoveSession(t) PROVE A!Next
    <3>1. PICK c \in Clients : client[c] = "served" /\ client' = [client EXCEPT ![c] = "left"]
        BY <1>2, <2>9, RemoveSessionStep DEF IInv
    <3>2. A!Leave(c)
        BY <2>3, <3>1 DEF A!Leave, A!Becomes, Fate
    <3> QED BY <3>2 DEF A!Next
  <2>10. ASSUME NEW t \in Threads, SetupFails(t) PROVE A!Next
      BY <1>2, <2>7, <2>10, SetupFailsStep DEF IInv
  <2>11. ASSUME NEW e \in mAcceptEvents, AcceptFails(e) PROVE A!Next \/ UNCHANGED Fate
    <3>1. \/ client' = client
          \/ \E c \in Clients : client[c] = "waiting" /\ client' = [client EXCEPT ![c] = "failed"]
        BY <2>11, Zenon DEF AcceptFails
    <3> QED BY <2>4, <2>7, <3>1
  <2>12. ASSUME NEW t \in Threads, Step(t) PROVE A!Next \/ UNCHANGED Fate
    <3>1. CASE \/ RegisterAccept(t) \/ RegisterAcceptFails(t) \/ CreateSessionFails(t) \/ Setup(t) \/ Refuse(t)
               \/ SetConnected(t) \/ Disconnect(t) \/ \E e \in mAcceptEvents : TakeAccept(t, e)
               \/ \E s \in mIsConnected : LoseConnection(t, s)
        BY <2>4, <3>1 DEF RegisterAccept, RegisterAcceptFails, CreateSessionFails, Setup, Refuse, SetConnected,
                    Disconnect, TakeAccept, LoseConnection
    <3> QED BY <2>8, <2>9, <2>10, <2>12, <3>1 DEF Step
  <2>13. CASE StartAccept \/ \E t \in IoThreads : Launch(t)
      BY <2>4, <2>13, SetUpMoves, <1>2 DEF Launch, IInv
  <2> QED BY <1>2, <2>5, <2>6, <2>11, <2>12, <2>13 DEF Next, Kernel
<1>3. IInv /\ [Next]_vars => [A!Next]_Fate
    BY <1>2 DEF vars, Fate
<1> QED BY <1>1, <1>3, Invariant, PTL DEF Spec, AdmissionSpec, A!Spec
=============================================================================

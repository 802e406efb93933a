----------------------------- MODULE DummyClient -----------------------------
(***************************************************************************)
(* The dummy client (DummyClient/): main and ClientService::Run, the       *)
(* callbacks of its sessions, AgentManager, and the loop that hands the    *)
(* server's packets to S2C_PacketDispatcher.                               *)
(*                                                                         *)
(* main creates and connects every session before the IO threads start;    *)
(* then the callbacks of different sessions run concurrently, those of one *)
(* session in the order module Session allows.  One action is one critical *)
(* section of AgentManager's lock, one call that may fail, or one packet.  *)
(* The server (external) answers EnterRoom with the id it was sent.        *)
(***************************************************************************)
EXTENDS Naturals

CONSTANT maxSessionCount  \* gConfig

ASSUME CountAssumption == maxSessionCount \in Nat

\* CreateSession numbers the sessions in the order they are created.
Sessions == 1..maxSessionCount

VARIABLES
    main,       \* where main stands; "running": all threads started; "crashed"
    created,    \* sessions created so far
    conn,       \* where the callbacks of each session stand
    nextAgent,  \* sNextAgentId
    agentId,    \* the id AddAgent gave the session's agent; 0: none
    mAgents,    \* AgentManager::mAgents: pairs <<agent id, session>>
    mSessionToAgentIdMap,  \* pairs <<session id, agent id>>
    asked,      \* history: sessions that have sent EnterRoom, with what id
    mQueue,     \* packets in mPacketQueue: <<session, packet id, payload id>>
    logged      \* history: errors logged over an agent: <<session, what>>

agentVars == <<nextAgent, agentId, mAgents, mSessionToAgentIdMap>>
packetVars == <<asked, mQueue, logged>>
vars == <<main, created, conn, agentVars, packetVars>>

Init ==
    /\ main = "create"
    /\ created = 0
    /\ conn = [s \in Sessions |-> "none"]
    /\ nextAgent = 1
    /\ agentId = [s \in Sessions |-> 0]
    /\ mAgents = {}
    /\ mSessionToAgentIdMap = {}
    /\ asked = {}
    /\ mQueue = {}
    /\ logged = {}

-------------------------------------------------------------------------------
(* main                                                                    *)

\* A call of main's that may fail: RegisterConnect then returns the error, Run
\* returns it, and main's assertion ends the process.
Call(from, to) == main = from /\ main' \in {to, "crashed"}

\* Service::CreateSession; the socket may not be had, or the port may refuse
\* the session, and Run then uses the null pointer before it looks at it.
CreateSession ==
    /\ created < maxSessionCount
    /\ Call("create", "reuse")
    /\ created' = created + 1
    /\ UNCHANGED <<conn, agentVars, packetVars>>

\* RegisterConnect: SocketUtils::SetReuseAddress
SetReuseAddress == Call("reuse", "bind") /\ UNCHANGED <<created, conn, agentVars, packetVars>>

\* SocketUtils::BindAnyAddress
BindAnyAddress == Call("bind", "connect") /\ UNCHANGED <<created, conn, agentVars, packetVars>>

\* SocketUtils::ConnectAsync
ConnectAsync ==
    /\ Call("connect", "create")
    /\ conn' = [conn EXCEPT ![created] = "connecting"]
    /\ UNCHANGED <<created, agentVars, packetVars>>

\* Every session has its connect: the loop's thread and the IO threads start.
Launch ==
    /\ main = "create"
    /\ created = maxSessionCount
    /\ main' = "running"
    /\ UNCHANGED <<created, conn, agentVars, packetVars>>

-------------------------------------------------------------------------------
(* Callbacks of the sessions, on IO threads                                *)

In(s, label) == main = "running" /\ conn[s] = label
Goto(s, label) == conn' = [conn EXCEPT ![s] = label]

\* ProcessConnect with an error: it is logged, and nothing comes of the session.
ConnectFailed(s) ==
    /\ In(s, "connecting")
    /\ Goto(s, "failed")
    /\ UNCHANGED <<main, created, agentVars, packetVars>>

\* OnConnected, AddAgent: the id is taken outside the lock,
NewAgent(s) ==
    /\ In(s, "connecting")
    /\ agentId' = [agentId EXCEPT ![s] = nextAgent]
    /\ nextAgent' = nextAgent + 1
    /\ Goto(s, "add")
    /\ UNCHANGED <<main, created, mAgents, mSessionToAgentIdMap, packetVars>>

\* and the agent is inserted under it.
AddAgent(s) ==
    /\ In(s, "add")
    /\ mAgents' = mAgents \cup {<<agentId[s], s>>}
    /\ mSessionToAgentIdMap' = mSessionToAgentIdMap \cup {<<s, agentId[s]>>}
    /\ Goto(s, "enter")
    /\ UNCHANGED <<main, created, nextAgent, agentId, packetVars>>

\* OnConnected: Send(C2S_EnterRoom).
EnterRoom(s) ==
    /\ In(s, "enter")
    /\ asked' = asked \cup {<<s, agentId[s]>>}
    /\ Goto(s, "open")
    /\ UNCHANGED <<main, created, agentVars, mQueue, logged>>

\* The agent OnDisconnected looks for: the one whose id is the session's number.
\* mutant: the newest agent's.
AgentToEnd_Newest(s) == nextAgent - 1
AgentToEnd(s) == s

\* OnDisconnected: FindAgent; a null agent is used all the same.
FindAgent(s) ==
    /\ In(s, "open")
    /\ IF \E a \in mAgents : a[1] = AgentToEnd(s)
       THEN Goto(s, "remove") /\ UNCHANGED main
       ELSE main' = "crashed" /\ UNCHANGED conn
    /\ UNCHANGED <<created, agentVars, packetVars>>

\* What RemoveAgent leaves of the map when the agent found is of session r;
\* mutant: nothing is erased.
MapWithout_Kept(r) == mSessionToAgentIdMap
MapWithout(r) == {e \in mSessionToAgentIdMap : e[1] # r}

\* OnDisconnected: RemoveAgent(agent->GetId()), under the lock.
RemoveAgent(s) ==
    /\ In(s, "remove")
    /\ \/ \E a \in mAgents :
             /\ a[1] = AgentToEnd(s)
             /\ mAgents' = mAgents \ {a}
             /\ mSessionToAgentIdMap' = MapWithout(a[2])
             /\ UNCHANGED logged
       \/ /\ \A a \in mAgents : a[1] # AgentToEnd(s)
          /\ logged' = logged \cup {<<s, "Failed to remove agent">>}
          /\ UNCHANGED <<mAgents, mSessionToAgentIdMap>>
    /\ Goto(s, "ended")
    /\ UNCHANGED <<main, created, nextAgent, agentId, asked, mQueue>>

\* OnReceived: PushPackets.  The server's answer or a chat; a receive may be
\* handled after the session's end.
OnReceived(s, packet) ==
    /\ main = "running"
    /\ conn[s] \in {"open", "remove", "ended"}
    /\ packet[1] = s
    /\ packet[2] = "S2C_EnterRoom" => <<s, packet[3]>> \in asked
    /\ packet \notin mQueue
    /\ mQueue' = mQueue \cup {packet}
    /\ asked' = IF packet[2] = "S2C_EnterRoom" THEN asked \ {<<s, packet[3]>>} ELSE asked
    /\ UNCHANGED <<main, created, conn, agentVars, logged>>

-------------------------------------------------------------------------------
(* The loop                                                                *)

\* FindAgentBySessionId: its agents, one at most, by both maps; mutant: the agent
\* whose id is the session's number.
AgentsOf_ByNumber(s) == {a \in mAgents : a[1] = s}
AgentsOf(s) == {a \in mAgents : <<s, a[1]>> \in mSessionToAgentIdMap}

\* Handle_S2C_EnterRoom: what it logs.
HandleEnterRoom(s, id) ==
    IF AgentsOf(s) = {} THEN {<<s, "Agent not found">>}
    ELSE IF \E a \in AgentsOf(s) : a[1] # id THEN {<<s, "Agent ID mismatch">>}
    ELSE {}

\* mIdToHandler: the handler registered for S2C_EnterRoom; the one for S2C_Chat
\* does nothing, and Handle_Invalid, which all other ids have, logs the id.
mIdToHandler(packet) ==
    IF packet[2] = "S2C_EnterRoom" THEN HandleEnterRoom(packet[1], packet[3]) ELSE {}

\* ProcessPackets: TryPop and DispatchPacket.
Dispatch ==
    /\ main = "running"
    /\ \E packet \in mQueue :
          /\ mQueue' = mQueue \ {packet}
          /\ logged' = logged \cup mIdToHandler(packet)
    /\ UNCHANGED <<main, created, conn, agentVars, asked>>

-------------------------------------------------------------------------------
\* Ids of the packets that may come, with the payload's id.
Packets == (Sessions \X {"S2C_EnterRoom"} \X Sessions) \cup (Sessions \X {"S2C_Chat"} \X {0})

Next == \/ CreateSession \/ SetReuseAddress \/ BindAnyAddress \/ ConnectAsync \/ Launch
        \/ \E s \in Sessions :
              \/ ConnectFailed(s) \/ NewAgent(s) \/ AddAgent(s) \/ EnterRoom(s)
              \/ FindAgent(s) \/ RemoveAgent(s)
              \/ \E packet \in Packets : OnReceived(s, packet)
        \/ Dispatch

Spec == Init /\ [][Next]_vars

-------------------------------------------------------------------------------
\* Type correctness of the dummy client.
TypeOK ==
    /\ main \in {"create", "reuse", "bind", "connect", "running", "crashed"}
    /\ created \in 0..maxSessionCount
    /\ conn \in [Sessions -> {"none", "connecting", "failed", "add", "enter", "open", "remove", "ended"}]
    /\ nextAgent \in 1..(maxSessionCount + 1)
    /\ agentId \in [Sessions -> 0..maxSessionCount]
    /\ mAgents \subseteq Sessions \X Sessions
    /\ mSessionToAgentIdMap \subseteq Sessions \X Sessions
    /\ asked \subseteq Sessions \X Sessions
    /\ mQueue \subseteq Packets
    /\ logged \subseteq Sessions \X {"Agent not found", "Agent ID mismatch", "Failed to remove agent"}

Added(s) == conn[s] \in {"enter", "open", "remove", "ended"}

\* The two maps name the same agents and the same sessions, whichever agent was
\* removed for which session, and however the callbacks overlap.
MapsAgree ==
    /\ mSessionToAgentIdMap = {<<a[2], a[1]>> : a \in mAgents}
    /\ \A a, b \in mAgents : a[1] = b[1] \/ a[2] = b[2] => a = b

\* OnDisconnected removes the agent whose id is the number of its session
\* (DummyClient/Network/Session.cpp:36).  So an agent lives exactly as long as the
\* session of that number, not as long as the session it was added for, which is
\* another one when the connections do not come up in the order of their numbers.
AgentFollowsNumber ==
    \A s \in Sessions : Added(s) =>
        (<<agentId[s], s>> \in mAgents <=> conn[agentId[s]] # "ended")

\* An answer of the server is never taken for another agent's, and none fails to
\* find its agent unless a session has ended: the session itself, or the one
\* whose number the agent has for its id.
AnswerFindsAgent ==
    \A s \in Sessions :
        /\ <<s, "Agent ID mismatch">> \notin logged
        /\ <<s, "Failed to remove agent">> \notin logged
        /\ <<s, "Agent not found">> \in logged => conn[agentId[s]] = "ended"
===============================================================================

-------------------------- MODULE DummyClient_proofs --------------------------
(***************************************************************************)
(* Proofs about DummyClient for any number of sessions.  The invariant     *)
(* says who has which agent: AddAgent gives every session another id, none *)
(* of them larger than the number of sessions, and the two maps hold the   *)
(* agents added whose id is not the number of a session that has ended.    *)
(***************************************************************************)
EXTENDS DummyClient, FiniteSetTheorems, TLAPS

USE CountAssumption

\* main connects the sessions one by one, in the order of their numbers.
MainInv ==
    /\ main \in {"reuse", "bind", "connect"} => created \in Sessions /\ conn[created] = "none"
    /\ \A s \in Sessions : s > created => conn[s] = "none"

\* Ids are given once, and there are no more of them than sessions.
Numbered == {s \in Sessions : agentId[s] # 0}
NumberInv ==
    /\ \A s \in Sessions : agentId[s] = 0 <=> conn[s] \in {"none", "connecting", "failed"}
    /\ \A s \in Sessions : agentId[s] < nextAgent
    /\ \A s, r \in Sessions : agentId[s] = agentId[r] /\ s # r => agentId[s] = 0
    /\ nextAgent = Cardinality(Numbered) + 1

\* What the two maps hold; a session that looks for its agent or has removed one
\* found the agent that has its number.
AgentInv ==
    /\ \A i, s \in Sessions :
          <<i, s>> \in mAgents <=> i = agentId[s] /\ Added(s) /\ conn[i] # "ended"
    /\ \A i, s \in Sessions : <<s, i>> \in mSessionToAgentIdMap <=> <<i, s>> \in mAgents
    /\ \A s \in Sessions : conn[s] \in {"remove", "ended"} =>
          \E r \in Sessions : agentId[r] = s /\ Added(r)

\* Questions and answers carry the id of their session's agent.
PacketInv ==
    /\ \A q \in asked : q[2] = agentId[q[1]] /\ Added(q[1])
    /\ \A p \in mQueue : Added(p[1]) /\ (p[2] = "S2C_EnterRoom" => p[3] = agentId[p[1]])
    /\ \A l \in logged : /\ l[2] = "Agent not found" /\ Added(l[1])
                         /\ conn[agentId[l[1]]] = "ended"

IInv == TypeOK /\ MainInv /\ NumberInv /\ AgentInv /\ PacketInv

USE DEF agentVars, packetVars

LEMMA InitHolds == Init => IInv
<1> SUFFICES ASSUME Init PROVE IInv
    OBVIOUS
<1>1. TypeOK
    BY DEF Init, TypeOK, Sessions
<1>2. MainInv
    BY DEF Init, MainInv
<1>3. NumberInv
  <2>1. Numbered = {}
      BY DEF Init, Numbered
  <2>2. nextAgent = Cardinality(Numbered) + 1
      BY <2>1, FS_EmptySet DEF Init
  <2> QED BY <2>2 DEF Init, NumberInv
<1>4. AgentInv
    BY DEF Init, AgentInv, Added
<1>5. PacketInv
    BY DEF Init, PacketInv
<1> QED BY <1>1, <1>2, <1>3, <1>4, <1>5 DEF IInv

-------------------------------------------------------------------------------
(* Who has which id                                                        *)

\* There is an id left for every session without one.
LEMMA IdsLeft ==
    ASSUME TypeOK, NumberInv, NEW s \in Sessions, agentId[s] = 0
    PROVE  /\ nextAgent \in Sessions
           /\ Cardinality(Numbered \cup {s}) = Cardinality(Numbered) + 1
<1>1. IsFiniteSet(Sessions) /\ Cardinality(Sessions) = maxSessionCount
    BY FS_Interval DEF Sessions
<1>2. Numbered \subseteq Sessions /\ Numbered \cup {s} \subseteq Sessions /\ s \notin Numbered
    BY DEF Numbered
<1>3. IsFiniteSet(Numbered) /\ Cardinality(Numbered \cup {s}) <= maxSessionCount
    BY <1>1, <1>2, FS_Subset
<1>4. Cardinality(Numbered \cup {s}) = Cardinality(Numbered) + 1 /\ Cardinality(Numbered) \in Nat
    BY <1>2, <1>3, FS_AddElement, FS_CardinalityType
<1> QED BY <1>3, <1>4 DEF NumberInv, Sessions

LEMMA NewAgentNumbers ==
    ASSUME TypeOK, NumberInv, NEW s \in Sessions, NewAgent(s)
    PROVE  NumberInv' /\ nextAgent' \in 1..(maxSessionCount + 1)
           /\ agentId' \in [Sessions -> 0..maxSessionCount]
<1>1. conn[s] = "connecting" /\ conn' = [conn EXCEPT ![s] = "add"]
    BY DEF NewAgent, In, Goto
<1>2. agentId[s] = 0
    BY <1>1 DEF NumberInv
<1>3. nextAgent \in Sessions /\ Cardinality(Numbered \cup {s}) = Cardinality(Numbered) + 1
    BY <1>2, IdsLeft
<1>4. nextAgent' = nextAgent + 1 /\ agentId' = [agentId EXCEPT ![s] = nextAgent]
    BY DEF NewAgent
<1>5. agentId'[s] = nextAgent /\ \A r \in Sessions : r # s => agentId'[r] = agentId[r]
    BY <1>4 DEF TypeOK
<1>6. nextAgent' \in 1..(maxSessionCount + 1) /\ agentId' \in [Sessions -> 0..maxSessionCount]
  <2>1. agentId \in [Sessions -> 0..maxSessionCount]
      BY DEF TypeOK
  <2>2. nextAgent \in 0..maxSessionCount /\ nextAgent + 1 \in 1..(maxSessionCount + 1)
      BY <1>3 DEF Sessions
  <2> QED BY <1>4, <2>1, <2>2
<1>7. nextAgent \in Nat /\ nextAgent # 0 /\ \A r \in Sessions : agentId[r] \in Nat /\ agentId[r] < nextAgent
  <2>1. agentId \in [Sessions -> 0..maxSessionCount]
      BY DEF TypeOK
  <2>2. nextAgent \in Nat /\ nextAgent # 0
      BY <1>3 DEF Sessions
  <2> QED BY <2>1, <2>2 DEF NumberInv
<1>8. Numbered' = Numbered \cup {s}
  <2>1. \A r \in Sessions : agentId'[r] # 0 <=> agentId[r] # 0 \/ r = s
      BY <1>5, <1>7
  <2> QED BY <2>1 DEF Numbered
<1>9. \A r \in Sessions : agentId'[r] = 0 <=> conn'[r] \in {"none", "connecting", "failed"}
  <2>1. conn'[s] = "add" /\ \A r \in Sessions : r # s => conn'[r] = conn[r]
      BY <1>1 DEF TypeOK
  <2> QED BY <2>1, <1>5, <1>7 DEF NumberInv
<1>10. \A r \in Sessions : agentId'[r] < nextAgent'
    BY <1>4, <1>5, <1>7
<1>11. \A q, r \in Sessions : agentId'[q] = agentId'[r] /\ q # r => agentId'[q] = 0
    BY <1>5, <1>7 DEF NumberInv
<1>12. nextAgent' = Cardinality(Numbered)' + 1
    BY <1>3, <1>4, <1>8 DEF NumberInv
<1> QED BY <1>6, <1>9, <1>10, <1>11, <1>12 DEF NumberInv

-------------------------------------------------------------------------------
(* Types and the order of main                                             *)

Labels == {"none", "connecting", "failed", "add", "enter", "open", "remove", "ended"}

\* What becomes of the callbacks of one session in a step.
Moves(s) == \/ conn'[s] = conn[s]
            \/ conn[s] = "none" /\ conn'[s] = "connecting" /\ ConnectAsync
            \/ conn[s] = "connecting" /\ conn'[s] = "failed" /\ ConnectFailed(s)
            \/ conn[s] = "connecting" /\ conn'[s] = "add" /\ NewAgent(s)
            \/ conn[s] = "add" /\ conn'[s] = "enter" /\ AddAgent(s)
            \/ conn[s] = "enter" /\ conn'[s] = "open" /\ EnterRoom(s)
            \/ conn[s] = "open" /\ conn'[s] = "remove" /\ FindAgent(s)
            \/ conn[s] = "remove" /\ conn'[s] = "ended" /\ RemoveAgent(s)

LEMMA ConnMoves ==
    ASSUME TypeOK, MainInv, Next
    PROVE  conn' \in [Sessions -> Labels] /\ \A s \in Sessions : Moves(s)
<1>1. conn \in [Sessions -> Labels]
    BY DEF TypeOK, Labels
<1>2. CASE conn' = conn
    BY <1>1, <1>2 DEF Moves
<1>3. CASE ConnectAsync
  <2>1. created \in Sessions /\ conn[created] = "none" /\ conn' = [conn EXCEPT ![created] = "connecting"]
      BY <1>3 DEF ConnectAsync, Call, MainInv
  <2> QED BY <1>1, <1>3, <2>1 DEF Moves, Labels
<1>4. ASSUME NEW s \in Sessions,
             \/ ConnectFailed(s) \/ NewAgent(s) \/ AddAgent(s) \/ EnterRoom(s)
             \/ (FindAgent(s) /\ conn' # conn) \/ RemoveAgent(s)
      PROVE  conn' \in [Sessions -> Labels] /\ \A r \in Sessions : Moves(r)
  <2>1. /\ \E l \in Labels : conn' = [conn EXCEPT ![s] = l]
        /\ \/ conn[s] = "connecting" /\ conn' = [conn EXCEPT ![s] = "failed"] /\ ConnectFailed(s)
           \/ conn[s] = "connecting" /\ conn' = [conn EXCEPT ![s] = "add"] /\ NewAgent(s)
           \/ conn[s] = "add" /\ conn' = [conn EXCEPT ![s] = "enter"] /\ AddAgent(s)
           \/ conn[s] = "enter" /\ conn' = [conn EXCEPT ![s] = "open"] /\ EnterRoom(s)
           \/ conn[s] = "open" /\ conn' = [conn EXCEPT ![s] = "remove"] /\ FindAgent(s)
           \/ conn[s] = "remove" /\ conn' = [conn EXCEPT ![s] = "ended"] /\ RemoveAgent(s)
    <3>1. CASE ConnectFailed(s)
        BY <3>1 DEF ConnectFailed, In, Goto, Labels
    <3>2. CASE NewAgent(s)
        BY <3>2 DEF NewAgent, In, Goto, Labels
    <3>3. CASE AddAgent(s)
        BY <3>3 DEF AddAgent, In, Goto, Labels
    <3>4. CASE EnterRoom(s)
        BY <3>4 DEF EnterRoom, In, Goto, Labels
    <3>5. CASE FindAgent(s) /\ conn' # conn
        BY <3>5 DEF FindAgent, In, Goto, Labels
    <3>6. CASE RemoveAgent(s)
        BY <3>6 DEF RemoveAgent, In, Goto, Labels
    <3> QED BY <1>4, <3>1, <3>2, <3>3, <3>4, <3>5, <3>6
  <2>2. conn' \in [Sessions -> Labels]
      BY <1>1, <2>1
  <2>3. \A r \in Sessions : r # s => conn'[r] = conn[r]
      BY <1>1, <2>1
  <2>4. Moves(s)
      BY <1>1, <2>1 DEF Moves
  <2> QED BY <2>2, <2>3, <2>4 DEF Moves
<1>5. \/ conn' = conn \/ ConnectAsync
      \/ \E s \in Sessions : \/ ConnectFailed(s) \/ NewAgent(s) \/ AddAgent(s) \/ EnterRoom(s)
                             \/ (FindAgent(s) /\ conn' # conn) \/ RemoveAgent(s)
    BY DEF Next, CreateSession, SetReuseAddress, BindAnyAddress, Launch, OnReceived, Dispatch
<1> QED BY <1>2, <1>3, <1>4, <1>5

\* Only NewAgent gives an id.
LEMMA IdsKept ==
    ASSUME Next, \A s \in Sessions : ~NewAgent(s)
    PROVE  agentId' = agentId /\ nextAgent' = nextAgent
BY DEF Next, CreateSession, SetReuseAddress, BindAnyAddress, ConnectAsync, Launch, ConnectFailed,
       AddAgent, EnterRoom, FindAgent, RemoveAgent, OnReceived, Dispatch

\* A session keeps its agent's id, and what has ended does not begin again.
LEMMA AddedKept ==
    ASSUME TypeOK, MainInv, Next
    PROVE  \A s \in Sessions : /\ Added(s) => Added(s)' /\ agentId'[s] = agentId[s]
                               /\ conn[s] = "ended" => conn'[s] = "ended"
<1>1. \A s \in Sessions : /\ Added(s) => Added(s)'
                          /\ conn[s] = "ended" => conn'[s] = "ended"
    BY ConnMoves DEF Moves, Added
<1>2. ASSUME NEW r \in Sessions, NewAgent(r), NEW s \in Sessions, Added(s)
      PROVE  agentId'[s] = agentId[s]
  <2>1. conn[r] = "connecting" /\ agentId' = [agentId EXCEPT ![r] = nextAgent]
      BY <1>2 DEF NewAgent, In
  <2>2. s # r
      BY <1>2, <2>1 DEF Added
  <2> QED BY <2>1, <2>2 DEF TypeOK
<1> QED BY <1>1, <1>2, IdsKept

LEMMA NumberStep ==
    ASSUME TypeOK, MainInv, NumberInv, Next
    PROVE  NumberInv' /\ nextAgent' \in 1..(maxSessionCount + 1)
           /\ agentId' \in [Sessions -> 0..maxSessionCount]
<1>1. CASE \E s \in Sessions : NewAgent(s)
    BY <1>1, NewAgentNumbers
<1>2. CASE \A s \in Sessions : ~NewAgent(s)
  <2>1. agentId' = agentId /\ nextAgent' = nextAgent
      BY <1>2, IdsKept
  <2>2. Numbered' = Numbered
      BY <2>1 DEF Numbered
  <2>3. \A s \in Sessions : conn'[s] \in {"none", "connecting", "failed"}
                            <=> conn[s] \in {"none", "connecting", "failed"}
      BY <1>2, ConnMoves DEF Moves
  <2>4. nextAgent' \in 1..(maxSessionCount + 1) /\ agentId' \in [Sessions -> 0..maxSessionCount]
      BY <2>1 DEF TypeOK
  <2> QED BY <2>1, <2>2, <2>3, <2>4 DEF NumberInv
<1> QED BY <1>1, <1>2

LEMMA MainStep ==
    ASSUME TypeOK, MainInv, Next
    PROVE  /\ MainInv'
           /\ main' \in {"create", "reuse", "bind", "connect", "running", "crashed"}
           /\ created' \in 0..maxSessionCount
<1>0. created \in 0..maxSessionCount
      /\ main \in {"create", "reuse", "bind", "connect", "running", "crashed"}
    BY DEF TypeOK
<1>1. CASE CreateSession
  <2>1. created < maxSessionCount /\ created' = created + 1 /\ conn' = conn /\ main' \in {"reuse", "crashed"}
      BY <1>1 DEF CreateSession, Call
  <2>2. created' \in Sessions /\ created' > created
      BY <1>0, <2>1 DEF Sessions
  <2>3. \A s \in Sessions : s > created' => s > created
      BY <1>0, <2>1 DEF Sessions
  <2> QED BY <1>0, <2>1, <2>2, <2>3 DEF MainInv, Sessions
<1>2. CASE SetReuseAddress \/ BindAnyAddress \/ Launch
    BY <1>0, <1>2 DEF SetReuseAddress, BindAnyAddress, Launch, Call, MainInv
<1>3. CASE ConnectAsync
  <2>1. created' = created /\ main' \in {"create", "crashed"} /\ main = "connect"
      BY <1>3 DEF ConnectAsync, Call
  <2>2. created \in Sessions /\ conn' = [conn EXCEPT ![created] = "connecting"]
      BY <1>3, <2>1 DEF ConnectAsync, MainInv
  <2>3. \A s \in Sessions : s > created => conn'[s] = conn[s]
    <3>1. conn \in [Sessions -> Labels]
        BY DEF TypeOK, Labels
    <3>2. \A s \in Sessions : s > created => s # created
        BY <1>0 DEF Sessions
    <3> QED BY <2>2, <3>1, <3>2
  <2> QED BY <1>0, <2>1, <2>3 DEF MainInv
<1>4. CASE \/ Dispatch
           \/ \E s \in Sessions :
                 \/ ConnectFailed(s) \/ NewAgent(s) \/ AddAgent(s) \/ EnterRoom(s)
                 \/ FindAgent(s) \/ RemoveAgent(s) \/ \E packet \in Packets : OnReceived(s, packet)
  <2>1. main' \in {"running", "crashed"} /\ created' = created
    <3>1. CASE Dispatch
        BY <3>1 DEF Dispatch
    <3>2. ASSUME NEW s \in Sessions,
                 \/ ConnectFailed(s) \/ NewAgent(s) \/ AddAgent(s) \/ EnterRoom(s)
                 \/ FindAgent(s) \/ RemoveAgent(s) \/ \E packet \in Packets : OnReceived(s, packet)
          PROVE  main' \in {"running", "crashed"} /\ created' = created
        BY <3>2 DEF ConnectFailed, NewAgent, AddAgent, EnterRoom, FindAgent, RemoveAgent, OnReceived, In
    <3> QED BY <1>4, <3>1, <3>2
  <2>2. \A s \in Sessions : conn[s] = "none" => conn'[s] = "none"
    <3>1. main = "running"
        BY <1>4 DEF ConnectFailed, NewAgent, AddAgent, EnterRoom, FindAgent, RemoveAgent, OnReceived,
                    Dispatch, In
    <3>2. ~ConnectAsync
        BY <3>1 DEF ConnectAsync, Call
    <3> QED BY <3>2, ConnMoves DEF Moves
  <2> QED BY <1>0, <2>1, <2>2 DEF MainInv
<1> QED BY <1>1, <1>2, <1>3, <1>4 DEF Next

-------------------------------------------------------------------------------
(* What the maps hold                                                      *)

\* The maps are as AgentInv says when no agent comes or goes.
LEMMA AgentsKept ==
    ASSUME TypeOK, MainInv, NumberInv, AgentInv, Next,
           \A s \in Sessions : ~AddAgent(s) /\ ~RemoveAgent(s)
    PROVE  /\ mAgents' = mAgents /\ mSessionToAgentIdMap' = mSessionToAgentIdMap
           /\ AgentInv'
<1>1. mAgents' = mAgents /\ mSessionToAgentIdMap' = mSessionToAgentIdMap
    BY DEF Next, CreateSession, SetReuseAddress, BindAnyAddress, ConnectAsync, Launch, ConnectFailed,
           NewAgent, EnterRoom, FindAgent, OnReceived, Dispatch
<1>2. \A s \in Sessions : (Added(s)' <=> Added(s)) /\ (conn'[s] = "ended" <=> conn[s] = "ended")
    BY ConnMoves DEF Moves, Added
<1>3. \A s \in Sessions : Added(s) => agentId'[s] = agentId[s]
    BY AddedKept DEF Added
<1>4. \A s \in Sessions : conn'[s] \in {"remove", "ended"} =>
          \E r \in Sessions : agentId'[r] = s /\ Added(r)'
  <2>1. ASSUME NEW s \in Sessions, conn[s] \in {"remove", "ended"}
        PROVE  \E r \in Sessions : agentId'[r] = s /\ Added(r)'
      BY <1>2, <1>3, <2>1 DEF AgentInv
  <2>2. ASSUME NEW s \in Sessions, FindAgent(s), conn'[s] # conn[s]
        PROVE  \E r \in Sessions : agentId'[r] = s /\ Added(r)'
    <3>1. \E a \in mAgents : a[1] = s
        BY <2>2 DEF FindAgent, AgentToEnd
    <3>2. PICK r \in Sessions : <<s, r>> \in mAgents
      <4>1. mAgents \subseteq Sessions \X Sessions
          BY DEF TypeOK
      <4>2. PICK a \in mAgents : a[1] = s
          BY <3>1
      <4>3. a[2] \in Sessions /\ a = <<s, a[2]>>
          BY <4>1, <4>2
      <4> QED BY <4>3
    <3> QED BY <1>2, <1>3, <3>2 DEF AgentInv
  <2> QED BY <2>1, <2>2, ConnMoves DEF Moves
<1> QED BY <1>1, <1>2, <1>3, <1>4 DEF AgentInv

LEMMA AddAgentMaps ==
    ASSUME TypeOK, NumberInv, AgentInv, NEW s \in Sessions, AddAgent(s)
    PROVE  AgentInv' /\ mAgents' \subseteq Sessions \X Sessions
           /\ mSessionToAgentIdMap' \subseteq Sessions \X Sessions
<1>1. /\ conn[s] = "add" /\ conn' = [conn EXCEPT ![s] = "enter"] /\ agentId' = agentId
      /\ mAgents' = mAgents \cup {<<agentId[s], s>>}
      /\ mSessionToAgentIdMap' = mSessionToAgentIdMap \cup {<<s, agentId[s]>>}
    BY DEF AddAgent, In, Goto
<1>2. agentId[s] \in Sessions /\ ~Added(s)
  <2>1. agentId[s] \in 0..maxSessionCount /\ agentId[s] # 0
      BY <1>1 DEF TypeOK, NumberInv
  <2> QED BY <1>1, <2>1 DEF Sessions, Added
<1>3. mAgents' \subseteq Sessions \X Sessions /\ mSessionToAgentIdMap' \subseteq Sessions \X Sessions
  <2>1. mAgents \subseteq Sessions \X Sessions /\ mSessionToAgentIdMap \subseteq Sessions \X Sessions
      BY DEF TypeOK
  <2>2. <<agentId[s], s>> \in Sessions \X Sessions /\ <<s, agentId[s]>> \in Sessions \X Sessions
      BY <1>2
  <2> QED BY <1>1, <2>1, <2>2
<1>4. /\ conn'[s] = "enter" /\ Added(s)'
      /\ \A r \in Sessions : r # s => conn'[r] = conn[r] /\ (Added(r)' <=> Added(r))
    BY <1>1 DEF TypeOK, Added
<1>5. conn'[agentId[s]] # "ended"
  <2>1. ASSUME NEW r \in Sessions, agentId[r] = agentId[s], Added(r)
        PROVE  FALSE
    <3>1. r # s
        BY <1>2, <2>1
    <3>2. agentId[s] = 0
        BY <2>1, <3>1 DEF NumberInv
    <3> QED BY <1>2, <3>2 DEF Sessions
  <2>2. conn[agentId[s]] # "ended"
      BY <1>2, <2>1 DEF AgentInv
  <2> QED BY <1>2, <1>4, <2>2
<1>6. \A i, r \in Sessions :
          <<i, r>> \in mAgents' <=> i = agentId'[r] /\ Added(r)' /\ conn'[i] # "ended"
  <2>1. \A i \in Sessions : <<i, s>> \in mAgents' <=> i = agentId[s]
      BY <1>1, <1>2 DEF AgentInv
  <2>2. \A i, r \in Sessions : r # s => (<<i, r>> \in mAgents' <=> <<i, r>> \in mAgents)
      BY <1>1
  <2>3. \A i \in Sessions : conn'[i] = "ended" <=> conn[i] = "ended"
      BY <1>1, <1>4
  <2> QED BY <1>1, <1>4, <1>5, <2>1, <2>2, <2>3 DEF AgentInv
<1>7. \A i, r \in Sessions : <<r, i>> \in mSessionToAgentIdMap' <=> <<i, r>> \in mAgents'
    BY <1>1 DEF AgentInv
<1>8. \A r \in Sessions : conn'[r] \in {"remove", "ended"} =>
          \E q \in Sessions : agentId'[q] = r /\ Added(q)'
    BY <1>1, <1>4 DEF AgentInv
<1> QED BY <1>3, <1>6, <1>7, <1>8 DEF AgentInv

\* The agent that is removed is there, and the only one of its id.
LEMMA RemoveAgentMaps ==
    ASSUME TypeOK, NumberInv, AgentInv, NEW s \in Sessions, RemoveAgent(s)
    PROVE  AgentInv' /\ logged' = logged /\ mAgents' \subseteq mAgents
           /\ mSessionToAgentIdMap' \subseteq mSessionToAgentIdMap
<1>1. conn[s] = "remove" /\ conn' = [conn EXCEPT ![s] = "ended"] /\ agentId' = agentId
    BY DEF RemoveAgent, In, Goto
<1>2. PICK r \in Sessions : agentId[r] = s /\ Added(r)
    BY <1>1 DEF AgentInv
<1>3. <<s, r>> \in mAgents
    BY <1>1, <1>2 DEF AgentInv
<1>4. \A q \in Sessions : agentId[q] = s => q = r
    BY <1>2 DEF NumberInv, Sessions
<1>5. \A a \in mAgents : a[1] = s => a = <<s, r>>
  <2>1. \A i, q \in Sessions : <<i, q>> \in mAgents /\ i = s => q = r
      BY <1>4 DEF AgentInv
  <2>2. mAgents \subseteq Sessions \X Sessions
      BY DEF TypeOK
  <2>3. ASSUME NEW a \in mAgents, a[1] = s
        PROVE  a = <<s, r>>
    <3>1. a = <<a[1], a[2]>> /\ a[2] \in Sessions
        BY <2>2
    <3> QED BY <2>1, <2>3, <3>1
  <2> QED BY <2>3
<1>6. /\ logged' = logged /\ mAgents' = mAgents \ {<<s, r>>}
      /\ mSessionToAgentIdMap' = {e \in mSessionToAgentIdMap : e[1] # r}
  <2>1. <<s, r>>[1] = s /\ <<s, r>>[2] = r
      OBVIOUS
  <2>2. \E a \in mAgents : /\ a[1] = s /\ logged' = logged /\ mAgents' = mAgents \ {a}
                          /\ mSessionToAgentIdMap' = {e \in mSessionToAgentIdMap : e[1] # a[2]}
      BY <1>3, <2>1 DEF RemoveAgent, AgentToEnd, MapWithout
  <2> QED BY <1>5, <2>1, <2>2
<1>7. /\ conn'[s] = "ended" /\ \A q \in Sessions : q # s => conn'[q] = conn[q]
      /\ \A q \in Sessions : Added(q)' <=> Added(q)
    BY <1>1 DEF TypeOK, Added
<1>8. \A i, q \in Sessions : <<i, q>> \in mAgents => (q = r <=> i = s)
    BY <1>2, <1>4 DEF AgentInv
<1>9. \A i, q \in Sessions :
          <<i, q>> \in mAgents' <=> i = agentId'[q] /\ Added(q)' /\ conn'[i] # "ended"
  <2>1. \A i, q \in Sessions : <<i, q>> \in mAgents' <=> <<i, q>> \in mAgents /\ i # s
      BY <1>6, <1>8
  <2>2. \A i \in Sessions : conn'[i] # "ended" <=> conn[i] # "ended" /\ i # s
      BY <1>1, <1>7
  <2>3. \A i, q \in Sessions : <<i, q>> \in mAgents <=> i = agentId[q] /\ Added(q) /\ conn[i] # "ended"
      BY DEF AgentInv
  <2> QED BY <1>1, <1>7, <2>1, <2>2, <2>3
<1>10. \A i, q \in Sessions : <<q, i>> \in mSessionToAgentIdMap' <=> <<i, q>> \in mAgents'
  <2>1. \A i, q \in Sessions : <<q, i>> \in mSessionToAgentIdMap'
                               <=> <<q, i>> \in mSessionToAgentIdMap /\ q # r
      BY <1>6
  <2> QED BY <1>6, <1>8, <2>1 DEF AgentInv
<1>11. \A q \in Sessions : conn'[q] \in {"remove", "ended"} =>
          \E p \in Sessions : agentId'[p] = q /\ Added(p)'
    BY <1>1, <1>2, <1>7 DEF AgentInv
<1> QED BY <1>6, <1>9, <1>10, <1>11 DEF AgentInv

LEMMA AgentStep ==
    ASSUME TypeOK, MainInv, NumberInv, AgentInv, Next
    PROVE  AgentInv' /\ mAgents' \subseteq Sessions \X Sessions
           /\ mSessionToAgentIdMap' \subseteq Sessions \X Sessions
<1>1. mAgents \subseteq Sessions \X Sessions /\ mSessionToAgentIdMap \subseteq Sessions \X Sessions
    BY DEF TypeOK
<1>2. CASE \E s \in Sessions : AddAgent(s)
    BY <1>2, AddAgentMaps
<1>3. CASE \E s \in Sessions : RemoveAgent(s)
    BY <1>1, <1>3, RemoveAgentMaps
<1>4. CASE \A s \in Sessions : ~AddAgent(s) /\ ~RemoveAgent(s)
    BY <1>1, <1>4, AgentsKept
<1> QED BY <1>2, <1>3, <1>4

-------------------------------------------------------------------------------
(* Questions, answers and what is logged                                   *)

LEMMA AddedId ==
    ASSUME TypeOK, NumberInv, NEW s \in Sessions, Added(s)
    PROVE  agentId[s] \in Sessions
<1>1. agentId[s] \in 0..maxSessionCount
    BY DEF TypeOK
<1>2. agentId[s] # 0
    BY DEF NumberInv, Added
<1> QED BY <1>1, <1>2 DEF Sessions

\* What is asked carries the id of its session's agent,
LEMMA AskedStep ==
    ASSUME TypeOK, NumberInv, PacketInv, Next
    PROVE  \A q \in asked' : q \in Sessions \X Sessions /\ Added(q[1]) /\ q[2] = agentId[q[1]]
<1>1. \A q \in asked : q \in Sessions \X Sessions /\ Added(q[1]) /\ q[2] = agentId[q[1]]
  <2>1. asked \subseteq Sessions \X Sessions
      BY DEF TypeOK
  <2> QED BY <2>1 DEF PacketInv
<1>2. ASSUME NEW s \in Sessions, EnterRoom(s)
      PROVE  /\ Added(s) /\ <<s, agentId[s]>> \in Sessions \X Sessions
             /\ asked' = asked \cup {<<s, agentId[s]>>}
  <2>1. Added(s) /\ asked' = asked \cup {<<s, agentId[s]>>}
      BY <1>2 DEF EnterRoom, In, Added
  <2> QED BY <2>1, AddedId
<1>3. ASSUME NEW s \in Sessions, NEW packet \in Packets, OnReceived(s, packet)
      PROVE  asked' \subseteq asked
    BY <1>3 DEF OnReceived
<1>4. \/ asked' = asked \/ \E s \in Sessions : EnterRoom(s)
      \/ \E s \in Sessions, packet \in Packets : OnReceived(s, packet)
    BY DEF Next, CreateSession, SetReuseAddress, BindAnyAddress, ConnectAsync, Launch, ConnectFailed,
           NewAgent, AddAgent, FindAgent, RemoveAgent, Dispatch
<1>5. ASSUME NEW s \in Sessions, EnterRoom(s), NEW q \in asked'
      PROVE  q \in Sessions \X Sessions /\ Added(q[1]) /\ q[2] = agentId[q[1]]
  <2>1. CASE q \in asked
      BY <1>1, <2>1
  <2>2. CASE q = <<s, agentId[s]>>
      BY <1>2, <1>5, <2>2
  <2> QED BY <1>2, <1>5, <2>1, <2>2
<1> QED BY <1>1, <1>3, <1>4, <1>5

\* so do the answers,
LEMMA QueueStep ==
    ASSUME TypeOK, PacketInv, Next
    PROVE  \A p \in mQueue' : /\ p \in Packets /\ Added(p[1])
                              /\ p[2] = "S2C_EnterRoom" => p[3] = agentId[p[1]]
<1>1. \A p \in mQueue : /\ p \in Packets /\ Added(p[1])
                        /\ p[2] = "S2C_EnterRoom" => p[3] = agentId[p[1]]
    BY DEF PacketInv, TypeOK
<1>2. ASSUME NEW s \in Sessions, NEW packet \in Packets, OnReceived(s, packet)
      PROVE  /\ mQueue' = mQueue \cup {packet} /\ Added(packet[1])
             /\ packet[2] = "S2C_EnterRoom" => packet[3] = agentId[packet[1]]
  <2>1. /\ mQueue' = mQueue \cup {packet} /\ packet[1] = s /\ Added(s)
        /\ packet[2] = "S2C_EnterRoom" => <<s, packet[3]>> \in asked
      BY <1>2 DEF OnReceived, Added
  <2>2. ASSUME <<s, packet[3]>> \in asked
        PROVE  packet[3] = agentId[s]
    <3>1. <<s, packet[3]>>[1] = s /\ <<s, packet[3]>>[2] = packet[3]
        OBVIOUS
    <3> QED BY <2>2, <3>1 DEF PacketInv
  <2> QED BY <2>1, <2>2
<1>3. mQueue' \subseteq mQueue \/ \E s \in Sessions, packet \in Packets : OnReceived(s, packet)
    BY DEF Next, CreateSession, SetReuseAddress, BindAnyAddress, ConnectAsync, Launch, ConnectFailed,
           NewAgent, AddAgent, EnterRoom, FindAgent, RemoveAgent, Dispatch
<1> QED BY <1>1, <1>2, <1>3

\* and the handler finds that agent or none.
LEMMA HandlerLogs ==
    ASSUME TypeOK, NumberInv, AgentInv, NEW s \in Sessions, Added(s),
           NEW l \in HandleEnterRoom(s, agentId[s])
    PROVE  l = <<s, "Agent not found">> /\ conn[agentId[s]] = "ended"
<1>1. agentId[s] \in Sessions
    BY AddedId
<1>2. ASSUME NEW a \in AgentsOf(s)
      PROVE  a[1] = agentId[s]
  <2>1. mAgents \subseteq Sessions \X Sessions
      BY DEF TypeOK
  <2>2. a[1] \in Sessions /\ <<s, a[1]>> \in mSessionToAgentIdMap
      BY <2>1 DEF AgentsOf
  <2> QED BY <2>2 DEF AgentInv
<1>3. l = <<s, "Agent not found">> /\ AgentsOf(s) = {}
    BY <1>2 DEF HandleEnterRoom
<1>4. ASSUME <<agentId[s], s>> \in mAgents
      PROVE  FALSE
  <2>1. <<agentId[s], s>>[1] = agentId[s]
      OBVIOUS
  <2>2. <<s, agentId[s]>> \in mSessionToAgentIdMap
      BY <1>1, <1>4 DEF AgentInv
  <2> QED BY <1>3, <1>4, <2>1, <2>2 DEF AgentsOf
<1> QED BY <1>1, <1>3, <1>4 DEF AgentInv

LEMMA LoggedStep ==
    ASSUME TypeOK, NumberInv, AgentInv, PacketInv, Next
    PROVE  \A l \in logged' :
              /\ l \in Sessions \X {"Agent not found"} /\ Added(l[1])
              /\ conn[agentId[l[1]]] = "ended"
<1> DEFINE Right(l) == /\ l \in Sessions \X {"Agent not found"} /\ Added(l[1])
                       /\ conn[agentId[l[1]]] = "ended"
<1>1. \A l \in logged : Right(l)
  <2>1. ASSUME NEW l \in logged
        PROVE  Right(l)
    <3>1. logged \subseteq Sessions \X {"Agent not found", "Agent ID mismatch", "Failed to remove agent"}
        BY DEF TypeOK
    <3>2. ASSUME NEW W, logged \subseteq Sessions \X W
          PROVE  l[1] \in Sessions /\ l = <<l[1], l[2]>>
        BY <3>2
    <3>3. l[2] = "Agent not found" /\ Added(l[1]) /\ conn[agentId[l[1]]] = "ended"
        BY DEF PacketInv
    <3> QED BY <3>1, <3>2, <3>3
  <2> QED BY <2>1
<1>2. ASSUME NEW packet \in mQueue, NEW l \in mIdToHandler(packet)
      PROVE  Right(l)
  <2>1. packet \in Packets /\ Added(packet[1])
        /\ (packet[2] = "S2C_EnterRoom" => packet[3] = agentId[packet[1]])
      BY DEF TypeOK, PacketInv
  <2>2. packet[1] \in Sessions
      BY <2>1 DEF Packets
  <2>3. l \in HandleEnterRoom(packet[1], agentId[packet[1]])
      BY <2>1 DEF mIdToHandler
  <2>4. l = <<packet[1], "Agent not found">> /\ conn[agentId[packet[1]]] = "ended"
      BY <2>1, <2>2, <2>3, HandlerLogs
  <2> QED BY <2>1, <2>2, <2>4
<1>3. CASE Dispatch
  <2>1. PICK packet \in mQueue : logged' = logged \cup mIdToHandler(packet)
      BY <1>3 DEF Dispatch
  <2> QED BY <1>1, <1>2, <2>1
<1>4. CASE \E s \in Sessions : RemoveAgent(s)
    BY <1>1, <1>4, RemoveAgentMaps
<1>5. CASE ~Dispatch /\ \A s \in Sessions : ~RemoveAgent(s)
  <2>1. logged' = logged
      BY <1>5 DEF Next, CreateSession, SetReuseAddress, BindAnyAddress, ConnectAsync, Launch,
                  ConnectFailed, NewAgent, AddAgent, EnterRoom, FindAgent, OnReceived
  <2> QED BY <1>1, <2>1
<1> QED BY <1>3, <1>4, <1>5

\* All of it stays true: no session loses its agent's id.
LEMMA PacketStep ==
    ASSUME TypeOK, MainInv, NumberInv, AgentInv, PacketInv, Next
    PROVE  /\ PacketInv' /\ asked' \subseteq Sessions \X Sessions /\ mQueue' \subseteq Packets
           /\ logged' \subseteq Sessions \X {"Agent not found"}
<1>1. \A q \in asked' : q \in Sessions \X Sessions /\ Added(q[1]) /\ q[2] = agentId[q[1]]
    BY AskedStep
<1>2. \A p \in mQueue' : /\ p \in Packets /\ Added(p[1])
                         /\ p[2] = "S2C_EnterRoom" => p[3] = agentId[p[1]]
    BY QueueStep
<1>3. \A l \in logged' : /\ l \in Sessions \X {"Agent not found"} /\ Added(l[1])
                         /\ conn[agentId[l[1]]] = "ended"
    BY LoggedStep
<1>4. \A q \in asked' : q[2] = agentId'[q[1]] /\ Added(q[1])'
  <2>1. \A q \in asked' : q[1] \in Sessions
      BY <1>1
  <2> QED BY <1>1, <2>1, AddedKept DEF Added
<1>5. \A p \in mQueue' : Added(p[1])' /\ (p[2] = "S2C_EnterRoom" => p[3] = agentId'[p[1]])
  <2>1. \A p \in mQueue' : p[1] \in Sessions
      BY <1>2 DEF Packets
  <2> QED BY <1>2, <2>1, AddedKept DEF Added
<1>6. \A l \in logged' : l[2] = "Agent not found" /\ Added(l[1])' /\ conn'[agentId'[l[1]]] = "ended"
  <2>1. \A l \in logged' : l[1] \in Sessions /\ l[2] = "Agent not found"
      BY <1>3
  <2>2. \A l \in logged' : agentId[l[1]] \in Sessions
      BY <1>3, <2>1, AddedId
  <2> QED BY <1>3, <2>1, <2>2, AddedKept DEF Added
<1> QED BY <1>1, <1>2, <1>3, <1>4, <1>5, <1>6 DEF PacketInv

-------------------------------------------------------------------------------
(* The invariant and what follows from it                                  *)

LEMMA StepHolds == IInv /\ [Next]_vars => IInv'
<1> SUFFICES ASSUME IInv, [Next]_vars PROVE IInv'
    OBVIOUS
<1>0. TypeOK /\ MainInv /\ NumberInv /\ AgentInv /\ PacketInv
    BY DEF IInv
<1>1. CASE Next
  <2>1. MainInv' /\ created' \in 0..maxSessionCount
        /\ main' \in {"create", "reuse", "bind", "connect", "running", "crashed"}
      BY <1>0, <1>1, MainStep
  <2>2. NumberInv' /\ nextAgent' \in 1..(maxSessionCount + 1)
        /\ agentId' \in [Sessions -> 0..maxSessionCount]
      BY <1>0, <1>1, NumberStep
  <2>3. AgentInv' /\ mAgents' \subseteq Sessions \X Sessions
        /\ mSessionToAgentIdMap' \subseteq Sessions \X Sessions
      BY <1>0, <1>1, AgentStep
  <2>4. /\ PacketInv' /\ asked' \subseteq Sessions \X Sessions /\ mQueue' \subseteq Packets
        /\ logged' \subseteq Sessions \X {"Agent not found"}
      BY <1>0, <1>1, PacketStep
  <2>5. conn' \in [Sessions -> Labels]
      BY <1>0, <1>1, ConnMoves
  <2>6. logged' \subseteq Sessions \X {"Agent not found", "Agent ID mismatch", "Failed to remove agent"}
      BY <2>4
  <2>7. TypeOK'
      BY <2>1, <2>2, <2>3, <2>4, <2>5, <2>6 DEF TypeOK, Labels, Packets, Sessions
  <2> QED BY <2>1, <2>2, <2>3, <2>4, <2>7 DEF IInv
<1>2. CASE UNCHANGED vars
  <2>1. TypeOK'
      BY <1>0, <1>2 DEF vars, TypeOK
  <2>2. MainInv' /\ NumberInv'
      BY <1>0, <1>2 DEF vars, MainInv, NumberInv, Numbered
  <2>3. AgentInv'
      BY <1>0, <1>2 DEF vars, AgentInv, Added
  <2>4. PacketInv'
      BY <1>0, <1>2 DEF vars, PacketInv, Added
  <2> QED BY <2>1, <2>2, <2>3, <2>4 DEF IInv
<1> QED BY <1>1, <1>2

\* The invariant the properties follow from.
THEOREM Invariant == Spec => []IInv
<1>1. Init => IInv
    BY InitHolds
<1>2. IInv /\ [Next]_vars => IInv'
    BY StepHolds
<1> QED BY <1>1, <1>2, PTL DEF Spec

\* However many sessions there are, the agents, their ids and what is queued
\* keep their types: no id exceeds the number of sessions.
THEOREM TypeCorrect == Spec => []TypeOK
<1>1. IInv => TypeOK
    BY DEF IInv
<1> QED BY <1>1, Invariant, PTL

\* AgentManager's two maps name the same agents, whichever agent OnDisconnected
\* removes for which session.
THEOREM MapsAgreeHolds == Spec => []MapsAgree
<1>1. IInv => MapsAgree
  <2> SUFFICES ASSUME IInv PROVE MapsAgree
      OBVIOUS
  <2>1. mAgents \subseteq Sessions \X Sessions /\ mSessionToAgentIdMap \subseteq Sessions \X Sessions
      BY DEF IInv, TypeOK
  <2>2. \A i, s \in Sessions : <<s, i>> \in mSessionToAgentIdMap <=> <<i, s>> \in mAgents
      BY DEF IInv, AgentInv
  <2>3. mSessionToAgentIdMap = {<<a[2], a[1]>> : a \in mAgents}
    <3>1. ASSUME NEW a \in mAgents
          PROVE  <<a[2], a[1]>> \in mSessionToAgentIdMap
      <4>1. a = <<a[1], a[2]>> /\ a[1] \in Sessions /\ a[2] \in Sessions
          BY <2>1
      <4> QED BY <2>2, <4>1
    <3>2. ASSUME NEW e \in mSessionToAgentIdMap
          PROVE  \E a \in mAgents : e = <<a[2], a[1]>>
      <4>1. e = <<e[1], e[2]>> /\ e[1] \in Sessions /\ e[2] \in Sessions
          BY <2>1
      <4>2. <<e[2], e[1]>> \in mAgents
          BY <2>2, <4>1
      <4>3. <<e[2], e[1]>>[1] = e[2] /\ <<e[2], e[1]>>[2] = e[1]
          OBVIOUS
      <4> QED BY <4>1, <4>2, <4>3
    <3> QED BY <3>1, <3>2
  <2>4. \A i, j, s, r \in Sessions : <<i, s>> \in mAgents /\ <<j, r>> \in mAgents =>
            (i = j <=> s = r)
    <3>1. \A i, s \in Sessions : <<i, s>> \in mAgents => i = agentId[s] /\ agentId[s] # 0
        BY DEF IInv, AgentInv, NumberInv, Added
    <3> QED BY <3>1 DEF IInv, NumberInv
  <2>5. ASSUME NEW a \in mAgents, NEW b \in mAgents, a[1] = b[1] \/ a[2] = b[2]
        PROVE  a = b
    <3>1. /\ a = <<a[1], a[2]>> /\ a[1] \in Sessions /\ a[2] \in Sessions
          /\ b = <<b[1], b[2]>> /\ b[1] \in Sessions /\ b[2] \in Sessions
        BY <2>1
    <3>2. a[1] = b[1] /\ a[2] = b[2]
        BY <2>4, <2>5, <3>1
    <3> QED BY <3>1, <3>2
  <2> QED BY <2>3, <2>5 DEF MapsAgree
<1> QED BY <1>1, Invariant, PTL

\* An agent lives as long as the session whose number is the agent's id.
THEOREM AgentFollowsNumberHolds == Spec => []AgentFollowsNumber
<1>1. IInv => AgentFollowsNumber
  <2> SUFFICES ASSUME IInv, NEW s \in Sessions, Added(s)
               PROVE  <<agentId[s], s>> \in mAgents <=> conn[agentId[s]] # "ended"
      BY DEF AgentFollowsNumber
  <2>1. agentId[s] \in Sessions
      BY AddedId DEF IInv
  <2> QED BY <2>1 DEF IInv, AgentInv
<1> QED BY <1>1, Invariant, PTL

\* No answer is taken for another agent's, no removal fails, and an answer finds
\* no agent only after the session of the agent's id has ended.
THEOREM AnswerFindsAgentHolds == Spec => []AnswerFindsAgent
<1>1. IInv => AnswerFindsAgent
  <2> SUFFICES ASSUME IInv, NEW s \in Sessions, NEW w, <<s, w>> \in logged
               PROVE  w = "Agent not found" /\ conn[agentId[s]] = "ended"
    <3>1. "Agent not found" # "Agent ID mismatch" /\ "Agent not found" # "Failed to remove agent"
        OBVIOUS
    <3> QED BY <3>1 DEF AnswerFindsAgent
  <2>1. <<s, w>>[1] = s /\ <<s, w>>[2] = w
      OBVIOUS
  <2> QED BY <2>1 DEF IInv, PacketInv
<1> QED BY <1>1, Invariant, PTL
===============================================================================

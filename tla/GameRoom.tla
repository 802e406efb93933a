------------------------------ MODULE GameRoom ------------------------------
(***************************************************************************)
(* The chat room of the game server: ClientSession (GameServer/Network),   *)
(* the packet queue and loop (Protocol/Packet/Queue.cpp, GameServer/Core), *)
(* the handlers (GameServer/Packet), Room and PlayerManager.               *)
(*                                                                         *)
(* IO threads run OnReceived and OnDisconnected of a session, the loop     *)
(* thread runs the handlers of its packets.  A client sends EnterRoom and  *)
(* Chat in any order, as often as it likes and under any ids: nothing in   *)
(* the handlers asks what it sent before.  One action is one critical      *)
(* section of the room's or the manager's lock, one operation of the queue,*)
(* or one access to mPlayerId.                                             *)
(***************************************************************************)
EXTENDS Naturals, Sequences, FiniteSets

CONSTANTS Sessions,
          IoThreads,  \* threads that dispatch completions: producers of the packet queue
          Ids,        \* the ids clients send
          NoId,       \* mPlayerId = 0; a client may send it too
          NoThread,
          NoPacket,
          MaxPackets  \* bound: packets all clients send

VARIABLES
    phase,      \* where OnDisconnected of each session stands
    receiving,  \* the thread that has a completed receive of the session in hand
    received,   \* packets pushed so far
    mPlayerId,  \* ClientSession::mPlayerId
    mQueue,     \* PacketQueue::mQueue, as one FIFO per producer thread
    loopPc,     \* where the loop stands in ProcessPackets
    packet,     \* its packet
    managed,    \* PlayerManager::mPlayers: its players, each an id and a session
    inRoom,     \* Room::mPlayers, likewise
    targets,    \* players a chat is still to be sent to
    welcomed,   \* players for which S2C_EnterRoom with success was sent
    due,        \* history: players a chat is owed to since the loop took it up
    late,       \* history: sessions that ended before their packets were handled
    entered,    \* history: the ids each session has entered under
    lastId      \* history: the last of them (NoId before the first)

sessionVars == <<phase, receiving, received, mPlayerId, late, entered, lastId>>
loopVars == <<loopPc, packet, targets, welcomed, due>>
vars == <<sessionVars, mQueue, loopVars, managed, inRoom>>

Packets == [from : Sessions, kind : {"enter", "chat"}, id : Ids]

ASSUME NoneAssumption ==
    /\ NoThread \notin IoThreads /\ NoPacket \notin Packets
    /\ MaxPackets \in Nat

Init ==
    /\ phase = [s \in Sessions |-> "open"]
    /\ receiving = [s \in Sessions |-> NoThread]
    /\ received = 0
    /\ mPlayerId = [s \in Sessions |-> NoId]
    /\ mQueue = [w \in IoThreads |-> <<>>]
    /\ loopPc = "idle"
    /\ packet = NoPacket
    /\ managed = {}
    /\ inRoom = {}
    /\ targets = {}
    /\ welcomed = {}
    /\ due = {}
    /\ late = {}
    /\ entered = [s \in Sessions |-> {}]
    /\ lastId = [s \in Sessions |-> NoId]

\* The maps are sets of pairs <<id, session>>, one pair to an id.  insert leaves
\* a present id alone, erase takes the id out whosever it is.
Insert(map, id, s) == IF \E p \in map : p[1] = id THEN map ELSE map \cup {<<id, s>>}

\* mutant: nothing is erased.
Erase_Nothing(map, id) == map
Erase(map, id) == {p \in map : p[1] # id}

\* Packets of s on their way to their handler, or in it.
Pending(s) == \/ receiving[s] # NoThread
              \/ \E w \in IoThreads : \E i \in DOMAIN mQueue[w] : mQueue[w][i].from = s
              \/ packet # NoPacket /\ packet.from = s

-------------------------------------------------------------------------------
(* Session callbacks, on IO threads                                        *)

\* A thread takes a completed receive of the session,
TakeReceive(s, w) ==
    /\ phase[s] = "open"
    /\ receiving[s] = NoThread
    /\ received < MaxPackets
    /\ \A r \in Sessions : receiving[r] # w
    /\ receiving' = [receiving EXCEPT ![s] = w]
    /\ UNCHANGED <<phase, received, mPlayerId, late, entered, lastId, mQueue, loopVars, managed, inRoom>>

\* and OnReceived pushes the packets in it, one after the other, on the
\* producer of the calling thread: PushPackets.
PushPacket(s, p) ==
    /\ receiving[s] # NoThread
    /\ p.from = s
    /\ received < MaxPackets
    /\ mQueue' = [mQueue EXCEPT ![receiving[s]] = Append(@, p)]
    /\ received' = received + 1
    /\ UNCHANGED <<phase, receiving, mPlayerId, late, entered, lastId, loopVars, managed, inRoom>>

OnReceived(s) ==
    /\ receiving[s] # NoThread
    /\ receiving' = [receiving EXCEPT ![s] = NoThread]
    /\ UNCHANGED <<phase, received, mPlayerId, late, entered, lastId, mQueue, loopVars, managed, inRoom>>

\* OnDisconnected begins; the completion of the disconnect does not wait for
\* the packets that were received before it.
Disconnect(s) ==
    /\ phase[s] = "open"
    /\ late' = IF Pending(s) THEN late \cup {s} ELSE late
    /\ phase' = [phase EXCEPT ![s] = "leave"]
    /\ UNCHANGED <<receiving, received, mPlayerId, entered, lastId, mQueue, loopVars, managed, inRoom>>

\* mutant: OnDisconnected forgets the manager.
AfterLeave_Clear == "clear"
AfterLeave == "remove"

\* gRoom->Leave(GetPlayerId())
Leave(s) ==
    /\ phase[s] = "leave"
    /\ inRoom' = Erase(inRoom, mPlayerId[s])
    /\ phase' = [phase EXCEPT ![s] = AfterLeave]
    /\ UNCHANGED <<receiving, received, mPlayerId, late, entered, lastId, mQueue, loopVars, managed>>

\* RemovePlayer(GetPlayerId())
RemovePlayer(s) ==
    /\ phase[s] = "remove"
    /\ managed' = Erase(managed, mPlayerId[s])
    /\ phase' = [phase EXCEPT ![s] = "clear"]
    /\ UNCHANGED <<receiving, received, mPlayerId, late, entered, lastId, mQueue, loopVars, inRoom>>

\* SetPlayerId(0)
ClearPlayerId(s) ==
    /\ phase[s] = "clear"
    /\ mPlayerId' = [mPlayerId EXCEPT ![s] = NoId]
    /\ phase' = [phase EXCEPT ![s] = "ended"]
    /\ UNCHANGED <<receiving, received, late, entered, lastId, mQueue, loopVars, managed, inRoom>>

-------------------------------------------------------------------------------
(* The loop thread                                                         *)

\* TryPop and DispatchPacket
TryPop(w) ==
    /\ loopPc = "idle"
    /\ mQueue[w] # <<>>
    /\ packet' = Head(mQueue[w])
    /\ mQueue' = [mQueue EXCEPT ![w] = Tail(@)]
    /\ loopPc' = IF packet'.kind = "enter" THEN "setId" ELSE "broadcast"
    /\ UNCHANGED <<sessionVars, targets, welcomed, due, managed, inRoom>>

\* Handle_C2S_EnterRoom: SetPlayerId, whatever mPlayerId was before
SetPlayerId ==
    /\ loopPc = "setId"
    /\ mPlayerId' = [mPlayerId EXCEPT ![packet.from] = packet.id]
    /\ entered' = [entered EXCEPT ![packet.from] = @ \cup {packet.id}]
    /\ lastId' = [lastId EXCEPT ![packet.from] = packet.id]
    /\ loopPc' = "add"
    /\ UNCHANGED <<phase, receiving, received, late, mQueue, packet, targets, welcomed, due, managed, inRoom>>

\* mutant: the client is answered before it has entered.
AfterAdd_Reply == "reply"
AfterAdd == "enter"

\* PlayerManager::AddPlayer; whether the insertion succeeds is only logged.
AddPlayer ==
    /\ loopPc = "add"
    /\ managed' = Insert(managed, packet.id, packet.from)
    /\ loopPc' = AfterAdd
    /\ UNCHANGED <<sessionVars, mQueue, packet, targets, welcomed, due, inRoom>>

\* Room::Enter, likewise
Enter ==
    /\ loopPc = "enter"
    /\ inRoom' = Insert(inRoom, packet.id, packet.from)
    /\ loopPc' = "reply"
    /\ UNCHANGED <<sessionVars, mQueue, packet, targets, welcomed, due, managed>>

\* S2C_EnterRoom, always with success
Reply ==
    /\ loopPc = "reply"
    /\ welcomed' = welcomed \cup {<<packet.id, packet.from>>}
    /\ packet' = NoPacket
    /\ loopPc' = "idle"
    /\ UNCHANGED <<sessionVars, mQueue, targets, due, managed, inRoom>>

\* Whom a chat under id goes to; mutant: the loop over the players ends at the
\* sender's own entry instead of passing over it.
Targets_Break(id) == IF \E p \in inRoom : p[1] = id THEN {} ELSE inRoom
Targets(id) == {p \in inRoom : p[1] # id}

\* Handle_C2S_Chat and Room::Broadcast: the players are copied under the lock,
Broadcast ==
    /\ loopPc = "broadcast"
    /\ targets' = Targets(packet.id)
    /\ due' = {p \in welcomed : phase[p[2]] = "open" /\ p[1] # packet.id}
    /\ loopPc' = "send"
    /\ UNCHANGED <<sessionVars, mQueue, packet, welcomed, managed, inRoom>>

\* and sent to afterwards.
SendTo(p) ==
    /\ loopPc = "send"
    /\ p \in targets
    /\ targets' = targets \ {p}
    /\ due' = due \ {p}
    /\ UNCHANGED <<sessionVars, mQueue, loopPc, packet, welcomed, managed, inRoom>>

BroadcastDone ==
    /\ loopPc = "send"
    /\ targets = {}
    /\ packet' = NoPacket
    /\ due' = {}
    /\ loopPc' = "idle"
    /\ UNCHANGED <<sessionVars, mQueue, targets, welcomed, managed, inRoom>>

-------------------------------------------------------------------------------
Teardown(s) == Leave(s) \/ RemovePlayer(s) \/ ClearPlayerId(s)

LoopStep == \/ \E w \in IoThreads : TryPop(w)
            \/ SetPlayerId \/ AddPlayer \/ Enter \/ Reply
            \/ Broadcast \/ BroadcastDone \/ \E p \in targets : SendTo(p)

Next == \/ LoopStep
        \/ \E s \in Sessions : \/ OnReceived(s) \/ Disconnect(s) \/ Teardown(s)
                               \/ \E w \in IoThreads : TakeReceive(s, w)
                               \/ \E p \in Packets : PushPacket(s, p)

Spec == Init /\ [][Next]_vars

-------------------------------------------------------------------------------
Players == Ids \X Sessions
OnePerId(map) == \A p, r \in map : p[1] = r[1] => p = r

TypeOK ==
    /\ phase \in [Sessions -> {"open", "leave", "remove", "clear", "ended"}]
    /\ receiving \in [Sessions -> IoThreads \cup {NoThread}]
    /\ received \in 0..MaxPackets
    /\ mPlayerId \in [Sessions -> Ids \cup {NoId}]
    /\ mQueue \in [IoThreads -> Seq(Packets)]
    /\ loopPc \in {"idle", "setId", "add", "enter", "reply", "broadcast", "send"}
    /\ packet \in Packets \cup {NoPacket}
    /\ managed \subseteq Players /\ OnePerId(managed)
    /\ inRoom \subseteq Players /\ OnePerId(inRoom)
    /\ targets \subseteq Players /\ welcomed \subseteq Players
    /\ due \subseteq Players /\ late \subseteq Sessions
    /\ entered \in [Sessions -> SUBSET Ids]
    /\ lastId \in [Sessions -> Ids \cup {NoId}]

\* A player whose id no other session has entered under.  The id 0 is nobody's
\* own: a session that ends without having entered erases it.
OwnId(p) == p[1] # NoId /\ \A r \in Sessions \ {p[2]} : p[1] \notin entered[r]

\* A player with an id of its own whose client was told it is in the room is
\* there for as long as its session is open, whatever the other sessions do and
\* whatever else its own session enters under.
WelcomedIsInRoom ==
    \A p \in welcomed : phase[p[2]] = "open" /\ OwnId(p) => p \in inRoom /\ p \in managed

\* A chat has been sent, when its handler ends, to every player with an id of its
\* own, other than the chat's, that had been welcomed before, except those whose
\* session has disconnected meanwhile.
ChatReachesRoom ==
    [][loopPc = "send" /\ loopPc' = "idle" =>
          \A p \in due : phase[p[2]] # "open" \/ ~OwnId(p)]_vars

\* The room and the manager, which no common lock guards, agree on a player
\* with an id of its own except while a handler or OnDisconnected of its session
\* is between the two, and after a session that ended with packets unhandled.
RoomMatchesManager ==
    \A p \in Players :
        /\ p[2] \notin late
        /\ OwnId(p)
        /\ packet = NoPacket \/ packet.from # p[2]
        /\ phase[p[2]] # "remove"
        => (p \in inRoom <=> p \in managed)

\* A session that ends when its packets have been handled leaves no player
\* behind under the id it entered with last, even when another client sends the
\* same id.  What it can leave are players under ids it had entered with before:
\* EnterRoom overwrites mPlayerId, which is all OnDisconnected knows.  So a
\* session that entered under one id only leaves no player behind.
CleanEnd ==
    \A s \in Sessions \ late : phase[s] = "ended" =>
        \A p \in inRoom \cup managed : p[2] = s => p[1] \in entered[s] \ {lastId[s]}

\* OnDisconnected takes the player out of the room and of the manager (the
\* comments at GameServer/Network/Session.cpp:26 and 29): when it is over and no
\* packet of the session is left, neither has a player of that session.
NoGhostPlayer ==
    \A s \in Sessions : phase[s] = "ended" /\ ~Pending(s) =>
        \A p \in inRoom \cup managed : p[2] # s
===============================================================================

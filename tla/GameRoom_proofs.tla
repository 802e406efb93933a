---------------------------- MODULE GameRoom_proofs ----------------------------
(***************************************************************************)
(* Proofs about GameRoom, for any sessions, IO threads and ids, when       *)
(* clients share ids, send the id 0 and enter under one id after another.  *)
(*                                                                         *)
(* Two facts carry the argument.  Maps go by id, and a session erases only *)
(* an id it has entered under or 0: a player whose id is its own is out of *)
(* reach of the other sessions.  And a session that is not late has no     *)
(* packet left when its OnDisconnected begins, so that its handlers and its*)
(* OnDisconnected never overlap, although nothing but the order of events  *)
(* keeps them apart.                                                       *)
(***************************************************************************)
EXTENDS GameRoom, SequenceTheorems, TLAPS

\* The player EnterRoom makes of the packet in hand.
Player == <<packet.id, packet.from>>

\* The handler that makes player p stands at one of the places pcs.
Handles(p, pcs) == packet # NoPacket /\ Player = p /\ loopPc \in pcs

PcInv == loopPc = "idle" <=> packet = NoPacket

\* A session has the last id it entered under until OnDisconnected clears it,
\* and its players have ids it entered under.
IdInv ==
    /\ \A s \in Sessions : phase[s] # "ended" => mPlayerId[s] = lastId[s]
    /\ \A s \in Sessions : mPlayerId[s] \in entered[s] \cup {NoId}
    /\ \A p \in managed \cup inRoom : p[1] \in entered[p[2]]
    /\ loopPc \in {"add", "enter"} => packet.id \in entered[packet.from]

RoomInv ==
    \A p \in Players : OwnId(p) /\ phase[p[2]] = "open" =>
        /\ Handles(p, {"enter", "reply"}) \/ p \in welcomed => p \in managed
        /\ Handles(p, {"reply"}) \/ p \in welcomed => p \in inRoom

\* Whom a chat is owed to it is still to be sent to.
DueInv ==
    loopPc = "send" => \A p \in due : phase[p[2]] = "open" /\ OwnId(p) => p \in targets

LateInv == \A s \in Sessions \ late : phase[s] # "open" => ~Pending(s)

\* The player a session entered as last is there no longer than until
\* OnDisconnected has come to it.
CleanInv ==
    \A s \in Sessions \ late :
        /\ <<lastId[s], s>> \in inRoom => phase[s] \in {"open", "leave"}
        /\ <<lastId[s], s>> \in managed => phase[s] \in {"open", "leave", "remove"}

MatchInv ==
    \A p \in Players :
        /\ p[2] \notin late
        /\ OwnId(p)
        /\ ~Handles(p, {"enter"})
        /\ ~(phase[p[2]] = "remove" /\ p[1] = lastId[p[2]])
        => (p \in inRoom <=> p \in managed)

Inv == /\ TypeOK /\ PcInv /\ IdInv /\ RoomInv
       /\ DueInv /\ LateInv /\ CleanInv /\ MatchInv

-------------------------------------------------------------------------------
(* The maps                                                                *)

\* What Insert of a player does to a map.
LEMMA InsertPlayer ==
    ASSUME NEW map \in SUBSET Players, OnePerId(map), NEW q \in Players
    PROVE  LET new == Insert(map, q[1], q[2])
           IN  /\ new \subseteq Players /\ OnePerId(new)
               /\ map \subseteq new /\ new \subseteq map \cup {q}
               /\ (\A p \in map : p[1] \in entered[p[2]]) /\ OwnId(q) => q \in new
<1>1. q = <<q[1], q[2]>> /\ q[2] \in Sessions
    BY DEF Players
<1>2. CASE \E p \in map : p[1] = q[1]
  <2>1. Insert(map, q[1], q[2]) = map
      BY <1>2 DEF Insert
  <2>2. ASSUME \A p \in map : p[1] \in entered[p[2]], OwnId(q) PROVE q \in map
    <3>1. PICK p \in map : p[1] = q[1]
        BY <1>2
    <3>2. p[2] \in Sessions /\ p = <<p[1], p[2]>> /\ q[1] \in entered[p[2]]
        BY <2>2, <3>1 DEF Players
    <3>3. p[2] = q[2]
        BY <2>2, <3>2 DEF OwnId
    <3> QED BY <1>1, <3>1, <3>2, <3>3
  <2> QED BY <2>1, <2>2
<1>3. CASE ~\E p \in map : p[1] = q[1]
  <2>1. Insert(map, q[1], q[2]) = map \cup {q}
      BY <1>1, <1>3 DEF Insert
  <2> QED BY <1>3, <2>1 DEF OnePerId
<1> QED BY <1>2, <1>3

\* What Erase does to it.
LEMMA ErasePlayer ==
    ASSUME NEW map \in SUBSET Players, OnePerId(map), NEW id
    PROVE  LET new == Erase(map, id)
           IN  /\ new \subseteq map /\ OnePerId(new)
               /\ \A p : p \in new <=> p \in map /\ p[1] # id
BY DEF Erase, OnePerId

\* Who is handled is a session, and its player one of the players.
LEMMA Handled ==
    ASSUME TypeOK, PcInv, loopPc # "idle"
    PROVE  /\ packet # NoPacket /\ packet \in Packets /\ packet.from \in Sessions /\ packet.id \in Ids
           /\ Player \in Players /\ Player[1] = packet.id /\ Player[2] = packet.from
BY DEF TypeOK, PcInv, Packets, Player, Players

-------------------------------------------------------------------------------
(* Types                                                                   *)

LEMMA TypeInit == Init => TypeOK
BY NoneAssumption DEF Init, TypeOK, OnePerId, Players

LEMMA TypeNext == TypeOK /\ PcInv /\ [Next]_vars => TypeOK'
<1> SUFFICES ASSUME TypeOK, PcInv, [Next]_vars PROVE TypeOK'
    OBVIOUS
<1> USE DEF TypeOK, sessionVars, loopVars
<1>1. ASSUME NEW s \in Sessions, OnReceived(s) \/ \E w \in IoThreads : TakeReceive(s, w) PROVE TypeOK'
    BY <1>1 DEF OnReceived, TakeReceive
<1>2. ASSUME NEW s \in Sessions, NEW p \in Packets, PushPacket(s, p) PROVE TypeOK'
  <2>1. receiving[s] \in IoThreads
      BY <1>2 DEF PushPacket
  <2>2. Append(mQueue[receiving[s]], p) \in Seq(Packets)
      BY <2>1
  <2>3. mQueue' \in [IoThreads -> Seq(Packets)]
      BY <1>2, <2>1, <2>2 DEF PushPacket
  <2>4. received' \in 0..MaxPackets
      BY <1>2, NoneAssumption DEF PushPacket
  <2> QED BY <1>2, <2>3, <2>4 DEF PushPacket
<1>3. ASSUME NEW s \in Sessions, Disconnect(s) \/ ClearPlayerId(s) PROVE TypeOK'
    BY <1>3 DEF Disconnect, ClearPlayerId
<1>4. ASSUME NEW s \in Sessions, Leave(s) \/ RemovePlayer(s) PROVE TypeOK'
  <2>1. /\ Erase(inRoom, mPlayerId[s]) \subseteq Players /\ OnePerId(Erase(inRoom, mPlayerId[s]))
        /\ Erase(managed, mPlayerId[s]) \subseteq Players /\ OnePerId(Erase(managed, mPlayerId[s]))
      BY ErasePlayer
  <2> QED BY <1>4, <2>1 DEF Leave, RemovePlayer, AfterLeave
<1>5. ASSUME NEW w \in IoThreads, TryPop(w) PROVE TypeOK'
  <2>1. /\ Head(mQueue[w]) \in Packets
        /\ Tail(mQueue[w]) \in Seq(Packets)
      BY <1>5 DEF TryPop
  <2> QED BY <1>5, <2>1 DEF TryPop
<1>6. CASE SetPlayerId
  <2>1. packet.from \in Sessions /\ packet.id \in Ids
      BY <1>6, Handled DEF SetPlayerId
  <2>2. mPlayerId' \in [Sessions -> Ids \cup {NoId}] /\ lastId' \in [Sessions -> Ids \cup {NoId}]
      BY <1>6, <2>1 DEF SetPlayerId
  <2>3. entered' \in [Sessions -> SUBSET Ids]
      BY <1>6, <2>1 DEF SetPlayerId
  <2> QED BY <1>6, <2>2, <2>3 DEF SetPlayerId
<1>7. CASE AddPlayer \/ Enter
  <2>1. Player \in Players /\ Player[1] = packet.id /\ Player[2] = packet.from
      BY <1>7, Handled DEF AddPlayer, Enter
  <2>2. /\ Insert(managed, packet.id, packet.from) \subseteq Players
        /\ OnePerId(Insert(managed, packet.id, packet.from))
        /\ Insert(inRoom, packet.id, packet.from) \subseteq Players
        /\ OnePerId(Insert(inRoom, packet.id, packet.from))
      BY <2>1, InsertPlayer
  <2> QED BY <1>7, <2>2 DEF AddPlayer, Enter, AfterAdd
<1>8. CASE Reply
    BY <1>8, Handled DEF Reply, Player
<1>9. ASSUME Broadcast \/ BroadcastDone \/ \E p \in targets : SendTo(p) PROVE TypeOK'
    BY <1>9 DEF Broadcast, BroadcastDone, SendTo, Targets
<1>10. CASE UNCHANGED vars
    BY <1>10 DEF vars
<1> QED
    BY <1>1, <1>2, <1>3, <1>4, <1>5, <1>6, <1>7, <1>8, <1>9, <1>10 DEF Next, LoopStep, Teardown

LEMMA PcInit == Init => PcInv
BY DEF Init, PcInv

LEMMA PcNext == TypeOK /\ PcInv /\ [Next]_vars => PcInv'
<1> SUFFICES ASSUME TypeOK, PcInv, [Next]_vars PROVE PcInv'
    OBVIOUS
<1> USE DEF PcInv, sessionVars, loopVars
<1>1. ASSUME NEW s \in Sessions,
             \/ OnReceived(s) \/ Disconnect(s) \/ Teardown(s)
             \/ \E w \in IoThreads : TakeReceive(s, w)
             \/ \E p \in Packets : PushPacket(s, p)
      PROVE  PcInv'
    BY <1>1 DEF TakeReceive, OnReceived, PushPacket, Disconnect, Teardown, Leave, RemovePlayer, ClearPlayerId
<1>2. ASSUME NEW w \in IoThreads, TryPop(w) PROVE PcInv'
  <2>1. Head(mQueue[w]) \in Packets
      BY <1>2 DEF TryPop, TypeOK
  <2> QED BY <1>2, <2>1, NoneAssumption DEF TryPop
<1>3. ASSUME SetPlayerId \/ AddPlayer \/ Enter \/ Reply PROVE PcInv'
    BY <1>3 DEF SetPlayerId, AddPlayer, Enter, Reply, AfterAdd
<1>4. ASSUME Broadcast \/ BroadcastDone \/ \E p \in targets : SendTo(p) PROVE PcInv'
    BY <1>4 DEF Broadcast, BroadcastDone, SendTo
<1>5. CASE UNCHANGED vars
    BY <1>5 DEF vars
<1> QED BY <1>1, <1>2, <1>3, <1>4, <1>5 DEF Next, LoopStep

-------------------------------------------------------------------------------
(* Ids                                                                     *)

\* The steps of a session that leave ids and maps alone, and those of the loop.
LEMMA Quiet ==
    ASSUME \/ \E s \in Sessions :
                  \/ OnReceived(s) \/ Disconnect(s) \/ \E w \in IoThreads : TakeReceive(s, w)
                  \/ \E p \in Packets : PushPacket(s, p)
           \/ \E w \in IoThreads : TryPop(w)
           \/ Reply \/ Broadcast \/ BroadcastDone \/ \E p \in targets : SendTo(p)
           \/ UNCHANGED vars
    PROVE  UNCHANGED <<mPlayerId, entered, lastId, managed, inRoom>>
BY DEF OnReceived, Disconnect, TakeReceive, PushPacket, TryPop, Reply, Broadcast, BroadcastDone, SendTo,
       vars, sessionVars, loopVars

\* Ids are added to what a session has entered under, by SetPlayerId.
LEMMA EnteredGrows ==
    ASSUME TypeOK, PcInv, [Next]_vars
    PROVE  /\ \A s \in Sessions : entered[s] \subseteq entered'[s]
           /\ \A p \in Players : OwnId(p)' => OwnId(p)
<1>1. \A s \in Sessions : entered[s] \subseteq entered'[s]
  <2>1. CASE SetPlayerId
      BY <2>1, Handled DEF SetPlayerId, TypeOK
  <2>2. ASSUME AddPlayer \/ Enter \/ \E s \in Sessions : Teardown(s) PROVE entered' = entered
      BY <2>2 DEF AddPlayer, Enter, Teardown, Leave, RemovePlayer, ClearPlayerId, sessionVars
  <2> QED BY <2>1, <2>2, Quiet DEF Next, LoopStep
<1> QED BY <1>1 DEF OwnId

LEMMA IdInit == Init => IdInv
BY DEF Init, IdInv

LEMMA IdNext == TypeOK /\ PcInv /\ IdInv /\ [Next]_vars => IdInv'
<1> SUFFICES ASSUME TypeOK, PcInv, IdInv, [Next]_vars PROVE IdInv'
    OBVIOUS
<1> USE DEF sessionVars, loopVars
<1>1. ASSUME NEW s \in Sessions, Leave(s) \/ RemovePlayer(s) PROVE IdInv'
  <2>1. managed' \subseteq managed /\ inRoom' \subseteq inRoom
      BY <1>1, ErasePlayer DEF Leave, RemovePlayer, TypeOK
  <2>2. \A r \in Sessions : phase'[r] # "ended" => phase[r] # "ended"
      BY <1>1 DEF Leave, RemovePlayer, AfterLeave, TypeOK
  <2> QED BY <1>1, <2>1, <2>2 DEF Leave, RemovePlayer, IdInv
<1>2. ASSUME NEW s \in Sessions, ClearPlayerId(s) PROVE IdInv'
    BY <1>2 DEF ClearPlayerId, IdInv, TypeOK
<1>3. CASE SetPlayerId
  <2>1. /\ packet.from \in Sessions /\ packet' = packet /\ loopPc' = "add"
        /\ UNCHANGED <<phase, managed, inRoom>>
      BY <1>3, Handled DEF SetPlayerId
  <2>2. \A s \in Sessions : s # packet.from =>
            mPlayerId'[s] = mPlayerId[s] /\ lastId'[s] = lastId[s] /\ entered'[s] = entered[s]
      BY <1>3, <2>1 DEF SetPlayerId, TypeOK
  <2>3. /\ mPlayerId'[packet.from] = packet.id /\ lastId'[packet.from] = packet.id
        /\ entered'[packet.from] = entered[packet.from] \cup {packet.id}
      BY <1>3, <2>1 DEF SetPlayerId, TypeOK
  <2>4. \A p \in managed \cup inRoom : p[2] \in Sessions
      BY DEF TypeOK, Players
  <2> QED BY <2>1, <2>2, <2>3, <2>4 DEF IdInv
<1>4. CASE AddPlayer \/ Enter
  <2>1. Player \in Players /\ Player[1] = packet.id /\ Player[2] = packet.from
      BY <1>4, Handled DEF AddPlayer, Enter
  <2>2. /\ Insert(managed, packet.id, packet.from) \subseteq managed \cup {Player}
        /\ Insert(inRoom, packet.id, packet.from) \subseteq inRoom \cup {Player}
      BY <2>1, InsertPlayer DEF TypeOK
  <2> QED BY <1>4, <2>1, <2>2 DEF AddPlayer, Enter, AfterAdd, IdInv
<1>5. ASSUME UNCHANGED <<mPlayerId, entered, lastId, managed, inRoom>>,
             \A s \in Sessions : phase'[s] # "ended" => phase[s] # "ended",
             loopPc' \notin {"add", "enter"} \/ UNCHANGED <<loopPc, packet>>
      PROVE  IdInv'
    BY <1>5 DEF IdInv
<1>6. ASSUME NEW s \in Sessions,
             \/ OnReceived(s) \/ Disconnect(s) \/ \E w \in IoThreads : TakeReceive(s, w)
             \/ \E p \in Packets : PushPacket(s, p)
      PROVE  /\ \A r \in Sessions : phase'[r] # "ended" => phase[r] # "ended"
             /\ UNCHANGED <<loopPc, packet>>
    BY <1>6 DEF OnReceived, Disconnect, TakeReceive, PushPacket, TypeOK
<1>7. ASSUME \/ \E w \in IoThreads : TryPop(w)
             \/ Reply \/ Broadcast \/ BroadcastDone \/ \E p \in targets : SendTo(p)
      PROVE  /\ phase' = phase
             /\ loopPc' \notin {"add", "enter"}
    BY <1>7 DEF TryPop, Reply, Broadcast, BroadcastDone, SendTo
<1>8. CASE UNCHANGED vars
    BY <1>5, <1>8 DEF vars
<1> QED BY <1>1, <1>2, <1>3, <1>4, <1>5, <1>6, <1>7, <1>8, Quiet DEF Next, LoopStep, Teardown

\* A player with an id of its own is not the one another session would erase.
LEMMA OutOfReach ==
    ASSUME TypeOK, IdInv, NEW r \in Sessions, NEW p \in Players, r # p[2], OwnId(p)
    PROVE  mPlayerId[r] # p[1]
BY DEF IdInv, OwnId

\* The two handler steps that put a player into a map.
LEMMA Inserted ==
    ASSUME TypeOK, PcInv, IdInv
    PROVE  /\ AddPlayer => /\ managed \subseteq managed'
                           /\ managed' \subseteq managed \cup {Player}
                           /\ OwnId(Player) => Player \in managed'
           /\ Enter => /\ inRoom \subseteq inRoom'
                       /\ inRoom' \subseteq inRoom \cup {Player}
                       /\ OwnId(Player) => Player \in inRoom'
<1>1. /\ managed \in SUBSET Players /\ OnePerId(managed) /\ inRoom \in SUBSET Players /\ OnePerId(inRoom)
      /\ \A p \in managed : p[1] \in entered[p[2]]
      /\ \A p \in inRoom : p[1] \in entered[p[2]]
    BY DEF TypeOK, IdInv
<1>2. ASSUME loopPc # "idle"
      PROVE  Player \in Players /\ Player[1] = packet.id /\ Player[2] = packet.from
    BY <1>2, Handled
<1>3. CASE AddPlayer
  <2>1. managed' = Insert(managed, Player[1], Player[2]) /\ Player \in Players /\ ~Enter
      BY <1>2, <1>3 DEF AddPlayer, Enter
  <2> QED BY <1>1, <2>1, InsertPlayer
<1>4. CASE Enter
  <2>1. inRoom' = Insert(inRoom, Player[1], Player[2]) /\ Player \in Players /\ ~AddPlayer
      BY <1>2, <1>4 DEF AddPlayer, Enter
  <2> QED BY <1>1, <2>1, InsertPlayer
<1> QED BY <1>3, <1>4

-------------------------------------------------------------------------------
(* The room                                                                *)

LEMMA RoomInit == Init => RoomInv
BY DEF Init, RoomInv, Handles

LEMMA RoomNext == TypeOK /\ PcInv /\ IdInv /\ RoomInv /\ [Next]_vars => RoomInv'
<1> DEFINE Done(p) == /\ Handles(p, {"enter", "reply"}) \/ p \in welcomed => p \in managed
                      /\ Handles(p, {"reply"}) \/ p \in welcomed => p \in inRoom
<1> SUFFICES ASSUME TypeOK, PcInv, IdInv, RoomInv, [Next]_vars,
                    NEW p \in Players, OwnId(p)', phase'[p[2]] = "open"
             PROVE  Done(p)'
    BY DEF RoomInv, Handles, Player
<1>0. OwnId(p) /\ p[2] \in Sessions /\ (phase[p[2]] = "open" => Done(p))
    BY EnteredGrows DEF RoomInv, Players
<1> USE DEF sessionVars, loopVars, Handles, Player
<1>1. CASE phase[p[2]] = "open" /\ UNCHANGED <<packet, loopPc, welcomed, managed, inRoom>>
    BY <1>0, <1>1
<1>2. ASSUME NEW r \in Sessions, Leave(r) PROVE Done(p)'
  <2>1. r # p[2] /\ phase[p[2]] = "open" /\ mPlayerId[r] # p[1]
      BY <1>0, <1>2, OutOfReach DEF Leave, AfterLeave, TypeOK
  <2>2. p \in inRoom' <=> p \in inRoom
      BY <1>2, <2>1, ErasePlayer DEF Leave, TypeOK
  <2> QED BY <1>0, <1>2, <2>1, <2>2 DEF Leave
<1>3. ASSUME NEW r \in Sessions, RemovePlayer(r) PROVE Done(p)'
  <2>1. r # p[2] /\ phase[p[2]] = "open" /\ mPlayerId[r] # p[1]
      BY <1>0, <1>3, OutOfReach DEF RemovePlayer, TypeOK
  <2>2. p \in managed' <=> p \in managed
      BY <1>3, <2>1, ErasePlayer DEF RemovePlayer, TypeOK
  <2> QED BY <1>0, <1>3, <2>1, <2>2 DEF RemovePlayer
<1>4. CASE AddPlayer
  <2>1. phase[p[2]] = "open" /\ UNCHANGED <<packet, welcomed, inRoom>> /\ loopPc' = "enter"
      BY <1>4 DEF AddPlayer, AfterAdd
  <2> QED BY <1>0, <1>4, <2>1, Inserted
<1>5. CASE Enter
  <2>1. /\ phase[p[2]] = "open" /\ UNCHANGED <<packet, welcomed, managed>>
        /\ loopPc = "enter" /\ loopPc' = "reply"
      BY <1>5 DEF Enter
  <2> QED BY <1>0, <1>5, <2>1, Inserted
<1>6. CASE Reply
  <2>1. packet # NoPacket
      BY <1>6, Handled DEF Reply
  <2> QED BY <1>0, <1>6, <2>1 DEF Reply
<1>7. ASSUME (\E w \in IoThreads : TryPop(w)) \/ SetPlayerId PROVE Done(p)'
    BY <1>0, <1>7 DEF TryPop, SetPlayerId
<1>8. ASSUME Broadcast \/ BroadcastDone \/ \E q \in targets : SendTo(q) PROVE Done(p)'
    BY <1>0, <1>8 DEF Broadcast, BroadcastDone, SendTo
<1>9. ASSUME NEW r \in Sessions,
             \/ OnReceived(r) \/ \E w \in IoThreads : TakeReceive(r, w)
             \/ \E q \in Packets : PushPacket(r, q)
      PROVE  Done(p)'
    BY <1>1, <1>9 DEF OnReceived, TakeReceive, PushPacket
<1>10. ASSUME NEW r \in Sessions, Disconnect(r) \/ ClearPlayerId(r) PROVE Done(p)'
    BY <1>0, <1>1, <1>10 DEF Disconnect, ClearPlayerId, TypeOK
<1>11. CASE UNCHANGED vars
    BY <1>1, <1>11 DEF vars
<1> QED
    BY <1>2, <1>3, <1>4, <1>5, <1>6, <1>7, <1>8, <1>9, <1>10, <1>11 DEF Next, LoopStep, Teardown

-------------------------------------------------------------------------------
(* The chats                                                               *)

LEMMA DueInit == Init => DueInv
BY DEF Init, DueInv

LEMMA DueNext == TypeOK /\ PcInv /\ RoomInv /\ DueInv /\ [Next]_vars => DueInv'
<1> SUFFICES ASSUME TypeOK, PcInv, RoomInv, DueInv, [Next]_vars PROVE DueInv'
    OBVIOUS
<1> USE DEF sessionVars, loopVars
<1>0. \A p \in due' : p \in Players /\ (OwnId(p)' => OwnId(p))
  <2>1. due' \subseteq due \cup welcomed
      BY DEF Next, LoopStep, Teardown, OnReceived, Disconnect, TakeReceive, PushPacket, Leave, RemovePlayer,
             ClearPlayerId, TryPop, SetPlayerId, AddPlayer, Enter, Reply, Broadcast, BroadcastDone, SendTo, vars
  <2> QED BY <2>1, EnteredGrows DEF TypeOK
<1>1. ASSUME NEW s \in Sessions,
             \/ OnReceived(s) \/ Disconnect(s) \/ Teardown(s)
             \/ \E w \in IoThreads : TakeReceive(s, w)
             \/ \E p \in Packets : PushPacket(s, p)
      PROVE  DueInv'
  <2>1. UNCHANGED <<loopPc, due, targets>>
      BY <1>1 DEF OnReceived, Disconnect, Teardown, Leave, RemovePlayer, ClearPlayerId, TakeReceive, PushPacket
  <2>2. \A r \in Sessions : phase'[r] = "open" => phase[r] = "open"
      BY <1>1 DEF OnReceived, Disconnect, Teardown, Leave, RemovePlayer, ClearPlayerId, TakeReceive, PushPacket,
                  AfterLeave, TypeOK
  <2> QED BY <1>0, <2>1, <2>2 DEF DueInv, Players
<1>2. CASE Broadcast
  <2> SUFFICES ASSUME NEW p \in welcomed, phase[p[2]] = "open", p[1] # packet.id, OwnId(p)
               PROVE  p \in targets'
      BY <1>0, <1>2 DEF Broadcast, DueInv
  <2>1. p \in inRoom
      BY DEF RoomInv, TypeOK
  <2> QED BY <1>2, <2>1 DEF Broadcast, Targets
<1>3. ASSUME NEW p \in targets, SendTo(p) PROVE DueInv'
    BY <1>0, <1>3 DEF SendTo, DueInv
<1>4. ASSUME NEW w \in IoThreads, TryPop(w) PROVE DueInv'
    BY <1>4 DEF TryPop, DueInv
<1>5. ASSUME SetPlayerId \/ AddPlayer \/ Enter \/ Reply \/ BroadcastDone PROVE DueInv'
    BY <1>5 DEF SetPlayerId, AddPlayer, Enter, Reply, BroadcastDone, AfterAdd, DueInv
<1>6. CASE UNCHANGED vars
    BY <1>0, <1>6 DEF vars, DueInv
<1> QED BY <1>1, <1>2, <1>3, <1>4, <1>5, <1>6 DEF Next, LoopStep

-------------------------------------------------------------------------------
(* Packets after the end                                                   *)

LEMMA LateInit == Init => LateInv
BY DEF Init, LateInv, Pending

\* The members of a queue after Append and Tail were there before.
LEMMA QueueMembers ==
    ASSUME NEW q \in Seq(Packets), NEW new \in Packets
    PROVE  /\ \A i \in DOMAIN Append(q, new) :
                 Append(q, new)[i] = new \/ (i \in DOMAIN q /\ Append(q, new)[i] = q[i])
           /\ q # <<>> => /\ Head(q) = q[1] /\ 1 \in DOMAIN q
                          /\ \A i \in DOMAIN Tail(q) : i + 1 \in DOMAIN q /\ Tail(q)[i] = q[i + 1]
<1>1. /\ DOMAIN q = 1..Len(q) /\ Len(q) \in Nat
      /\ DOMAIN Append(q, new) = 1..(Len(q) + 1)
      /\ Append(q, new)[Len(q) + 1] = new
      /\ \A i \in 1..Len(q) : Append(q, new)[i] = q[i]
    OBVIOUS
<1>2. ASSUME q # <<>>
      PROVE  /\ Len(q) > 0 /\ Head(q) = q[1] /\ Tail(q) \in Seq(Packets)
             /\ Len(Tail(q)) = Len(q) - 1 /\ DOMAIN Tail(q) = 1..Len(Tail(q))
    BY <1>1, <1>2, EmptySeq
<1>3. ASSUME q # <<>>, NEW i \in 1..(Len(q) - 1) PROVE Tail(q)[i] = q[i + 1]
    BY <1>2, <1>3
<1> QED BY <1>1, <1>2, <1>3

\* A packet of an ended session was on its way before.
LEMMA PendingStep ==
    ASSUME TypeOK, PcInv, [Next]_vars, NEW s \in Sessions, Pending(s)'
    PROVE  Pending(s) \/ (phase[s] = "open" /\ phase'[s] = "open")
<1> USE DEF sessionVars, loopVars
<1>1. CASE UNCHANGED <<receiving, mQueue, packet>>
    BY <1>1 DEF Pending
<1>2. ASSUME NEW r \in Sessions, NEW w \in IoThreads, TakeReceive(r, w)
      PROVE  Pending(s) \/ (phase[s] = "open" /\ phase'[s] = "open")
    BY <1>2 DEF TakeReceive, Pending, TypeOK
<1>3. ASSUME NEW r \in Sessions, NEW p \in Packets, PushPacket(r, p) PROVE Pending(s)
  <2>1. CASE r = s
      BY <1>3, <2>1 DEF PushPacket, Pending
  <2>2. CASE r # s
    <3> DEFINE v == receiving[r]
    <3>1. /\ receiving' = receiving /\ packet' = packet /\ p.from = r
          /\ v \in IoThreads
          /\ \A w \in IoThreads : mQueue'[w] = IF w = v THEN Append(mQueue[w], p) ELSE mQueue[w]
        BY <1>3 DEF PushPacket, TypeOK
    <3>2. ASSUME NEW w \in IoThreads, NEW i \in DOMAIN mQueue'[w], mQueue'[w][i].from = s
          PROVE  i \in DOMAIN mQueue[w] /\ mQueue[w][i].from = s
      <4>1. mQueue[w] \in Seq(Packets)
          BY DEF TypeOK
      <4>2. CASE w # v
          BY <3>1, <3>2, <4>2
      <4>3. CASE w = v
        <5>1. mQueue'[w] = Append(mQueue[w], p)
            BY <3>1, <4>3
        <5> QED BY <2>2, <3>1, <3>2, <4>1, <5>1, QueueMembers
      <4> QED BY <4>2, <4>3
    <3> QED BY <3>1, <3>2 DEF Pending
  <2> QED BY <2>1, <2>2
<1>4. ASSUME NEW v \in IoThreads, TryPop(v) PROVE Pending(s)
  <2>1. mQueue[v] \in Seq(Packets) /\ mQueue[v] # <<>>
      BY <1>4 DEF TryPop, TypeOK
  <2>2. /\ mQueue[v][1] = Head(mQueue[v]) /\ 1 \in DOMAIN mQueue[v]
        /\ \A i \in DOMAIN Tail(mQueue[v]) :
              i + 1 \in DOMAIN mQueue[v] /\ Tail(mQueue[v])[i] = mQueue[v][i + 1]
    <3>1. Head(mQueue[v]) \in Packets
        BY <2>1
    <3> QED BY <2>1, <3>1, QueueMembers
  <2>3. /\ receiving' = receiving /\ packet' = mQueue[v][1]
        /\ \A w \in IoThreads : mQueue'[w] = IF w = v THEN Tail(mQueue[w]) ELSE mQueue[w]
      BY <1>4, <2>2 DEF TryPop, TypeOK
  <2>4. CASE receiving'[s] # NoThread
      BY <2>3, <2>4 DEF Pending
  <2>5. CASE packet'.from = s
      BY <2>2, <2>3, <2>5 DEF Pending
  <2>6. ASSUME NEW w \in IoThreads, NEW i \in DOMAIN mQueue'[w], mQueue'[w][i].from = s
        PROVE  Pending(s)
    <3>1. CASE w # v
        BY <2>3, <2>6, <3>1 DEF Pending
    <3>2. CASE w = v
      <4>1. i + 1 \in DOMAIN mQueue[v] /\ mQueue[v][i + 1].from = s
          BY <2>2, <2>3, <2>6, <3>2
      <4> QED BY <4>1 DEF Pending
    <3> QED BY <3>1, <3>2
  <2> QED BY <2>4, <2>5, <2>6 DEF Pending
<1>5. ASSUME Reply \/ BroadcastDone \/ \E r \in Sessions : OnReceived(r) PROVE Pending(s)
    BY <1>5 DEF Reply, BroadcastDone, OnReceived, Pending, TypeOK
<1>6. ASSUME NEW r \in Sessions, Disconnect(r) \/ Teardown(r) PROVE UNCHANGED <<receiving, mQueue, packet>>
    BY <1>6 DEF Disconnect, Teardown, Leave, RemovePlayer, ClearPlayerId
<1>7. ASSUME SetPlayerId \/ AddPlayer \/ Enter \/ Broadcast \/ \E p \in targets : SendTo(p)
      PROVE  UNCHANGED <<receiving, mQueue, packet>>
    BY <1>7 DEF SetPlayerId, AddPlayer, Enter, Broadcast, SendTo
<1> QED BY <1>1, <1>2, <1>3, <1>4, <1>5, <1>6, <1>7 DEF Next, LoopStep, vars

\* A session ends by Disconnect, and only it makes sessions late.
LEMMA PhaseStep ==
    ASSUME TypeOK, [Next]_vars, NEW s \in Sessions
    PROVE  /\ late \subseteq late'
           /\ phase'[s] = "open" => phase[s] = "open"
           /\ phase[s] = "open" /\ phase'[s] # "open" => Disconnect(s)
<1> USE DEF sessionVars, loopVars
<1>1. ASSUME NEW r \in Sessions, Disconnect(r)
      PROVE  late \subseteq late' /\ \A t \in Sessions \ {r} : phase'[t] = phase[t]
    BY <1>1 DEF Disconnect, TypeOK
<1>2. ASSUME NEW r \in Sessions, Disconnect(r) PROVE phase[r] = "open" /\ phase'[r] # "open"
    BY <1>2 DEF Disconnect, TypeOK
<1>3. ASSUME NEW r \in Sessions, Teardown(r)
      PROVE  /\ late' = late /\ phase[r] # "open" /\ phase'[r] # "open"
             /\ \A t \in Sessions \ {r} : phase'[t] = phase[t]
    BY <1>3 DEF Teardown, Leave, RemovePlayer, ClearPlayerId, AfterLeave, TypeOK
<1>4. ASSUME \/ \E r \in Sessions : \/ OnReceived(r) \/ \E w \in IoThreads : TakeReceive(r, w)
                                   \/ \E p \in Packets : PushPacket(r, p)
             \/ LoopStep
      PROVE  late' = late /\ phase' = phase
    BY <1>4 DEF OnReceived, TakeReceive, PushPacket, LoopStep, TryPop, SetPlayerId, AddPlayer, Enter, Reply, Broadcast,
                BroadcastDone, SendTo
<1> QED BY <1>1, <1>2, <1>3, <1>4 DEF Next, vars

LEMMA LateNext == TypeOK /\ PcInv /\ LateInv /\ [Next]_vars => LateInv'
<1> SUFFICES ASSUME TypeOK, PcInv, LateInv, [Next]_vars,
                    NEW s \in Sessions \ late', phase'[s] # "open", Pending(s)'
             PROVE  FALSE
    BY DEF LateInv, Pending
<1>1. Pending(s) /\ s \in Sessions \ late
    BY PendingStep, PhaseStep
<1>2. Disconnect(s)
    BY <1>1, PhaseStep DEF LateInv
<1> QED BY <1>1, <1>2 DEF Disconnect

-------------------------------------------------------------------------------
(* Clean ends                                                              *)

\* While a packet of a session that is not late is handled, the session is open.
LEMMA HandledIsOpen ==
    ASSUME LateInv, NEW s \in Sessions \ late, packet # NoPacket, packet.from = s
    PROVE  phase[s] = "open"
BY DEF LateInv, Pending

LEMMA CleanInit == Init => CleanInv
BY DEF Init, CleanInv

LEMMA CleanNext ==
    TypeOK /\ PcInv /\ IdInv /\ LateInv /\ CleanInv /\ [Next]_vars => CleanInv'
<1> DEFINE Clean(s) ==
        /\ <<lastId[s], s>> \in inRoom => phase[s] \in {"open", "leave"}
        /\ <<lastId[s], s>> \in managed => phase[s] \in {"open", "leave", "remove"}
<1> SUFFICES ASSUME TypeOK, PcInv, IdInv, LateInv, CleanInv, [Next]_vars,
                    NEW s \in Sessions, s \notin late
             PROVE  Clean(s)'
  <2>1. ASSUME NEW s \in Sessions \ late', TypeOK, [Next]_vars PROVE s \notin late
      BY <2>1, PhaseStep
  <2> QED BY <2>1 DEF CleanInv
<1>0. Clean(s)
    BY DEF CleanInv
<1> USE DEF sessionVars, loopVars
<1>1. CASE UNCHANGED <<phase, lastId, managed, inRoom>>
    BY <1>0, <1>1
<1>2. ASSUME NEW r \in Sessions, Disconnect(r) PROVE Clean(s)'
    BY <1>0, <1>2 DEF Disconnect, TypeOK
<1>3. ASSUME NEW r \in Sessions, Leave(r) PROVE Clean(s)'
  <2>1. inRoom' \subseteq inRoom /\ \A p \in inRoom' : p[1] # mPlayerId[r]
      BY <1>3, ErasePlayer DEF Leave, TypeOK
  <2>2. r = s => <<lastId[s], s>> \notin inRoom'
      BY <1>3, <2>1 DEF Leave, IdInv
  <2>3. UNCHANGED <<lastId, managed>> /\ phase'[s] = IF r = s THEN "remove" ELSE phase[s]
      BY <1>3 DEF Leave, AfterLeave, TypeOK
  <2> QED BY <1>0, <2>1, <2>2, <2>3
<1>4. ASSUME NEW r \in Sessions, RemovePlayer(r) PROVE Clean(s)'
  <2>1. managed' \subseteq managed /\ \A p \in managed' : p[1] # mPlayerId[r]
      BY <1>4, ErasePlayer DEF RemovePlayer, TypeOK
  <2>2. r = s => <<lastId[s], s>> \notin managed' /\ <<lastId[s], s>> \notin inRoom
      BY <1>0, <1>4, <2>1 DEF RemovePlayer, IdInv
  <2>3. UNCHANGED <<lastId, inRoom>> /\ phase'[s] = IF r = s THEN "clear" ELSE phase[s]
      BY <1>4 DEF RemovePlayer, TypeOK
  <2> QED BY <1>0, <2>1, <2>2, <2>3
<1>5. ASSUME NEW r \in Sessions, ClearPlayerId(r) PROVE Clean(s)'
  <2>1. /\ UNCHANGED <<lastId, managed, inRoom>> /\ phase[r] = "clear"
        /\ phase'[s] = IF r = s THEN "ended" ELSE phase[s]
      BY <1>5 DEF ClearPlayerId, TypeOK
  <2> QED BY <1>0, <2>1
<1>6. CASE SetPlayerId
  <2>1. /\ packet.from = s => phase[s] = "open"
        /\ UNCHANGED <<phase, managed, inRoom>>
        /\ packet.from # s => lastId'[s] = lastId[s]
      BY <1>6, Handled, HandledIsOpen DEF SetPlayerId, TypeOK
  <2> QED BY <1>0, <2>1
<1>7. CASE AddPlayer \/ Enter
  <2>1. packet.from = s => phase[s] = "open"
      BY <1>7, Handled, HandledIsOpen DEF AddPlayer, Enter
  <2>2. UNCHANGED <<phase, lastId>> /\ (managed' = managed \/ AddPlayer) /\ (inRoom' = inRoom \/ Enter)
      BY <1>7 DEF AddPlayer, Enter
  <2>3. managed' \subseteq managed \cup {Player} /\ inRoom' \subseteq inRoom \cup {Player}
      BY <2>2, Inserted
  <2>4. packet.from # s => <<lastId[s], s>> # Player
      BY DEF Player
  <2> QED BY <1>0, <2>1, <2>2, <2>3, <2>4
<1>8. ASSUME NEW r \in Sessions,
             \/ OnReceived(r) \/ \E w \in IoThreads : TakeReceive(r, w)
             \/ \E p \in Packets : PushPacket(r, p)
      PROVE  UNCHANGED <<phase, lastId, managed, inRoom>>
    BY <1>8 DEF OnReceived, TakeReceive, PushPacket
<1>9. ASSUME \/ \E w \in IoThreads : TryPop(w)
             \/ Reply \/ Broadcast \/ BroadcastDone \/ \E p \in targets : SendTo(p)
      PROVE  UNCHANGED <<phase, lastId, managed, inRoom>>
    BY <1>9 DEF TryPop, Reply, Broadcast, BroadcastDone, SendTo
<1> QED
    BY <1>1, <1>2, <1>3, <1>4, <1>5, <1>6, <1>7, <1>8, <1>9 DEF Next, LoopStep, Teardown, vars

LEMMA MatchInit == Init => MatchInv
BY DEF Init, MatchInv

LEMMA MatchNext ==
    TypeOK /\ PcInv /\ IdInv /\ RoomInv /\ LateInv /\ CleanInv /\ MatchInv /\ [Next]_vars => MatchInv'
<1> DEFINE Exempt(p) == Handles(p, {"enter"}) \/ (phase[p[2]] = "remove" /\ p[1] = lastId[p[2]])
           Match(p) == Exempt(p) \/ (p \in inRoom <=> p \in managed)
<1> SUFFICES ASSUME TypeOK, PcInv, IdInv, RoomInv, LateInv, CleanInv, MatchInv, [Next]_vars,
                    NEW p \in Players, p[2] \notin late, OwnId(p)
             PROVE  Match(p)'
  <2>1. ASSUME NEW p \in Players, p[2] \notin late', TypeOK, [Next]_vars PROVE p[2] \notin late
      BY <2>1, PhaseStep DEF Players
  <2> QED BY <2>1, EnteredGrows DEF MatchInv, Handles, Player
<1>0. Match(p) /\ p[2] \in Sessions \ late /\ p = <<p[1], p[2]>>
    BY DEF MatchInv, Players
<1> USE DEF sessionVars, loopVars, Handles, Player
<1>1. CASE UNCHANGED <<phase, lastId, packet, loopPc, managed, inRoom>>
    BY <1>0, <1>1
<1>2. ASSUME NEW r \in Sessions, Disconnect(r) PROVE Match(p)'
  <2>1. UNCHANGED <<lastId, packet, loopPc, managed, inRoom>> /\ phase'[p[2]] = IF r = p[2] THEN "leave" ELSE phase[p[2]]
      BY <1>0, <1>2 DEF Disconnect, TypeOK
  <2>2. r = p[2] => phase[p[2]] = "open"
      BY <1>2 DEF Disconnect
  <2> QED BY <1>0, <2>1, <2>2
<1>3. ASSUME NEW r \in Sessions, Leave(r) PROVE Match(p)'
  <2>1. /\ UNCHANGED <<lastId, packet, loopPc, managed>> /\ phase[r] = "leave"
        /\ phase'[p[2]] = IF r = p[2] THEN "remove" ELSE phase[p[2]]
      BY <1>0, <1>3 DEF Leave, AfterLeave, TypeOK
  <2>2. r # p[2] \/ p[1] # lastId[p[2]] => (p \in inRoom' <=> p \in inRoom)
    <3>1. r # p[2] \/ p[1] # lastId[p[2]] => p[1] # mPlayerId[r]
        BY <2>1, OutOfReach DEF IdInv
    <3> QED BY <1>3, <3>1, ErasePlayer DEF Leave, TypeOK
  <2> QED BY <1>0, <2>1, <2>2
<1>4. ASSUME NEW r \in Sessions, RemovePlayer(r) PROVE Match(p)'
  <2>1. /\ UNCHANGED <<lastId, packet, loopPc, inRoom>> /\ phase[r] = "remove"
        /\ phase'[p[2]] = IF r = p[2] THEN "clear" ELSE phase[p[2]]
      BY <1>0, <1>4 DEF RemovePlayer, TypeOK
  <2>2. p \in managed' <=> p \in managed /\ p[1] # mPlayerId[r]
      BY <1>4, ErasePlayer DEF RemovePlayer, TypeOK
  <2>3. r # p[2] => p[1] # mPlayerId[r]
      BY OutOfReach
  <2>4. r = p[2] => mPlayerId[r] = lastId[p[2]] /\ (p[1] = lastId[p[2]] => p \notin inRoom)
      BY <1>0, <2>1 DEF IdInv, CleanInv
  <2> QED BY <1>0, <2>1, <2>2, <2>3, <2>4
<1>5. ASSUME NEW r \in Sessions, ClearPlayerId(r) PROVE Match(p)'
  <2>1. /\ UNCHANGED <<lastId, packet, loopPc, managed, inRoom>> /\ phase[r] = "clear"
        /\ phase'[p[2]] = IF r = p[2] THEN "ended" ELSE phase[p[2]]
      BY <1>0, <1>5 DEF ClearPlayerId, TypeOK
  <2> QED BY <1>0, <2>1
<1>6. CASE SetPlayerId
  <2>1. /\ UNCHANGED <<phase, packet, managed, inRoom>> /\ loopPc = "setId"
        /\ packet.from = p[2] => phase[p[2]] = "open"
        /\ packet.from # p[2] => lastId'[p[2]] = lastId[p[2]]
      BY <1>0, <1>6, Handled, HandledIsOpen DEF SetPlayerId, TypeOK
  <2> QED BY <1>0, <2>1
<1>7. CASE AddPlayer
  <2>1. UNCHANGED <<phase, lastId, packet, inRoom>> /\ loopPc = "add" /\ loopPc' = "enter" /\ packet # NoPacket
      BY <1>7, Handled DEF AddPlayer, AfterAdd
  <2>2. p # Player => (p \in managed' <=> p \in managed)
      BY <1>7, Inserted
  <2> QED BY <1>0, <2>1, <2>2
<1>8. CASE Enter
  <2>1. /\ UNCHANGED <<phase, lastId, packet, managed>> /\ packet # NoPacket
        /\ loopPc = "enter" /\ loopPc' = "reply"
      BY <1>8, Handled DEF Enter
  <2>2. CASE p = Player
    <3>1. phase[p[2]] = "open"
        BY <1>0, <2>1, <2>2, HandledIsOpen
    <3>2. p \in managed /\ p \in inRoom'
        BY <1>8, <2>1, <2>2, <3>1, Inserted DEF RoomInv
    <3> QED BY <2>1, <3>2
  <2>3. CASE p # Player
    <3>1. p \in inRoom' <=> p \in inRoom
        BY <1>8, <2>3, Inserted
    <3> QED BY <1>0, <2>1, <2>3, <3>1
  <2> QED BY <2>2, <2>3
<1>9. ASSUME \/ \E w \in IoThreads : TryPop(w)
             \/ Reply \/ Broadcast \/ BroadcastDone \/ \E q \in targets : SendTo(q)
      PROVE  /\ UNCHANGED <<phase, lastId, managed, inRoom>>
             /\ loopPc # "enter"
    BY <1>9 DEF TryPop, Reply, Broadcast, BroadcastDone, SendTo
<1>10. CASE UNCHANGED <<phase, lastId, managed, inRoom>> /\ loopPc # "enter"
    BY <1>0, <1>10
<1>11. ASSUME NEW r \in Sessions,
              \/ OnReceived(r) \/ \E w \in IoThreads : TakeReceive(r, w)
              \/ \E q \in Packets : PushPacket(r, q)
       PROVE  UNCHANGED <<phase, lastId, packet, loopPc, managed, inRoom>>
    BY <1>11 DEF OnReceived, TakeReceive, PushPacket
<1> QED
    BY <1>1, <1>2, <1>3, <1>4, <1>5, <1>6, <1>7, <1>8, <1>9, <1>10, <1>11 DEF Next, LoopStep, Teardown, vars

-------------------------------------------------------------------------------
(* The theorems                                                            *)

THEOREM InvHolds == Spec => []Inv
<1>1. Init => Inv
    BY TypeInit, PcInit, IdInit, RoomInit, DueInit, LateInit, CleanInit, MatchInit DEF Inv
<1>2. Inv /\ [Next]_vars => Inv'
    BY TypeNext, PcNext, IdNext, RoomNext, DueNext, LateNext, CleanNext, MatchNext DEF Inv
<1> QED BY <1>1, <1>2, PTL DEF Spec

\* A player with an id of its own whose client was told it is in the room is
\* there for as long as its session is open, whatever else the session enters
\* under (Room::Enter and Leave, PlayerManager).
THEOREM WelcomedIsInRoomHolds == Spec => []WelcomedIsInRoom
<1>1. Inv => WelcomedIsInRoom
    BY DEF Inv, TypeOK, RoomInv, WelcomedIsInRoom
<1> QED BY <1>1, InvHolds, PTL

\* A chat reaches every player it is owed to (Room::Broadcast).
THEOREM ChatReachesRoomHolds == Spec => ChatReachesRoom
<1>1. Inv /\ [Next]_vars =>
          [loopPc = "send" /\ loopPc' = "idle" =>
              \A p \in due : phase[p[2]] # "open" \/ ~OwnId(p)]_vars
  <2> SUFFICES ASSUME Inv, Next, loopPc = "send", loopPc' = "idle", NEW p \in due
               PROVE  phase[p[2]] # "open" \/ ~OwnId(p)
      BY DEF vars
  <2>1. targets = {}
      BY DEF Next, LoopStep, Teardown, OnReceived, Disconnect, TakeReceive, PushPacket, Leave, RemovePlayer,
             ClearPlayerId, TryPop, SetPlayerId, AddPlayer, Enter, Reply, Broadcast, BroadcastDone, SendTo,
             loopVars, AfterAdd
  <2> QED BY <2>1 DEF Inv, DueInv
<1> QED BY <1>1, InvHolds, PTL DEF Spec, ChatReachesRoom

\* The room and the manager agree on a player with an id of its own except
\* between two steps of its session (OnDisconnected, Handle_C2S_EnterRoom).
THEOREM RoomMatchesManagerHolds == Spec => []RoomMatchesManager
<1>1. Inv => RoomMatchesManager
  <2> SUFFICES ASSUME Inv, NEW p \in Players, p[2] \notin late, OwnId(p),
                      packet = NoPacket \/ packet.from # p[2], phase[p[2]] # "remove"
               PROVE  p \in inRoom <=> p \in managed
      BY DEF RoomMatchesManager
  <2>1. ~Handles(p, {"enter"})
      BY DEF Handles, Player
  <2> QED BY <2>1 DEF Inv, MatchInv
<1> QED BY <1>1, InvHolds, PTL

\* A session that ends when its packets have been handled leaves no player
\* behind but under ids it had entered with before its last, even when another
\* client sends the same id (OnDisconnected, Handle_C2S_EnterRoom).
THEOREM CleanEndHolds == Spec => []CleanEnd
<1>1. Inv => CleanEnd
  <2> SUFFICES ASSUME Inv, NEW s \in Sessions \ late, phase[s] = "ended",
                      NEW p \in inRoom \cup managed, p[2] = s
               PROVE  p[1] \in entered[s] \ {lastId[s]}
      BY DEF CleanEnd
  <2>1. p = <<p[1], s>> /\ p[1] \in entered[s]
      BY DEF Inv, TypeOK, Players, IdInv
  <2>2. <<lastId[s], s>> \notin inRoom \cup managed
      BY DEF Inv, CleanInv
  <2> QED BY <2>1, <2>2
<1> QED BY <1>1, InvHolds, PTL
=============================================================================

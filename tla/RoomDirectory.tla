--------------------------- MODULE RoomDirectory ---------------------------
(***************************************************************************)
(* What the signaling server promises about rooms, stated without sockets, *)
(* queues, locks or goroutines: every connection is in at most one room,   *)
(* a room exists exactly while somebody is in it, and neither the number   *)
(* of rooms nor the number of people in a room exceeds its limit.          *)
(* Signaling.tla is shown to implement this specification.                 *)
(***************************************************************************)
EXTENDS Naturals, FiniteSets

CONSTANTS Conns,        \* signaling connections, one peer ID each
          RoomIDs,      \* room identifiers
          NoRoom,       \* the handler's nil currentRoom
          MaxRooms,     \* ServerConfig.MaxRooms
          MaxRoomSize   \* ServerConfig.MaxRoomSize

VARIABLE roomOf         \* the room each connection is in

dirVars == <<roomOf>>

Occupants(r) == {p \in Conns : roomOf[p] = r}

LiveRooms == {r \in RoomIDs : Occupants(r) # {}}

DirInit == roomOf = [p \in Conns |-> NoRoom]

\* join_room with the room ID "new".
Create(p, r) ==
  /\ roomOf[p] = NoRoom
  /\ Occupants(r) = {}
  /\ Cardinality(LiveRooms) < MaxRooms
  /\ roomOf' = [roomOf EXCEPT ![p] = r]

\* join_room with the ID of a room somebody is in.
Enter(p, r) ==
  /\ roomOf[p] = NoRoom
  /\ Occupants(r) # {}
  /\ Cardinality(Occupants(r)) < MaxRoomSize
  /\ roomOf' = [roomOf EXCEPT ![p] = r]

\* leave_room, or the end of the connection.
Depart(p) ==
  /\ roomOf[p] # NoRoom
  /\ roomOf' = [roomOf EXCEPT ![p] = NoRoom]

DirNext ==
  \E p \in Conns :
    \/ \E r \in RoomIDs : Create(p, r) \/ Enter(p, r)
    \/ Depart(p)

DirSpec == DirInit /\ [][DirNext]_dirVars

=============================================================================

----------------------------- MODULE Signaling -----------------------------
(***************************************************************************)
(* The termcall signaling server (internal/signaling): one handler         *)
(* goroutine and one writer goroutine per WebSocket connection, the room   *)
(* manager they share under its lock, the bounded outbound queue of every  *)
(* peer, and the per-address connection counters.                          *)
(*                                                                         *)
(* An action is one atomic piece of a goroutine: a critical section of the *)
(* room manager, one send on a peer's queue, one write to a socket.  What  *)
(* a handler does between two of them touches only its own locals.         *)
(***************************************************************************)
EXTENDS Naturals, Sequences, FiniteSets

CONSTANTS Conns,                \* connections; each gets its own peer ID
          Addrs,                \* client addresses
          AddrOf,               \* clientIP of each connection
          RoomIDs,              \* room identifiers (uuid.NewString)
          NoRoom,               \* nil currentRoom
          MaxRooms,             \* ServerConfig.MaxRooms
          MaxRoomSize,          \* ServerConfig.MaxRoomSize
          MaxConnections,       \* ServerConfig.MaxConnections
          MaxConnectionsPerIP,  \* ServerConfig.MaxConnectionsPerIP
          QueueSize,            \* peerQueueSize
          MaxMessages,          \* bound: messages read per connection
          Requests,             \* kinds of message the clients send
          Faults,               \* socket and context failures that happen
          Rejoin                \* may a client join again after leave_room?

ASSUME ConnsAssumption == IsFiniteSet(Conns)

ASSUME RoomsAssumption == IsFiniteSet(RoomIDs) /\ NoRoom \notin RoomIDs

ASSUME AddrAssumption == AddrOf \in [Conns -> Addrs]

\* NewServer refuses any other configuration.
ASSUME LimitsAssumption ==
  /\ MaxRooms \in Nat \ {0} /\ MaxRoomSize \in Nat /\ MaxRoomSize >= 2
  /\ MaxConnections \in Nat /\ MaxConnectionsPerIP \in Nat \ {0}
  /\ MaxConnectionsPerIP <= MaxConnections /\ MaxRooms <= MaxConnections

ASSUME BoundsAssumption ==
  /\ QueueSize \in Nat \ {0} /\ MaxMessages \in Nat
  /\ Requests \subseteq {"join", "refused", "signal", "leave", "bad"}
  /\ Faults \subseteq {"read", "write", "ping", "context",
                       "accept", "shutdown"}
  /\ Rejoin \in BOOLEAN

VARIABLES
  \* Server
  connections,       \* connections[a]: open connections of address a
  totalConnections,
  serverClosed,      \* Server.Close has cancelled the root context
  \* RoomManager
  rooms,             \* live room IDs
  members,           \* members[r]: Room.peers
  \* HandleWebSocket, one goroutine per connection
  pc,
  room,              \* currentRoom
  todo,              \* peers the current fan-out still has to reach
  sent,              \* messages read so far
  \* Peer and writePump
  queue,             \* Peer.Send
  cancelled,         \* Peer.Ctx is done
  writer,            \* writePump
  \* The client at the other end
  view,              \* peers it knows from the messages written to it
  told               \* history: peers it will know once its queue is written

serverVars == <<connections, totalConnections, serverClosed>>
roomVars == <<rooms, members>>
vars == <<connections, totalConnections, serverClosed, rooms, members, pc,
          room, todo, sent, queue, cancelled, writer, view, told>>

----------------------------------------------------------------------------
\* Messages the server sends: the parts its clients act on.

Accepted(ps) == [type |-> "join_accepted", peers |-> ps]
Joined(x)    == [type |-> "peer_joined", peers |-> {x}]
Left(x)      == [type |-> "peer_left", peers |-> {x}]
Signal(x)    == [type |-> "signal", peers |-> {x}]   \* offer, answer, candidate
Error        == [type |-> "error", peers |-> {}]

Messages == [type : {"join_accepted", "peer_joined", "peer_left", "signal",
                     "error"},
             peers : SUBSET Conns]

\* What a client knows after reading m, given that it knew `known' before.
Learn(known, m) ==
  CASE m.type = "join_accepted" -> m.peers
    [] m.type = "peer_joined"   -> known \cup m.peers
    [] m.type = "peer_left"     -> known \ m.peers
    [] OTHER                    -> known

----------------------------------------------------------------------------
\* Handler states.

\* The handler holds a slot of the connection counters.
Holding == {"accepting", "reading", "joined", "announcing", "relaying",
            "leaving", "replying", "waiting", "unwinding", "draining"}

PCs == Holding \cup {"idle", "rejected", "closed"}

\* The states in which currentRoom, when set, still lists the peer.
Attached == {"reading", "joined", "announcing", "relaying", "replying",
             "waiting"}

InRoom(p) == room[p] # NoRoom /\ pc[p] \in Attached

\* Loops over a snapshot of peers.
FanOuts == {"announcing", "relaying", "leaving", "unwinding"}

\* Where the handler goes when a loop ends.
After == [announcing |-> "reading", relaying |-> "reading",
          leaving |-> "reading", unwinding |-> "draining"]

\* Enter the fan-out f over ps; an empty snapshot ends it at once.
StartFanOut(p, f, ps) ==
  /\ todo' = [todo EXCEPT ![p] = ps]
  /\ pc' = [pc EXCEPT ![p] = IF ps = {} THEN After[f] ELSE f]

\* What each fan-out of p sends.
FanOutMessage(p) ==
  CASE pc[p] = "announcing" -> Joined(p)
    [] pc[p] = "relaying"   -> Signal(p)
    [] OTHER                -> Left(p)

----------------------------------------------------------------------------
Init ==
  /\ connections = [a \in Addrs |-> 0] /\ totalConnections = 0
  /\ serverClosed = FALSE
  /\ rooms = {} /\ members = [r \in RoomIDs |-> {}]
  /\ pc = [p \in Conns |-> "idle"]
  /\ room = [p \in Conns |-> NoRoom]
  /\ todo = [p \in Conns |-> {}]
  /\ sent = [p \in Conns |-> 0]
  /\ queue = [p \in Conns |-> <<>>]
  /\ cancelled = [p \in Conns |-> FALSE]
  /\ writer = [p \in Conns |-> "none"]
  /\ view = [p \in Conns |-> {}]
  /\ told = [p \in Conns |-> {}]

Full(q) == Len(queue[q]) >= QueueSize

\* Mutant of Enqueue: a full queue drops the message and spares the peer.
EnqueueDropping(q, m) ==
  IF Full(q)
  THEN UNCHANGED <<queue, told, cancelled>>
  ELSE /\ queue' = [queue EXCEPT ![q] = Append(@, m)]
       /\ told' = [told EXCEPT ![q] = Learn(@, m)]
       /\ UNCHANGED cancelled

\* Peer.enqueue: queue the message, or cancel a peer whose queue is full.
Enqueue(q, m) ==
  IF Full(q)
  THEN /\ cancelled' = [cancelled EXCEPT ![q] = TRUE]
       /\ UNCHANGED <<queue, told>>
  ELSE /\ queue' = [queue EXCEPT ![q] = Append(@, m)]
       /\ told' = [told EXCEPT ![q] = Learn(@, m)]
       /\ UNCHANGED cancelled

----------------------------------------------------------------------------
\* Connection set-up.

CanAcquire(p) ==
  /\ totalConnections < MaxConnections
  /\ connections[AddrOf[p]] < MaxConnectionsPerIP

\* acquireConnection.
Acquire(p) ==
  /\ pc[p] = "idle"
  /\ CanAcquire(p)
  /\ connections' = [connections EXCEPT ![AddrOf[p]] = @ + 1]
  /\ totalConnections' = totalConnections + 1
  /\ pc' = [pc EXCEPT ![p] = "accepting"]
  /\ UNCHANGED <<serverClosed, rooms, members, room, todo, sent, queue,
                 cancelled, writer, view, told>>

\* 429 Too Many Requests.
Reject(p) ==
  /\ pc[p] = "idle"
  /\ ~CanAcquire(p)
  /\ pc' = [pc EXCEPT ![p] = "rejected"]
  /\ UNCHANGED <<serverVars, roomVars, room, todo, sent, queue, cancelled,
                 writer, view, told>>

\* Mutant of Accept: the peer's context does not derive from the server's.
AcceptDetached(p) ==
  /\ pc[p] = "accepting"
  /\ pc' = [pc EXCEPT ![p] = "reading"]
  /\ writer' = [writer EXCEPT ![p] = "running"]
  /\ UNCHANGED <<serverVars, roomVars, room, todo, sent, queue, cancelled,
                 view, told>>

\* websocket.Accept succeeds: the peer's context, derived from the server's,
\* and its writer come into being.
Accept(p) ==
  /\ pc[p] = "accepting"
  /\ pc' = [pc EXCEPT ![p] = "reading"]
  /\ cancelled' = [cancelled EXCEPT ![p] = serverClosed]
  /\ writer' = [writer EXCEPT ![p] = "running"]
  /\ UNCHANGED <<serverVars, roomVars, room, todo, sent, queue, view, told>>

\* releaseConnection.
ReleaseConnection(p) ==
  /\ connections' = [connections EXCEPT ![AddrOf[p]] =
                       IF @ <= 1 THEN 0 ELSE @ - 1]
  /\ totalConnections' =
       IF totalConnections > 0 THEN totalConnections - 1 ELSE 0

\* websocket.Accept fails: only the counters are released.
AcceptFail(p) ==
  /\ "accept" \in Faults
  /\ pc[p] = "accepting"
  /\ ReleaseConnection(p)
  /\ pc' = [pc EXCEPT ![p] = "closed"]
  /\ UNCHANGED <<serverClosed, roomVars, room, todo, sent, queue, cancelled,
                 writer, view, told>>

----------------------------------------------------------------------------
\* The read loop.  A Read that raced with the cancellation of its context
\* may still return a message, so reading does not test `cancelled'.

Receive(p, kind) ==
  /\ kind \in Requests
  /\ pc[p] = "reading"
  /\ sent[p] < MaxMessages
  /\ sent' = [sent EXCEPT ![p] = IF kind = "leave" /\ ~Rejoin
                                 THEN MaxMessages ELSE @ + 1]

\* A room to create: no live room has its ID and no handler holds it.
Fresh(r) == r \notin rooms /\ \A q \in Conns : room[q] # r

\* Mutants of AdmitTo: the peer is committed before the snapshot it is sent,
\* and the peer is admitted without the Broadcast that follows.
AdmitAfterCommit(p, r) ==
  /\ ~Full(p)
  /\ Enqueue(p, Accepted(members[r] \cup {p}))
  /\ rooms' = rooms \cup {r}
  /\ members' = [members EXCEPT ![r] = @ \cup {p}]
  /\ room' = [room EXCEPT ![p] = r]
  /\ pc' = [pc EXCEPT ![p] = "joined"]
  /\ UNCHANGED <<serverVars, todo, writer, view>>

AdmitSilently(p, r) ==
  /\ ~Full(p)
  /\ Enqueue(p, Accepted(members[r]))
  /\ rooms' = rooms \cup {r}
  /\ members' = [members EXCEPT ![r] = @ \cup {p}]
  /\ room' = [room EXCEPT ![p] = r]
  /\ pc' = [pc EXCEPT ![p] = "reading"]
  /\ UNCHANGED <<serverVars, todo, writer, view>>

\* Admit with room r, under the manager's lock: the response is queued
\* first and the peer is committed only if that succeeded.
AdmitTo(p, r) ==
  /\ Enqueue(p, Accepted(members[r]))
  /\ IF Full(p)
     THEN /\ pc' = [pc EXCEPT ![p] = "replying"]
          /\ UNCHANGED <<rooms, members, room>>
     ELSE /\ rooms' = rooms \cup {r}
          /\ members' = [members EXCEPT ![r] = @ \cup {p}]
          /\ room' = [room EXCEPT ![p] = r]
          /\ pc' = [pc EXCEPT ![p] = "joined"]
  /\ UNCHANGED <<serverVars, todo, writer, view>>

\* Mutant of JoinNew: the number of rooms is not checked.
JoinNewUnlimited(p) ==
  /\ Receive(p, "join")
  /\ room[p] = NoRoom
  /\ \E r \in RoomIDs : Fresh(r) /\ AdmitTo(p, r)

\* join_room with the room ID "new".
JoinNew(p) ==
  /\ Receive(p, "join")
  /\ room[p] = NoRoom
  /\ Cardinality(rooms) < MaxRooms
  /\ \E r \in RoomIDs : Fresh(r) /\ AdmitTo(p, r)

\* join_room with the ID of a live room that has a place.
JoinExisting(p) ==
  /\ Receive(p, "join")
  /\ room[p] = NoRoom
  /\ \E r \in rooms : Cardinality(members[r]) < MaxRoomSize /\ AdmitTo(p, r)

\* The requests answered with an error and nothing else: a join that comes
\* second, or that the credentials, the room limit, the room's size or an
\* unknown room ID refuse; an offer, answer or candidate outside a room.
\* There is one of them in every state, and the answers differ in wording.
RefuseRequest(p) ==
  /\ Receive(p, "refused")
  /\ Enqueue(p, Error)
  /\ UNCHANGED <<serverVars, roomVars, pc, room, todo, writer, view>>

\* sendError after a failed Admit or Route.
ReplyError(p) ==
  /\ pc[p] = "replying"
  /\ Enqueue(p, Error)
  /\ pc' = [pc EXCEPT ![p] = "reading"]
  /\ UNCHANGED <<serverVars, roomVars, room, todo, sent, writer, view>>

\* Broadcast, first half: the snapshot of the room, taken in a critical
\* section after the one that admitted the peer.
SnapshotRoom(p) ==
  /\ pc[p] = "joined"
  /\ StartFanOut(p, "announcing",
                 IF room[p] \in rooms THEN members[room[p]] \ {p} ELSE {})
  /\ UNCHANGED <<serverVars, roomVars, room, sent, queue, cancelled, writer,
                 view, told>>

\* Route, first half: the target is looked up under the lock.
RouteLookup(p, target) ==
  /\ Receive(p, "signal")
  /\ room[p] # NoRoom
  /\ IF room[p] \in rooms /\ target \in members[room[p]]
     THEN StartFanOut(p, "relaying", {target})
     ELSE pc' = [pc EXCEPT ![p] = "replying"] /\ UNCHANGED todo
  /\ UNCHANGED <<serverVars, roomVars, room, queue, cancelled, writer, view,
                 told>>

\* Mutants of LeaveRoom: the empty room stays in the map, and nobody is told.
LeaveKeepingRoom(p, f) ==
  LET rest == members[room[p]] \ {p}
  IN /\ members' = [members EXCEPT ![room[p]] = rest]
     /\ StartFanOut(p, f, rest)
     /\ UNCHANGED rooms

LeaveQuietly(p, f) ==
  LET rest == members[room[p]] \ {p}
  IN /\ members' = [members EXCEPT ![room[p]] = rest]
     /\ rooms' = IF rest = {} THEN rooms \ {room[p]} ELSE rooms
     /\ StartFanOut(p, f, {})

\* RoomManager.Leave: the peer leaves the map, an empty room is deleted, and
\* those who remain are to be told.
LeaveRoom(p, f) ==
  LET rest == members[room[p]] \ {p}
  IN IF room[p] \in rooms
     THEN /\ members' = [members EXCEPT ![room[p]] = rest]
          /\ rooms' = IF rest = {} THEN rooms \ {room[p]} ELSE rooms
          /\ StartFanOut(p, f, rest)
     ELSE UNCHANGED roomVars /\ StartFanOut(p, f, {})

\* leave_room.
RequestLeave(p) ==
  /\ Receive(p, "leave")
  /\ IF room[p] # NoRoom
     THEN /\ LeaveRoom(p, "leaving")
          /\ room' = [room EXCEPT ![p] =
                        IF pc'[p] = "reading" THEN NoRoom ELSE @]
     ELSE UNCHANGED <<roomVars, pc, todo, room>>
  /\ UNCHANGED <<serverVars, queue, cancelled, writer, view, told>>

\* Peers left to serve after q.  A relay has one target; one that fails is
\* answered with peer_unavailable.
FanOutEnd(p, q) ==
  IF pc[p] = "relaying" /\ Full(q) THEN "replying" ELSE After[pc[p]]

\* One turn of a loop over peers: broadcast, relay or leave notice.  The
\* order of the peers is that of a Go map, that is, any.
Deliver(p) ==
  /\ pc[p] \in FanOuts
  /\ \E q \in todo[p] :
       /\ Enqueue(q, FanOutMessage(p))
       /\ todo' = [todo EXCEPT ![p] = @ \ {q}]
       /\ IF todo[p] = {q}
          THEN /\ pc' = [pc EXCEPT ![p] = FanOutEnd(p, q)]
               /\ room' = [room EXCEPT ![p] = IF pc[p] = "leaving"
                                              THEN NoRoom ELSE @]
          ELSE UNCHANGED <<pc, room>>
  /\ UNCHANGED <<serverVars, roomVars, sent, writer, view>>

----------------------------------------------------------------------------
\* The ways out of the handler.  Deferred calls run last one first: leave
\* the room, cancel the context and await the writer, close the socket and
\* release the connection.

\* The deferred leaveRoom, up to the snapshot of those to be told.
Return(p) ==
  IF room[p] # NoRoom
  THEN LeaveRoom(p, "unwinding")
  ELSE pc' = [pc EXCEPT ![p] = "draining"] /\ UNCHANGED <<roomVars, todo>>

\* A frame that is not text, not protocol JSON, over the rate or invalid:
\* sendFatalError.  The first select of enqueueAndWait queues the error, or
\* gives up because the context is done, or cancels because the queue is full.
ReceiveBad(p) ==
  /\ Receive(p, "bad")
  /\ \/ /\ ~Full(p)
        /\ Enqueue(p, Error)
        /\ pc' = [pc EXCEPT ![p] = "waiting"]
        /\ UNCHANGED <<roomVars, todo>>
     \/ /\ cancelled[p]
        /\ Return(p)
        /\ UNCHANGED <<queue, told, cancelled>>
     \/ /\ Full(p)
        /\ Enqueue(p, Error)
        /\ Return(p)
  /\ UNCHANGED <<serverVars, room, writer, view>>

\* enqueueAndWait, second select: the writer's result, the ten-second
\* timeout, or the end of the context.
FatalDone(p) ==
  /\ pc[p] = "waiting"
  /\ Return(p)
  /\ UNCHANGED <<serverVars, room, sent, queue, cancelled, writer, view, told>>

\* Read fails: the context is done, or the client is gone.
ReadError(p) ==
  /\ pc[p] = "reading"
  /\ cancelled[p] \/ "read" \in Faults
  /\ Return(p)
  /\ UNCHANGED <<serverVars, room, sent, queue, cancelled, writer, view, told>>

\* Mutant of Release: the handler does not wait for writerDone.
ReleaseEarly(p) ==
  /\ pc[p] = "draining"
  /\ ReleaseConnection(p)
  /\ pc' = [pc EXCEPT ![p] = "closed"]
  /\ UNCHANGED <<serverClosed, roomVars, room, todo, sent, queue, cancelled,
                 writer, view, told>>

\* The writer has returned.
Release(p) ==
  /\ pc[p] = "draining"
  /\ writer[p] = "stopped"
  /\ ReleaseConnection(p)
  /\ pc' = [pc EXCEPT ![p] = "closed"]
  /\ UNCHANGED <<serverClosed, roomVars, room, todo, sent, queue, cancelled,
                 writer, view, told>>

----------------------------------------------------------------------------
\* writePump.

\* The head of the queue reaches the client; a write under a context that
\* is done does not.
Write(p) ==
  /\ writer[p] = "running"
  /\ ~cancelled[p]
  /\ queue[p] # <<>>
  /\ queue' = [queue EXCEPT ![p] = Tail(@)]
  /\ view' = [view EXCEPT ![p] = Learn(@, Head(queue[p]))]
  /\ UNCHANGED <<serverVars, roomVars, pc, room, todo, sent, cancelled,
                 writer, told>>

WriterStopped(p) ==
  /\ writer' = [writer EXCEPT ![p] = "stopped"]
  /\ cancelled' = [cancelled EXCEPT ![p] = TRUE]
  /\ UNCHANGED <<serverVars, roomVars, pc, room, todo, sent, view, told>>

WriteFail(p) ==
  /\ "write" \in Faults
  /\ writer[p] = "running"
  /\ queue[p] # <<>>
  /\ queue' = [queue EXCEPT ![p] = Tail(@)]
  /\ WriterStopped(p)

PingFail(p) ==
  /\ "ping" \in Faults
  /\ writer[p] = "running"
  /\ WriterStopped(p)
  /\ UNCHANGED queue

\* The writer sees the end of its context, the deferred cancel of a handler
\* that is returning included.
WriterDone(p) ==
  /\ writer[p] = "running"
  /\ cancelled[p] \/ pc[p] = "draining"
  /\ WriterStopped(p)
  /\ UNCHANGED queue

----------------------------------------------------------------------------
\* Contexts ended from outside.

\* The context of the HTTP request ends.
RequestCancelled(p) ==
  /\ "context" \in Faults
  /\ writer[p] = "running"
  /\ ~cancelled[p]
  /\ cancelled' = [cancelled EXCEPT ![p] = TRUE]
  /\ UNCHANGED <<serverVars, roomVars, pc, room, todo, sent, queue, writer,
                 view, told>>

\* Server.Close cancels the context every peer's context derives from.
CloseServer ==
  /\ "shutdown" \in Faults
  /\ ~serverClosed
  /\ serverClosed' = TRUE
  /\ cancelled' = [p \in Conns |-> cancelled[p] \/ writer[p] # "none"]
  /\ UNCHANGED <<connections, totalConnections, roomVars, pc, room, todo,
                 sent, queue, writer, view, told>>

\* Every connection has come and gone, or waits for a client that sends
\* nothing more.
Finished ==
  /\ \A p \in Conns :
       \/ pc[p] \in {"closed", "rejected"}
       \/ pc[p] = "reading" /\ ~cancelled[p] /\ queue[p] = <<>>
  /\ UNCHANGED vars

----------------------------------------------------------------------------
\* What the handler of p does by itself, the client sending nothing more.
Handler(p) ==
  \/ Accept(p) \/ AcceptFail(p) \/ ReplyError(p) \/ SnapshotRoom(p)
  \/ Deliver(p) \/ FatalDone(p) \/ Release(p)

\* What the client makes the handler do.
Client(p) ==
  \/ Acquire(p) \/ Reject(p) \/ JoinNew(p) \/ JoinExisting(p)
  \/ RefuseRequest(p) \/ (\E target \in Conns : RouteLookup(p, target))
  \/ RequestLeave(p) \/ ReceiveBad(p) \/ ReadError(p)

Writer(p) == Write(p) \/ WriteFail(p) \/ WriterDone(p)

Next ==
  \/ \E p \in Conns :
       \/ Handler(p) \/ Client(p) \/ Writer(p)
       \/ PingFail(p) \/ RequestCancelled(p)
  \/ CloseServer
  \/ Finished

Spec == Init /\ [][Next]_vars

\* Goroutines that can run do run; a write ends within writeTimeout and a
\* Read whose context is done returns.  Nothing is assumed of the clients.
Fairness ==
  \A p \in Conns :
    /\ WF_vars(Handler(p))
    /\ WF_vars(Writer(p))
    /\ WF_vars(cancelled[p] /\ ReadError(p))

FairSpec == Spec /\ Fairness

----------------------------------------------------------------------------
\* Properties.

\* Every variable keeps the shape of the Go value it stands for; in
\* particular no Send channel ever holds more than QueueSize messages.
TypeOK ==
  /\ connections \in [Addrs -> Nat] /\ totalConnections \in Nat
  /\ serverClosed \in BOOLEAN
  /\ rooms \in SUBSET RoomIDs /\ members \in [RoomIDs -> SUBSET Conns]
  /\ pc \in [Conns -> PCs]
  /\ room \in [Conns -> RoomIDs \cup {NoRoom}]
  /\ todo \in [Conns -> SUBSET Conns]
  /\ sent \in [Conns -> 0..MaxMessages]
  /\ queue \in [Conns -> Seq(Messages)]
  /\ \A p \in Conns : Len(queue[p]) <= QueueSize
  /\ cancelled \in [Conns -> BOOLEAN]
  /\ writer \in [Conns -> {"none", "running", "stopped"}]
  /\ view \in [Conns -> SUBSET Conns] /\ told \in [Conns -> SUBSET Conns]

\* The map of the room manager and the handlers' currentRoom pointers agree:
\* a peer is listed in a room exactly while its handler is attached to it,
\* and a room is in the map exactly while somebody is listed in it (Leave
\* deletes it with its last peer, a failed Admit leaves none behind).
MembershipAgrees ==
  /\ \A p \in Conns, r \in RoomIDs :
       p \in members[r] <=> (room[p] = r /\ InRoom(p))
  /\ \A r \in RoomIDs : r \in rooms <=> members[r] # {}

\* A member never misses another one: each member of the room of p has been
\* put in the queue of p (in join_accepted or peer_joined) or is on its way,
\* its handler standing between Admit and the end of Broadcast.  A full
\* queue may break this, and then p is cancelled.
NoMissingPeer ==
  \A p, x \in Conns :
    /\ InRoom(p) /\ ~cancelled[p]
    /\ x # p /\ InRoom(x) /\ room[x] = room[p]
    => \/ x \in told[p]
       \/ pc[x] = "joined"
       \/ pc[x] = "announcing" /\ p \in todo[x]

\* A member is told of nobody who is not there: a peer announced to p is in
\* its room, or its handler is about to send p the peer_left.
NoGhostPeer ==
  \A p, x \in Conns :
    /\ InRoom(p) /\ ~cancelled[p]
    /\ x \in told[p]
    => \/ InRoom(x) /\ room[x] = room[p]
       \/ pc[x] \in {"leaving", "unwinding"} /\ p \in todo[x]

\* Once nothing is under way towards p, the peers its client knows are
\* exactly the other members of its room: neither the order of the map in
\* Broadcast, nor joins and leaves that cross, nor a dropped message desynchronise a
\* session that stays open.
ViewsConverge ==
  \A p \in Conns :
    /\ InRoom(p) /\ ~cancelled[p]
    /\ queue[p] = <<>>
    /\ \A x \in Conns : pc[x] # "joined" /\ p \notin todo[x]
    => view[p] = members[room[p]] \ {p}

\* An offer, answer or candidate reaches a client only after the client was
\* told of its sender: Route may not overtake the Broadcast of the same
\* handler nor the join_accepted of the target.
SignalsIntroduced ==
  \A p, x \in Conns :
    /\ x # p /\ ~cancelled[p]
    /\ queue[p] # <<>> /\ Head(queue[p]) = Signal(x)
    => x \in view[p]

\* The counters of acquireConnection and releaseConnection equal the number
\* of handlers that hold a slot, per address and in all, on every path out
\* of HandleWebSocket, and stay within the limits; and the deferred calls
\* run in an order that leaves nothing behind: by the time a connection's
\* slot can be reused its peer is in no room and its writer has returned.
SlotsAccounted ==
  /\ \A a \in Addrs :
       connections[a] =
         Cardinality({p \in Conns : AddrOf[p] = a /\ pc[p] \in Holding})
  /\ totalConnections = Cardinality({p \in Conns : pc[p] \in Holding})
  /\ totalConnections <= MaxConnections
  /\ \A a \in Addrs : connections[a] <= MaxConnectionsPerIP
  /\ \A p \in Conns :
       pc[p] = "closed" =>
         /\ \A r \in RoomIDs : p \notin members[r]
         /\ writer[p] # "running"

\* A session that is cancelled (slow, unreachable or shut down) ends: its
\* handler leaves the room, collects its writer and gives back its slot,
\* whatever the other handlers and the client do.  After Server.Close that
\* is every session, one whose handshake was under way included.
SessionsEnd ==
  \A p \in Conns :
    cancelled[p] \/ (serverClosed /\ pc[p] \notin {"idle", "rejected"})
      ~> pc[p] = "closed"

\* Two peers that stay in a room meet: each is announced to the other's
\* client, unless the session that should hear of it ends.
AnnouncementsArrive ==
  \A p, x \in Conns :
    x # p /\ InRoom(p) /\ InRoom(x) /\ room[x] = room[p]
      ~> (x \in view[p] \/ cancelled[p] \/ ~InRoom(p) \/ ~InRoom(x))

----------------------------------------------------------------------------
\* The rooms of the handlers are those of RoomDirectory.

Directory ==
  INSTANCE RoomDirectory
    WITH roomOf <- [p \in Conns |-> IF InRoom(p) THEN room[p] ELSE NoRoom]

\* The server implements the room directory: its joins create or enter rooms
\* within MaxRooms and MaxRoomSize, whatever the locks interleave.
ImplementsDirectory == Directory!DirSpec

=============================================================================

-------------------------- MODULE SignalingProofs --------------------------
(***************************************************************************)
(* Proofs about the signaling server, for any number of connections,       *)
(* addresses and rooms, any limits and queue size, and any mix of requests *)
(* and faults: types, who is in which room, connection slots, the          *)
(* refinement of the room directory; then what the members of a room hear  *)
(* of each other.                                                          *)
(***************************************************************************)
EXTENDS Signaling, FiniteSetTheorems, TLAPS

----------------------------------------------------------------------------
\* Types of the helpers.

\* The states a handler can be in.
LEMMA PCNames ==
  /\ {"accepting", "reading", "joined", "announcing", "relaying", "leaving",
      "replying", "waiting", "unwinding", "draining", "idle", "rejected",
      "closed"} \subseteq PCs
  /\ \A f \in FanOuts : f \in PCs /\ After[f] \in PCs
BY DEF PCs, Holding, FanOuts, After

\* What the server sends are messages.
LEMMA MessageTypes ==
  /\ \A ps \in SUBSET Conns : Accepted(ps) \in Messages
  /\ \A x \in Conns : Joined(x) \in Messages /\ Left(x) \in Messages
                        /\ Signal(x) \in Messages
  /\ Error \in Messages
BY DEF Accepted, Joined, Left, Signal, Error, Messages

\* What every fan-out sends is a message.
LEMMA FanOutType ==
  ASSUME NEW p \in Conns
  PROVE  FanOutMessage(p) \in Messages
BY MessageTypes DEF FanOutMessage

\* A client knows connections only.
LEMMA LearnType ==
  ASSUME NEW known \in SUBSET Conns, NEW m \in Messages
  PROVE  Learn(known, m) \in SUBSET Conns
BY DEF Learn, Messages

\* enqueue keeps the queues, their bound and what depends on them.
LEMMA EnqueueType ==
  ASSUME TypeOK, NEW q \in Conns, NEW m \in Messages, Enqueue(q, m)
  PROVE  /\ queue' \in [Conns -> Seq(Messages)]
         /\ \A p \in Conns : Len(queue'[p]) <= QueueSize
         /\ cancelled' \in [Conns -> BOOLEAN]
         /\ told' \in [Conns -> SUBSET Conns]
<1>1. CASE Full(q)
  BY <1>1 DEF TypeOK, Enqueue
<1>2. CASE ~Full(q)
  <2>1. queue' = [queue EXCEPT ![q] = Append(@, m)] /\ cancelled' = cancelled
        /\ told' = [told EXCEPT ![q] = Learn(@, m)]
    BY <1>2 DEF Enqueue
  <2>2. queue[q] \in Seq(Messages) /\ Len(queue[q]) < QueueSize
    BY <1>2, BoundsAssumption DEF Full, TypeOK
  <2>3. Append(queue[q], m) \in Seq(Messages)
        /\ Len(Append(queue[q], m)) = Len(queue[q]) + 1
    BY <2>2
  <2>4. Learn(told[q], m) \in SUBSET Conns
    BY LearnType DEF TypeOK
  <2> QED
    BY <2>1, <2>2, <2>3, <2>4, BoundsAssumption DEF TypeOK
<1> QED
  BY <1>1, <1>2

\* Entering a fan-out keeps the types of the handler.
LEMMA FanOutStartType ==
  ASSUME TypeOK, NEW p \in Conns, NEW f \in FanOuts, NEW ps \in SUBSET Conns,
         StartFanOut(p, f, ps)
  PROVE  pc' \in [Conns -> PCs] /\ todo' \in [Conns -> SUBSET Conns]
BY PCNames DEF StartFanOut, TypeOK

\* Leaving a room keeps the types of the room manager and of the handler.
LEMMA LeaveType ==
  ASSUME TypeOK, NEW p \in Conns, NEW f \in {"leaving", "unwinding"},
         room[p] # NoRoom, LeaveRoom(p, f)
  PROVE  /\ rooms' \in SUBSET RoomIDs /\ members' \in [RoomIDs -> SUBSET Conns]
         /\ pc' \in [Conns -> PCs] /\ todo' \in [Conns -> SUBSET Conns]
<1>1. room[p] \in RoomIDs /\ f \in FanOuts
  BY DEF TypeOK, FanOuts
<1>2. CASE room[p] \in rooms
  <2> DEFINE rest == members[room[p]] \ {p}
  <2>1. rest \in SUBSET Conns
    BY <1>1 DEF TypeOK
  <2>2. /\ members' = [members EXCEPT ![room[p]] = rest]
        /\ rooms' = IF rest = {} THEN rooms \ {room[p]} ELSE rooms
        /\ StartFanOut(p, f, rest)
    BY <1>2 DEF LeaveRoom
  <2>3. pc' \in [Conns -> PCs] /\ todo' \in [Conns -> SUBSET Conns]
    BY <1>1, <2>1, <2>2, FanOutStartType
  <2> QED
    BY <1>1, <2>1, <2>2, <2>3 DEF TypeOK
<1>3. CASE room[p] \notin rooms
  <2>1. UNCHANGED roomVars /\ StartFanOut(p, f, {})
    BY <1>3 DEF LeaveRoom
  <2>2. pc' \in [Conns -> PCs] /\ todo' \in [Conns -> SUBSET Conns]
    BY <1>1, <2>1, FanOutStartType
  <2> QED
    BY <2>1, <2>2 DEF TypeOK, roomVars
<1> QED
  BY <1>2, <1>3

\* So does the deferred leave of a handler that returns.
LEMMA ReturnType ==
  ASSUME TypeOK, NEW p \in Conns, Return(p)
  PROVE  /\ rooms' \in SUBSET RoomIDs /\ members' \in [RoomIDs -> SUBSET Conns]
         /\ pc' \in [Conns -> PCs] /\ todo' \in [Conns -> SUBSET Conns]
<1>1. CASE room[p] # NoRoom
  BY <1>1, LeaveType DEF Return
<1>2. CASE room[p] = NoRoom
  BY <1>2, PCNames DEF Return, TypeOK, roomVars
<1> QED
  BY <1>1, <1>2

\* Giving a slot back leaves natural numbers in the counters.
LEMMA ReleaseType ==
  ASSUME TypeOK, NEW p \in Conns, ReleaseConnection(p)
  PROVE  connections' \in [Addrs -> Nat] /\ totalConnections' \in Nat
<1> DEFINE a == AddrOf[p]
           n == IF connections[a] <= 1 THEN 0 ELSE connections[a] - 1
<1>1. a \in Addrs /\ connections[a] \in Nat
  BY AddrAssumption DEF TypeOK
<1>2. n \in Nat /\ connections' = [connections EXCEPT ![a] = n]
  BY <1>1 DEF ReleaseConnection
<1>3. connections' \in [Addrs -> Nat]
  <2> HIDE DEF n
  <2> QED
    BY <1>1, <1>2 DEF TypeOK
<1>4. totalConnections' \in Nat
  BY DEF ReleaseConnection, TypeOK
<1> QED
  BY <1>3, <1>4

\* Reading a message stays within the bound.
LEMMA ReceiveType ==
  ASSUME TypeOK, NEW p \in Conns, NEW kind, Receive(p, kind)
  PROVE  sent' \in [Conns -> 0..MaxMessages]
BY BoundsAssumption DEF Receive, TypeOK

----------------------------------------------------------------------------
\* Type correctness.

\* Admit keeps the types.
LEMMA AdmitType ==
  ASSUME TypeOK, NEW p \in Conns, NEW r \in RoomIDs, AdmitTo(p, r),
         sent' \in [Conns -> 0..MaxMessages]
  PROVE  TypeOK'
<1>1. members[r] \in SUBSET Conns /\ Accepted(members[r]) \in Messages
  BY MessageTypes DEF TypeOK
<1>2. Enqueue(p, Accepted(members[r]))
  BY DEF AdmitTo
<1>3. /\ queue' \in [Conns -> Seq(Messages)]
      /\ \A q \in Conns : Len(queue'[q]) <= QueueSize
      /\ cancelled' \in [Conns -> BOOLEAN] /\ told' \in [Conns -> SUBSET Conns]
  BY <1>1, <1>2, EnqueueType
<1>4. /\ rooms' \in SUBSET RoomIDs /\ members' \in [RoomIDs -> SUBSET Conns]
      /\ room' \in [Conns -> RoomIDs \cup {NoRoom}] /\ pc' \in [Conns -> PCs]
  <2>1. CASE Full(p)
    BY <2>1, PCNames DEF AdmitTo, TypeOK
  <2>2. CASE ~Full(p)
    <3>1. /\ rooms' = rooms \cup {r} /\ members' = [members EXCEPT ![r] = @ \cup {p}]
          /\ room' = [room EXCEPT ![p] = r] /\ pc' = [pc EXCEPT ![p] = "joined"]
      BY <2>2 DEF AdmitTo
    <3>2. rooms' \in SUBSET RoomIDs /\ members' \in [RoomIDs -> SUBSET Conns]
      BY <3>1 DEF TypeOK
    <3>3. room' \in [Conns -> RoomIDs \cup {NoRoom}] /\ pc' \in [Conns -> PCs]
      BY <3>1, PCNames DEF TypeOK
    <3> QED
      BY <3>2, <3>3
  <2> QED
    BY <2>1, <2>2
<1> QED
  BY <1>3, <1>4 DEF AdmitTo, TypeOK, serverVars

\* The steps of the handler that its client asks for.
LEMMA ClientType ==
  ASSUME TypeOK, NEW p \in Conns, Client(p)
  PROVE  TypeOK'
<1>1. CASE Acquire(p)
  <2>1. connections' \in [Addrs -> Nat] /\ totalConnections' \in Nat
    <3>1. AddrOf[p] \in Addrs /\ connections[AddrOf[p]] \in Nat
      BY AddrAssumption DEF TypeOK
    <3> QED
      BY <1>1, <3>1 DEF Acquire, TypeOK
  <2>2. pc' \in [Conns -> PCs]
    BY <1>1, PCNames DEF Acquire, TypeOK
  <2> QED
    BY <1>1, <2>1, <2>2 DEF Acquire, TypeOK
<1>2. CASE Reject(p)
  BY <1>2, PCNames DEF Reject, TypeOK, serverVars, roomVars
<1>3. CASE JoinNew(p)
  BY <1>3, ReceiveType, AdmitType DEF JoinNew
<1>4. CASE JoinExisting(p)
  <2>1. rooms \subseteq RoomIDs
    BY DEF TypeOK
  <2> QED
    BY <1>4, <2>1, ReceiveType, AdmitType DEF JoinExisting
<1>5. CASE RefuseRequest(p)
  BY <1>5, ReceiveType, EnqueueType, MessageTypes
  DEF RefuseRequest, TypeOK, serverVars, roomVars
<1>6. ASSUME NEW target \in Conns, RouteLookup(p, target)
      PROVE  TypeOK'
  <2>1. sent' \in [Conns -> 0..MaxMessages]
    BY <1>6, ReceiveType DEF RouteLookup
  <2>2. pc' \in [Conns -> PCs] /\ todo' \in [Conns -> SUBSET Conns]
    <3>1. CASE room[p] \in rooms /\ target \in members[room[p]]
      <4>1. StartFanOut(p, "relaying", {target}) /\ "relaying" \in FanOuts
        BY <1>6, <3>1 DEF RouteLookup, FanOuts
      <4> QED
        BY <4>1, FanOutStartType
    <3>2. CASE ~(room[p] \in rooms /\ target \in members[room[p]])
      BY <1>6, <3>2, PCNames, ZenonT(30) DEF RouteLookup, TypeOK
    <3> QED
      BY <3>1, <3>2
  <2> QED
    BY <1>6, <2>1, <2>2 DEF RouteLookup, TypeOK, serverVars, roomVars
<1>7. CASE RequestLeave(p)
  <2>1. sent' \in [Conns -> 0..MaxMessages]
    BY <1>7, ReceiveType DEF RequestLeave
  <2>2. /\ rooms' \in SUBSET RoomIDs /\ members' \in [RoomIDs -> SUBSET Conns]
        /\ pc' \in [Conns -> PCs] /\ todo' \in [Conns -> SUBSET Conns]
    <3>1. CASE room[p] # NoRoom
      BY <1>7, <3>1, LeaveType DEF RequestLeave
    <3>2. CASE room[p] = NoRoom
      BY <1>7, <3>2 DEF RequestLeave, TypeOK, roomVars
    <3> QED
      BY <3>1, <3>2
  <2>3. room' \in [Conns -> RoomIDs \cup {NoRoom}]
    BY <1>7 DEF RequestLeave, TypeOK
  <2> QED
    BY <1>7, <2>1, <2>2, <2>3 DEF RequestLeave, TypeOK, serverVars
<1>8. CASE ReceiveBad(p)
  <2>1. sent' \in [Conns -> 0..MaxMessages]
    BY <1>8, ReceiveType DEF ReceiveBad
  <2>2. /\ rooms' \in SUBSET RoomIDs /\ members' \in [RoomIDs -> SUBSET Conns]
        /\ pc' \in [Conns -> PCs] /\ todo' \in [Conns -> SUBSET Conns]
    <3>1. CASE Return(p)
      BY <3>1, ReturnType
    <3>2. CASE pc' = [pc EXCEPT ![p] = "waiting"] /\ UNCHANGED <<roomVars, todo>>
      BY <3>2, PCNames DEF TypeOK, roomVars
    <3> QED
      BY <1>8, <3>1, <3>2 DEF ReceiveBad
  <2>3. /\ queue' \in [Conns -> Seq(Messages)]
        /\ \A q \in Conns : Len(queue'[q]) <= QueueSize
        /\ cancelled' \in [Conns -> BOOLEAN] /\ told' \in [Conns -> SUBSET Conns]
    <3>1. CASE Enqueue(p, Error)
      BY <3>1, EnqueueType, MessageTypes
    <3>2. CASE UNCHANGED <<queue, told, cancelled>>
      BY <3>2 DEF TypeOK
    <3> QED
      BY <1>8, <3>1, <3>2 DEF ReceiveBad
  <2> QED
    BY <1>8, <2>1, <2>2, <2>3 DEF ReceiveBad, TypeOK, serverVars
<1>9. CASE ReadError(p)
  BY <1>9, ReturnType DEF ReadError, TypeOK, serverVars
<1> QED
  BY <1>1, <1>2, <1>3, <1>4, <1>5, <1>6, <1>7, <1>8, <1>9 DEF Client

\* The steps the handler takes by itself.
LEMMA HandlerType ==
  ASSUME TypeOK, NEW p \in Conns, Handler(p)
  PROVE  TypeOK'
<1>1. CASE Accept(p)
  BY <1>1, PCNames DEF Accept, TypeOK, serverVars, roomVars
<1>2. CASE AcceptFail(p)
  <2>1. connections' \in [Addrs -> Nat] /\ totalConnections' \in Nat
    BY <1>2, ReleaseType DEF AcceptFail
  <2>2. pc' \in [Conns -> PCs]
    BY <1>2, PCNames DEF AcceptFail, TypeOK
  <2> QED
    BY <1>2, <2>1, <2>2 DEF AcceptFail, TypeOK, roomVars
<1>3. CASE ReplyError(p)
  BY <1>3, EnqueueType, MessageTypes, PCNames
  DEF ReplyError, TypeOK, serverVars, roomVars
<1>4. CASE SnapshotRoom(p)
  <2> DEFINE ps == IF room[p] \in rooms THEN members[room[p]] \ {p} ELSE {}
  <2>1. ps \in SUBSET Conns /\ "announcing" \in FanOuts
    BY DEF TypeOK, FanOuts
  <2>2. StartFanOut(p, "announcing", ps)
    BY <1>4 DEF SnapshotRoom
  <2>3. pc' \in [Conns -> PCs] /\ todo' \in [Conns -> SUBSET Conns]
    BY <2>1, <2>2, FanOutStartType
  <2> QED
    BY <1>4, <2>3 DEF SnapshotRoom, TypeOK, serverVars, roomVars
<1>5. CASE Deliver(p)
  <2>1. PICK q \in todo[p] :
          /\ Enqueue(q, FanOutMessage(p))
          /\ todo' = [todo EXCEPT ![p] = @ \ {q}]
          /\ IF todo[p] = {q}
             THEN /\ pc' = [pc EXCEPT ![p] = FanOutEnd(p, q)]
                  /\ room' = [room EXCEPT ![p] = IF pc[p] = "leaving"
                                                 THEN NoRoom ELSE @]
             ELSE UNCHANGED <<pc, room>>
    BY <1>5 DEF Deliver
  <2>2. q \in Conns
    BY DEF TypeOK
  <2>3. /\ queue' \in [Conns -> Seq(Messages)]
        /\ \A x \in Conns : Len(queue'[x]) <= QueueSize
        /\ cancelled' \in [Conns -> BOOLEAN] /\ told' \in [Conns -> SUBSET Conns]
    BY <2>1, <2>2, EnqueueType, FanOutType
  <2>4. FanOutEnd(p, q) \in PCs
    BY <1>5, PCNames DEF Deliver, FanOutEnd
  <2>5. /\ pc' \in [Conns -> PCs] /\ room' \in [Conns -> RoomIDs \cup {NoRoom}]
        /\ todo' \in [Conns -> SUBSET Conns]
    <3>1. todo' \in [Conns -> SUBSET Conns]
      BY <2>1 DEF TypeOK
    <3>2. CASE todo[p] = {q}
      <4>1. pc' = [pc EXCEPT ![p] = FanOutEnd(p, q)]
        BY <2>1, <3>2
      <4>2. pc' \in [Conns -> PCs]
        BY <2>4, <4>1 DEF TypeOK
      <4>3. room' \in [Conns -> RoomIDs \cup {NoRoom}]
        BY <2>1, <3>2 DEF TypeOK
      <4> QED
        BY <3>1, <4>2, <4>3
    <3>3. CASE todo[p] # {q}
      BY <2>1, <3>1, <3>3 DEF TypeOK
    <3> QED
      BY <3>2, <3>3
  <2> QED
    BY <1>5, <2>3, <2>5 DEF Deliver, TypeOK, serverVars, roomVars
<1>6. CASE FatalDone(p)
  BY <1>6, ReturnType DEF FatalDone, TypeOK, serverVars
<1>7. CASE Release(p)
  <2>1. connections' \in [Addrs -> Nat] /\ totalConnections' \in Nat
    BY <1>7, ReleaseType DEF Release
  <2>2. pc' \in [Conns -> PCs]
    BY <1>7, PCNames DEF Release, TypeOK
  <2> QED
    BY <1>7, <2>1, <2>2 DEF Release, TypeOK, roomVars
<1> QED
  BY <1>1, <1>2, <1>3, <1>4, <1>5, <1>6, <1>7 DEF Handler

\* The steps of the writer, and the contexts ended from outside.
LEMMA WriterType ==
  ASSUME TypeOK, NEW p \in Conns,
         Writer(p) \/ PingFail(p) \/ RequestCancelled(p)
  PROVE  TypeOK'
<1>1. ASSUME queue[p] # <<>>
      PROVE  /\ Tail(queue[p]) \in Seq(Messages)
             /\ Len(Tail(queue[p])) <= QueueSize
             /\ Head(queue[p]) \in Messages
  BY <1>1, BoundsAssumption DEF TypeOK
<1>2. CASE Write(p)
  <2>1. Learn(view[p], Head(queue[p])) \in SUBSET Conns
    BY <1>1, <1>2, LearnType DEF Write, TypeOK
  <2> QED
    BY <1>1, <1>2, <2>1 DEF Write, TypeOK, serverVars, roomVars
<1>3. CASE WriteFail(p)
  BY <1>1, <1>3 DEF WriteFail, WriterStopped, TypeOK, serverVars, roomVars
<1>4. CASE WriterDone(p) \/ PingFail(p)
  BY <1>4 DEF WriterDone, PingFail, WriterStopped, TypeOK, serverVars, roomVars
<1>5. CASE RequestCancelled(p)
  BY <1>5 DEF RequestCancelled, TypeOK, serverVars, roomVars
<1> QED
  BY <1>2, <1>3, <1>4, <1>5 DEF Writer

\* Every step keeps the types.
LEMMA TypeStep == TypeOK /\ [Next]_vars => TypeOK'
<1> SUFFICES ASSUME TypeOK, [Next]_vars PROVE TypeOK'
  OBVIOUS
<1>1. CASE CloseServer
  BY <1>1 DEF CloseServer, TypeOK, roomVars
<1>2. CASE UNCHANGED vars
  BY <1>2 DEF TypeOK, vars
<1> QED
  BY <1>1, <1>2, ClientType, HandlerType, WriterType DEF Next, Finished

\* The types hold initially.
LEMMA TypeInit == Init => TypeOK
<1> SUFFICES ASSUME Init PROVE TypeOK
  OBVIOUS
<1>1. queue \in [Conns -> Seq(Messages)] /\ \A p \in Conns : Len(queue[p]) <= QueueSize
  BY BoundsAssumption DEF Init
<1>2. sent \in [Conns -> 0..MaxMessages] /\ pc \in [Conns -> PCs]
  BY BoundsAssumption, PCNames DEF Init
<1> QED
  BY <1>1, <1>2 DEF Init, TypeOK

\* The types, for every instance; in particular no Send channel holds more
\* than QueueSize messages.
THEOREM TypeCorrect == Spec => []TypeOK
BY TypeInit, TypeStep, PTL DEF Spec

----------------------------------------------------------------------------
\* Rooms.

\* A handler that has not begun to read has no room, and one that fans out
\* what a member says has one.
HandlerRooms ==
  \A p \in Conns :
    /\ pc[p] \in {"idle", "accepting", "rejected"} => room[p] = NoRoom
    /\ pc[p] \in {"joined", "announcing", "relaying"} => room[p] # NoRoom

RoomInv == TypeOK /\ HandlerRooms /\ MembershipAgrees

\* The handler of p goes to s; rooms and members stay.
Move(p, s) ==
  UNCHANGED <<rooms, members, room>> /\ pc' = [pc EXCEPT ![p] = s]

\* The handler of p takes it out of its room and goes to s.
Quit(p, s) ==
  /\ pc[p] \in Attached /\ room[p] # NoRoom
  /\ members' = [members EXCEPT ![room[p]] = @ \ {p}]
  /\ rooms' = IF members[room[p]] \ {p} = {} THEN rooms \ {room[p]} ELSE rooms
  /\ pc' = [pc EXCEPT ![p] = s]

\* A handler that neither enters nor leaves its room keeps RoomInv.
LEMMA MoveRooms ==
  ASSUME RoomInv, NEW p \in Conns, NEW s \in PCs, Move(p, s),
         room[p] = NoRoom \/ (s \in Attached <=> pc[p] \in Attached),
         s \in {"idle", "accepting", "rejected"} => room[p] = NoRoom,
         s \in {"joined", "announcing", "relaying"} => room[p] # NoRoom
  PROVE  HandlerRooms' /\ MembershipAgrees'
<1>1. /\ \A q \in Conns : pc'[q] = IF q = p THEN s ELSE pc[q]
      /\ room' = room /\ members' = members /\ rooms' = rooms
  BY DEF Move, RoomInv, TypeOK
<1>2. HandlerRooms'
  BY <1>1 DEF RoomInv, HandlerRooms
<1>3. \A q \in Conns : InRoom(q)' <=> InRoom(q)
  BY <1>1 DEF InRoom
<1>4. MembershipAgrees'
  BY <1>1, <1>3 DEF RoomInv, MembershipAgrees
<1> QED
  BY <1>2, <1>4

\* Of a handler attached to a room, Leave does what Quit says.
LEMMA LeaveIsQuit ==
  ASSUME RoomInv, NEW p \in Conns, NEW f \in {"leaving", "unwinding"},
         pc[p] \in Attached, room[p] # NoRoom, LeaveRoom(p, f)
  PROVE  /\ room[p] \in RoomIDs /\ p \in members[room[p]]
         /\ todo' = [todo EXCEPT ![p] = members[room[p]] \ {p}]
         /\ Quit(p, IF members[room[p]] \ {p} = {} THEN After[f] ELSE f)
<1>1. room[p] \in RoomIDs /\ InRoom(p)
  BY DEF RoomInv, TypeOK, InRoom
<1>2. p \in members[room[p]] /\ room[p] \in rooms
  BY <1>1 DEF RoomInv, MembershipAgrees
<1> QED
  BY <1>1, <1>2 DEF LeaveRoom, StartFanOut, Quit

\* A handler that leaves its room keeps RoomInv: the others stay members,
\* and the room goes with its last one.
LEMMA QuitRooms ==
  ASSUME RoomInv, NEW p \in Conns, NEW s \in PCs \ {"idle", "accepting",
           "rejected", "joined", "announcing", "relaying"},
         Quit(p, s),
         \/ room' = room /\ s \notin Attached
         \/ room' = [room EXCEPT ![p] = NoRoom]
  PROVE  HandlerRooms' /\ MembershipAgrees'
<1> DEFINE r == room[p]
<1>1. r \in RoomIDs /\ r # NoRoom
  BY DEF Quit, RoomInv, TypeOK
<1>2. /\ \A q \in Conns : pc'[q] = IF q = p THEN s ELSE pc[q]
      /\ \A q \in Conns : q # p => room'[q] = room[q]
      /\ \A t \in RoomIDs : members'[t] = IF t = r THEN members[t] \ {p} ELSE members[t]
  BY <1>1 DEF Quit, RoomInv, TypeOK
<1>3. HandlerRooms'
  BY <1>2 DEF RoomInv, HandlerRooms
<1>4. ~InRoom(p)' /\ \A q \in Conns : q # p => (InRoom(q)' <=> InRoom(q))
  BY <1>2 DEF InRoom, RoomInv, TypeOK
<1>5. \A t \in RoomIDs : p \in members[t] => t = r
  BY DEF RoomInv, MembershipAgrees
<1>6. \A q \in Conns, t \in RoomIDs :
        q \in members'[t] <=> (room'[q] = t /\ InRoom(q)')
  <2> SUFFICES ASSUME NEW q \in Conns, NEW t \in RoomIDs
               PROVE  q \in members'[t] <=> (room'[q] = t /\ InRoom(q)')
    OBVIOUS
  <2>1. CASE q = p
    BY <1>2, <1>4, <1>5, <2>1
  <2>2. CASE q # p
    <3>1. q \in members[t] <=> (room[q] = t /\ InRoom(q))
      BY DEF RoomInv, MembershipAgrees
    <3> QED
      BY <1>2, <1>4, <2>2, <3>1
  <2> QED
    BY <2>1, <2>2
<1>7. \A t \in RoomIDs : t \in rooms' <=> members'[t] # {}
  <2>1. ASSUME NEW t \in RoomIDs, t # r
        PROVE  t \in rooms' <=> members'[t] # {}
    BY <1>2, <2>1 DEF Quit, RoomInv, MembershipAgrees
  <2>2. r \in rooms' <=> members'[r] # {}
    BY <1>1, <1>2 DEF Quit, RoomInv, MembershipAgrees
  <2> QED
    BY <2>1, <2>2
<1> QED
  BY <1>3, <1>6, <1>7 DEF MembershipAgrees

----------------------------------------------------------------------------
\* What a step does to rooms, fan-outs and what clients are told.  Every step
\* of the server has one of six effects, whichever of its two dozen actions
\* it is; the invariants below are proved effect by effect.

\* A cancelled member stays cancelled, and messages read stay read.
Grows ==
  \A q \in Conns : /\ cancelled[q] /\ InRoom(q) => cancelled'[q]
                   /\ sent[q] <= sent'[q]

\* Nothing the rooms or the handlers' states depend on changes.
Still == UNCHANGED <<rooms, members, room, pc, todo, told>> /\ Grows

\* The handler of p moves on inside its room, or has none.
Calm(p, s) ==
  /\ Move(p, s) /\ UNCHANGED <<todo, told>> /\ Grows
  /\ pc[p] \notin FanOuts \cup {"joined"} /\ s \notin FanOuts \cup {"joined"}
  /\ \/ room[p] = NoRoom
     \/ pc[p] \in Attached /\ s \in Attached
     \/ pc[p] = "draining" /\ s = "closed"

\* p begins to announce itself to the members of its room.
Announce(p) ==
  /\ pc[p] = "joined" /\ InRoom(p)
  /\ todo' = [todo EXCEPT ![p] = members[room[p]] \ {p}]
  /\ Move(p, IF members[room[p]] \ {p} = {} THEN "reading" ELSE "announcing")
  /\ UNCHANGED told /\ Grows

\* p begins to relay a message to a member of its room.
Relay(p, target) ==
  /\ pc[p] = "reading" /\ InRoom(p) /\ target \in members[room[p]]
  /\ todo' = [todo EXCEPT ![p] = {target}]
  /\ Move(p, "relaying")
  /\ UNCHANGED told /\ Grows

\* Room r is new, and there is a place for it, or it has a place for a peer.
HasPlace(r) ==
  \/ r \notin rooms /\ Cardinality(rooms) < MaxRooms
  \/ r \in rooms /\ Cardinality(members[r]) < MaxRoomSize

\* p is admitted to r and is told of those who are there.
Admitted(p, r) ==
  /\ pc[p] = "reading" /\ room[p] = NoRoom /\ sent[p] < MaxMessages
  /\ HasPlace(r)
  /\ rooms' = rooms \cup {r} /\ members' = [members EXCEPT ![r] = @ \cup {p}]
  /\ room' = [room EXCEPT ![p] = r] /\ pc' = [pc EXCEPT ![p] = "joined"]
  /\ told' = [told EXCEPT ![p] = members[r]]
  /\ UNCHANGED todo /\ Grows

\* p leaves its room and begins to tell those who remain.
Departs(p, f) ==
  /\ InRoom(p) /\ pc[p] \notin FanOuts \cup {"joined"}
  /\ Quit(p, IF members[room[p]] \ {p} = {} THEN After[f] ELSE f)
  /\ room' = IF f = "leaving" /\ members[room[p]] \ {p} = {}
             THEN [room EXCEPT ![p] = NoRoom] ELSE room
  /\ todo' = [todo EXCEPT ![p] = members[room[p]] \ {p}]
  /\ f = "leaving" /\ ~Rejoin => sent'[p] = MaxMessages
  /\ UNCHANGED told /\ Grows

\* p reaches one peer of its fan-out.
Tells(p, q) ==
  /\ pc[p] \in FanOuts /\ q \in todo[p]
  /\ todo' = [todo EXCEPT ![p] = @ \ {q}]
  /\ \/ cancelled'[q] /\ told' = told
     \/ told' = [told EXCEPT ![q] = Learn(@, FanOutMessage(p))]
  /\ IF todo[p] = {q}
     THEN /\ pc' = [pc EXCEPT ![p] = FanOutEnd(p, q)]
          /\ room' = [room EXCEPT ![p] = IF pc[p] = "leaving"
                                         THEN NoRoom ELSE @]
     ELSE UNCHANGED <<pc, room>>
  /\ UNCHANGED <<rooms, members>> /\ Grows

Effect ==
  \/ Still
  \/ \E p \in Conns, s \in PCs : Calm(p, s)
  \/ \E p \in Conns : Announce(p)
  \/ \E p, target \in Conns : Relay(p, target)
  \/ \E p \in Conns, r \in RoomIDs : Admitted(p, r)
  \/ \E p \in Conns, f \in {"leaving", "unwinding"} : Departs(p, f)
  \/ \E p, q \in Conns : Tells(p, q)

\* What a client learns from each message.
LEMMA LearnFacts ==
  ASSUME NEW known
  PROVE  /\ \A ps \in SUBSET Conns : Learn(known, Accepted(ps)) = ps
         /\ \A x \in Conns : /\ Learn(known, Joined(x)) = known \cup {x}
                            /\ Learn(known, Left(x)) = known \ {x}
                            /\ Learn(known, Signal(x)) = known
         /\ Learn(known, Error) = known
BY DEF Learn, Accepted, Joined, Left, Signal, Error

\* What enqueue does to its peer: it is told, or cancelled.
LEMMA EnqueueEffect ==
  ASSUME TypeOK, NEW q \in Conns, NEW m, Enqueue(q, m)
  PROVE  /\ \/ cancelled'[q] /\ told' = told
            \/ told' = [told EXCEPT ![q] = Learn(@, m)]
         /\ \A p \in Conns : cancelled[p] => cancelled'[p]
BY DEF Enqueue, TypeOK

\* An error message tells a client of nobody.
LEMMA ErrorEffect ==
  ASSUME TypeOK, NEW q \in Conns, Enqueue(q, Error)
  PROVE  told' = told /\ \A p \in Conns : cancelled[p] => cancelled'[p]
<1>1. [told EXCEPT ![q] = Learn(@, Error)] = told
  BY LearnFacts DEF TypeOK
<1> QED
  BY <1>1, EnqueueEffect

\* Reading a message raises the count of messages read; the last message of
\* a client that leaves raises it to the bound.
LEMMA ReceiveEffect ==
  ASSUME TypeOK, NEW p \in Conns, NEW kind, Receive(p, kind)
  PROVE  /\ pc[p] = "reading" /\ sent[p] < MaxMessages
         /\ \A q \in Conns : sent[q] <= sent'[q]
         /\ kind = "leave" /\ ~Rejoin => sent'[p] = MaxMessages
BY BoundsAssumption DEF Receive, TypeOK

\* A handler that returns departs from its room, if it has one.
LEMMA ReturnEffect ==
  ASSUME RoomInv, NEW p \in Conns, pc[p] \in {"reading", "waiting"}, Return(p),
         UNCHANGED <<room, told>>, Grows
  PROVE  Effect
<1>0. pc[p] \in Attached /\ pc[p] \notin FanOuts \cup {"joined"}
  BY DEF Attached, FanOuts
<1>1. CASE room[p] # NoRoom
  <2>1. LeaveRoom(p, "unwinding")
    BY <1>1 DEF Return
  <2>2. /\ todo' = [todo EXCEPT ![p] = members[room[p]] \ {p}]
        /\ Quit(p, IF members[room[p]] \ {p} = {} THEN After["unwinding"]
                   ELSE "unwinding")
    BY <1>0, <1>1, <2>1, LeaveIsQuit
  <2>3. Departs(p, "unwinding")
    BY <1>0, <1>1, <2>2 DEF Departs, InRoom
  <2> QED
    BY <2>3 DEF Effect
<1>2. CASE room[p] = NoRoom
  <2>1. Calm(p, "draining")
    BY <1>0, <1>2 DEF Return, Calm, Move, roomVars, FanOuts
  <2> QED
    BY <2>1, PCNames DEF Effect
<1> QED
  BY <1>1, <1>2

\* Admit has an effect on the room, or none at all.
LEMMA AdmitEffect ==
  ASSUME RoomInv, NEW p \in Conns, NEW r \in RoomIDs, Receive(p, "join"),
         room[p] = NoRoom, HasPlace(r), AdmitTo(p, r)
  PROVE  Effect
<1>1. Enqueue(p, Accepted(members[r])) /\ TypeOK
  BY DEF AdmitTo, RoomInv
<1>2. Grows
  BY <1>1, EnqueueEffect, ReceiveEffect DEF Grows
<1>3. pc[p] = "reading" /\ sent[p] < MaxMessages
  BY <1>1, ReceiveEffect
<1>4. CASE Full(p)
  <2>1. told' = told
    BY <1>1, <1>4 DEF Enqueue
  <2>2. Calm(p, "replying")
    BY <1>2, <1>3, <1>4, <2>1 DEF AdmitTo, Calm, Move, FanOuts
  <2> QED
    BY <2>2, PCNames DEF Effect
<1>5. CASE ~Full(p)
  <2>1. members[r] \in SUBSET Conns
    BY <1>1 DEF TypeOK
  <2>2. told' = [told EXCEPT ![p] = members[r]]
    BY <1>1, <1>5, <2>1, LearnFacts DEF Enqueue
  <2>3. Admitted(p, r)
    BY <1>2, <1>3, <1>5, <2>2 DEF AdmitTo, Admitted
  <2> QED
    BY <2>3 DEF Effect
<1> QED
  BY <1>4, <1>5

\* The steps a client asks for.
LEMMA ClientEffect ==
  ASSUME RoomInv, NEW p \in Conns, Client(p)
  PROVE  Effect
<1> TypeOK
  BY DEF RoomInv
<1>1. CASE Acquire(p) \/ Reject(p)
  <2>1. pc[p] = "idle" /\ room[p] = NoRoom
    BY <1>1 DEF Acquire, Reject, RoomInv, HandlerRooms
  <2>2. Grows
    BY <1>1 DEF Acquire, Reject, Grows, TypeOK
  <2>3. Calm(p, "accepting") \/ Calm(p, "rejected")
    BY <1>1, <2>1, <2>2 DEF Acquire, Reject, Calm, Move, FanOuts, roomVars
  <2> QED
    BY <2>3, PCNames DEF Effect
<1>2. CASE JoinNew(p)
  BY <1>2, AdmitEffect DEF JoinNew, Fresh, HasPlace
<1>3. CASE JoinExisting(p)
  <2>1. rooms \subseteq RoomIDs
    BY DEF TypeOK
  <2> QED
    BY <1>3, <2>1, AdmitEffect DEF JoinExisting, HasPlace
<1>4. CASE RefuseRequest(p)
  <2>1. told' = told /\ Grows
    BY <1>4, ErrorEffect, ReceiveEffect DEF RefuseRequest, Grows
  <2>2. Still
    BY <1>4, <2>1 DEF RefuseRequest, Still, roomVars
  <2> QED
    BY <2>2 DEF Effect
<1>5. ASSUME NEW target \in Conns, RouteLookup(p, target)
      PROVE  Effect
  <2>1. pc[p] = "reading" /\ room[p] # NoRoom
    BY <1>5, ReceiveEffect DEF RouteLookup
  <2>2. InRoom(p) /\ pc[p] \in Attached
    BY <2>1 DEF InRoom, Attached
  <2>3. UNCHANGED <<rooms, members, room, told>> /\ Grows
    BY <1>5, ReceiveEffect DEF RouteLookup, Grows, roomVars
  <2>4. CASE room[p] \in rooms /\ target \in members[room[p]]
    <3>1. StartFanOut(p, "relaying", {target})
      BY <1>5, <2>4 DEF RouteLookup
    <3>2. Relay(p, target)
      BY <2>1, <2>2, <2>3, <2>4, <3>1 DEF Relay, StartFanOut, Move
    <3> QED
      BY <3>2 DEF Effect
  <2>5. CASE ~(room[p] \in rooms /\ target \in members[room[p]])
    <3>1. Calm(p, "replying")
      BY <1>5, <2>1, <2>2, <2>3, <2>5
      DEF RouteLookup, Calm, Move, FanOuts, Attached
    <3> QED
      BY <3>1, PCNames DEF Effect
  <2> QED
    BY <2>4, <2>5
<1>6. CASE RequestLeave(p)
  <2>1. pc[p] = "reading" /\ (~Rejoin => sent'[p] = MaxMessages)
        /\ \A q \in Conns : sent[q] <= sent'[q]
    BY <1>6, ReceiveEffect DEF RequestLeave
  <2>2. told' = told /\ Grows
    BY <1>6, <2>1 DEF RequestLeave, Grows
  <2>3. pc[p] \in Attached /\ pc[p] \notin FanOuts \cup {"joined"}
    BY <2>1 DEF Attached, FanOuts
  <2>4. CASE room[p] # NoRoom
    <3> DEFINE rest == members[room[p]] \ {p}
    <3>1. /\ LeaveRoom(p, "leaving")
          /\ room' = [room EXCEPT ![p] = IF pc'[p] = "reading" THEN NoRoom ELSE @]
      BY <1>6, <2>4 DEF RequestLeave
    <3>2. /\ todo' = [todo EXCEPT ![p] = rest]
          /\ Quit(p, IF rest = {} THEN After["leaving"] ELSE "leaving")
      BY <2>3, <2>4, <3>1, LeaveIsQuit
    <3>3. After["leaving"] = "reading"
      BY DEF After
    <3>4. pc'[p] = IF rest = {} THEN "reading" ELSE "leaving"
      BY <3>2, <3>3 DEF Quit, TypeOK
    <3>5. room' = IF rest = {} THEN [room EXCEPT ![p] = NoRoom] ELSE room
      BY <3>1, <3>4 DEF TypeOK
    <3>6. Departs(p, "leaving")
      BY <2>1, <2>2, <2>3, <2>4, <3>2, <3>5 DEF Departs, InRoom
    <3> QED
      BY <3>6 DEF Effect
  <2>5. CASE room[p] = NoRoom
    <3>1. Still
      BY <1>6, <2>2, <2>5 DEF RequestLeave, Still, roomVars
    <3> QED
      BY <3>1 DEF Effect
  <2> QED
    BY <2>4, <2>5
<1>7. CASE ReceiveBad(p)
  <2>1. pc[p] = "reading" /\ \A q \in Conns : sent[q] <= sent'[q]
    BY <1>7, ReceiveEffect DEF ReceiveBad
  <2>2. told' = told /\ Grows
    <3>1. CASE Enqueue(p, Error)
      BY <2>1, <3>1, ErrorEffect DEF Grows
    <3>2. CASE UNCHANGED <<queue, told, cancelled>>
      BY <2>1, <3>2 DEF Grows
    <3> QED
      BY <1>7, <3>1, <3>2 DEF ReceiveBad
  <2>3. room' = room
    BY <1>7 DEF ReceiveBad
  <2>4. CASE Return(p)
    BY <2>1, <2>2, <2>3, <2>4, ReturnEffect
  <2>5. CASE pc' = [pc EXCEPT ![p] = "waiting"] /\ UNCHANGED <<roomVars, todo>>
    <3>1. Calm(p, "waiting")
      BY <2>1, <2>2, <2>3, <2>5 DEF Calm, Move, roomVars, FanOuts, Attached
    <3> QED
      BY <3>1, PCNames DEF Effect
  <2> QED
    BY <1>7, <2>4, <2>5 DEF ReceiveBad
<1>8. CASE ReadError(p)
  <2>1. Grows
    BY <1>8 DEF ReadError, Grows, TypeOK
  <2> QED
    BY <1>8, <2>1, ReturnEffect DEF ReadError
<1> QED
  BY <1>1, <1>2, <1>3, <1>4, <1>5, <1>6, <1>7, <1>8 DEF Client

\* The steps the handler takes by itself.
LEMMA HandlerEffect ==
  ASSUME RoomInv, NEW p \in Conns, Handler(p)
  PROVE  Effect
<1> TypeOK
  BY DEF RoomInv
<1>1. CASE Accept(p) \/ AcceptFail(p)
  <2>1. pc[p] = "accepting" /\ room[p] = NoRoom
    BY <1>1 DEF Accept, AcceptFail, RoomInv, HandlerRooms
  <2>2. Grows
    <3>1. ~InRoom(p) /\ sent' = sent
          /\ \A q \in Conns : q # p => cancelled'[q] = cancelled[q]
      BY <1>1, <2>1 DEF Accept, AcceptFail, InRoom, TypeOK
    <3>2. ASSUME NEW q \in Conns, cancelled[q], InRoom(q)
          PROVE  cancelled'[q]
      <4>1. q # p
        BY <3>1, <3>2
      <4> QED
        BY <3>1, <3>2, <4>1
    <3>3. \A q \in Conns : sent[q] <= sent'[q]
      BY <3>1 DEF TypeOK
    <3> QED
      BY <3>2, <3>3 DEF Grows
  <2>3. Calm(p, "reading") \/ Calm(p, "closed")
    BY <1>1, <2>1, <2>2 DEF Accept, AcceptFail, Calm, Move, FanOuts, roomVars
  <2> QED
    BY <2>3, PCNames DEF Effect
<1>2. CASE ReplyError(p)
  <2>1. told' = told /\ \A q \in Conns : cancelled[q] => cancelled'[q]
    BY <1>2, ErrorEffect DEF ReplyError
  <2>2. Grows
    BY <1>2, <2>1 DEF ReplyError, Grows, TypeOK
  <2>3. Calm(p, "reading")
    BY <1>2, <2>1, <2>2 DEF ReplyError, Calm, Move, roomVars, FanOuts, Attached
  <2> QED
    BY <2>3, PCNames DEF Effect
<1>3. CASE SnapshotRoom(p)
  <2>1. pc[p] = "joined" /\ room[p] # NoRoom
    BY <1>3 DEF SnapshotRoom, RoomInv, HandlerRooms
  <2>2. InRoom(p) /\ room[p] \in RoomIDs
    BY <2>1 DEF InRoom, Attached, TypeOK
  <2>3. room[p] \in rooms
    BY <2>2 DEF RoomInv, MembershipAgrees
  <2>4. StartFanOut(p, "announcing", members[room[p]] \ {p})
    BY <1>3, <2>3 DEF SnapshotRoom
  <2>5. Grows
    BY <1>3 DEF SnapshotRoom, Grows, TypeOK
  <2>6. Announce(p)
    BY <1>3, <2>1, <2>2, <2>4, <2>5
    DEF SnapshotRoom, StartFanOut, Announce, Move, After, roomVars
  <2> QED
    BY <2>6 DEF Effect
<1>4. CASE Deliver(p)
  <2>1. PICK q \in todo[p] :
          /\ Enqueue(q, FanOutMessage(p))
          /\ todo' = [todo EXCEPT ![p] = @ \ {q}]
          /\ IF todo[p] = {q}
             THEN /\ pc' = [pc EXCEPT ![p] = FanOutEnd(p, q)]
                  /\ room' = [room EXCEPT ![p] = IF pc[p] = "leaving"
                                                 THEN NoRoom ELSE @]
             ELSE UNCHANGED <<pc, room>>
    BY <1>4 DEF Deliver
  <2>2. q \in Conns
    BY DEF TypeOK
  <2>3. /\ \/ cancelled'[q] /\ told' = told
           \/ told' = [told EXCEPT ![q] = Learn(@, FanOutMessage(p))]
        /\ \A x \in Conns : cancelled[x] => cancelled'[x]
    BY <2>1, <2>2, EnqueueEffect
  <2>4. Grows
    BY <1>4, <2>3 DEF Deliver, Grows, TypeOK
  <2>5. Tells(p, q)
    BY <1>4, <2>1, <2>3, <2>4 DEF Deliver, Tells, roomVars
  <2> QED
    BY <2>2, <2>5 DEF Effect
<1>5. CASE FatalDone(p)
  <2>1. Grows
    BY <1>5 DEF FatalDone, Grows, TypeOK
  <2> QED
    BY <1>5, <2>1, ReturnEffect DEF FatalDone
<1>6. CASE Release(p)
  <2>1. Grows
    BY <1>6 DEF Release, Grows, TypeOK
  <2>2. Calm(p, "closed")
    BY <1>6, <2>1 DEF Release, Calm, Move, roomVars, FanOuts
  <2> QED
    BY <2>2, PCNames DEF Effect
<1> QED
  BY <1>1, <1>2, <1>3, <1>4, <1>5, <1>6 DEF Handler

\* Every step has one of the effects.
LEMMA StepEffect ==
  ASSUME RoomInv, [Next]_vars
  PROVE  Effect
<1> TypeOK
  BY DEF RoomInv
<1>1. ASSUME NEW p \in Conns, Writer(p) \/ PingFail(p) \/ RequestCancelled(p)
      PROVE  Still
  <2>1. /\ UNCHANGED <<rooms, members, room, pc, todo, told, sent>>
        /\ \A q \in Conns : cancelled[q] => cancelled'[q]
    BY <1>1 DEF Writer, Write, WriteFail, WriterDone, PingFail, WriterStopped,
                RequestCancelled, roomVars, TypeOK
  <2> QED
    BY <2>1 DEF Still, Grows, TypeOK
<1>2. CASE CloseServer
  <2>1. /\ UNCHANGED <<rooms, members, room, pc, todo, told, sent>>
        /\ \A q \in Conns : cancelled[q] => cancelled'[q]
    BY <1>2 DEF CloseServer, roomVars, TypeOK
  <2>2. Still
    BY <2>1 DEF Still, Grows, TypeOK
  <2> QED
    BY <2>2 DEF Effect
<1>3. CASE UNCHANGED vars
  <2>1. Still
    BY <1>3 DEF vars, Still, Grows, TypeOK
  <2> QED
    BY <2>1 DEF Effect
<1>4. ASSUME NEW p \in Conns, Writer(p) \/ PingFail(p) \/ RequestCancelled(p)
      PROVE  Effect
  BY <1>1, <1>4 DEF Effect
<1> QED
  BY <1>2, <1>3, <1>4, ClientEffect, HandlerEffect DEF Next, Finished

----------------------------------------------------------------------------
\* The room manager and the handlers agree.

\* The end of a loop: the handler goes on inside its room, or has left it.
LEMMA FanOutEndFacts ==
  ASSUME NEW p \in Conns, NEW q \in Conns, pc[p] \in FanOuts
  PROVE  /\ pc[p] = "announcing" => FanOutEnd(p, q) = "reading"
         /\ pc[p] = "relaying" => FanOutEnd(p, q) \in {"reading", "replying"}
         /\ pc[p] = "leaving" => FanOutEnd(p, q) = "reading"
         /\ pc[p] = "unwinding" => FanOutEnd(p, q) = "draining"
BY DEF FanOutEnd, After, FanOuts

\* One turn of a fan-out keeps the rooms.
LEMMA TellsRooms ==
  ASSUME RoomInv, NEW p \in Conns, NEW q \in Conns, Tells(p, q)
  PROVE  HandlerRooms' /\ MembershipAgrees'
<1>1. CASE todo[p] # {q}
  <2>1. UNCHANGED <<rooms, members, pc, room>>
    BY <1>1 DEF Tells
  <2> QED
    BY <2>1 DEF RoomInv, HandlerRooms, MembershipAgrees, InRoom
<1>2. CASE todo[p] = {q}
  <2> DEFINE s == FanOutEnd(p, q)
  <2>1. /\ pc' = [pc EXCEPT ![p] = s] /\ UNCHANGED <<rooms, members>>
        /\ room' = [room EXCEPT ![p] = IF pc[p] = "leaving" THEN NoRoom ELSE @]
        /\ pc[p] \in FanOuts
    BY <1>2 DEF Tells
  <2>2. CASE pc[p] \in {"announcing", "relaying"}
    <3>1. s \in {"reading", "replying"}
      BY <2>1, <2>2, FanOutEndFacts
    <3>2. room' = room
      BY <2>1, <2>2 DEF RoomInv, TypeOK
    <3>3. Move(p, s) /\ s \in PCs
      BY <2>1, <3>1, <3>2, PCNames DEF Move
    <3>4. s \in Attached /\ pc[p] \in Attached
      BY <2>2, <3>1 DEF Attached
    <3> HIDE DEF s
    <3> QED
      BY <3>1, <3>3, <3>4, MoveRooms
  <2>3. CASE pc[p] = "unwinding"
    <3>1. s = "draining"
      BY <2>1, <2>3, FanOutEndFacts
    <3>2. room' = room
      BY <2>1, <2>3 DEF RoomInv, TypeOK
    <3>3. Move(p, s) /\ s \in PCs
      BY <2>1, <3>1, <3>2, PCNames DEF Move
    <3>4. s \notin Attached /\ pc[p] \notin Attached
      BY <2>3, <3>1 DEF Attached
    <3> HIDE DEF s
    <3> QED
      BY <3>1, <3>3, <3>4, MoveRooms
  <2>4. CASE pc[p] = "leaving"
    <3>1. s = "reading"
      BY <2>1, <2>4, FanOutEndFacts
    <3>2. /\ \A x \in Conns : pc'[x] = IF x = p THEN "reading" ELSE pc[x]
          /\ \A x \in Conns : room'[x] = IF x = p THEN NoRoom ELSE room[x]
      BY <2>1, <2>4, <3>1 DEF RoomInv, TypeOK
    <3>3. HandlerRooms'
      BY <3>2 DEF RoomInv, HandlerRooms
    <3>4. ~InRoom(p)
      BY <2>4 DEF InRoom, Attached
    <3>5. ~InRoom(p)' /\ \A x \in Conns : x # p => (InRoom(x)' <=> InRoom(x))
      BY <3>2 DEF InRoom
    <3>6. ASSUME NEW x \in Conns, NEW r \in RoomIDs
          PROVE  x \in members'[r] <=> (room'[x] = r /\ InRoom(x)')
      <4>1. x \in members[r] <=> (room[x] = r /\ InRoom(x))
        BY DEF RoomInv, MembershipAgrees
      <4>2. CASE x = p
        BY <2>1, <3>4, <3>5, <4>1, <4>2
      <4>3. CASE x # p
        BY <2>1, <3>2, <3>5, <4>1, <4>3
      <4> QED
        BY <4>2, <4>3
    <3>7. \A r \in RoomIDs : r \in rooms' <=> members'[r] # {}
      BY <2>1 DEF RoomInv, MembershipAgrees
    <3> QED
      BY <3>3, <3>6, <3>7 DEF MembershipAgrees
  <2> QED
    BY <2>1, <2>2, <2>3, <2>4 DEF FanOuts
<1> QED
  BY <1>1, <1>2

\* Admission keeps the rooms: the newcomer is listed in its room only.
LEMMA AdmittedRooms ==
  ASSUME RoomInv, NEW p \in Conns, NEW r \in RoomIDs, Admitted(p, r)
  PROVE  HandlerRooms' /\ MembershipAgrees'
<1>1. /\ rooms' = rooms \cup {r} /\ members' = [members EXCEPT ![r] = @ \cup {p}]
      /\ room' = [room EXCEPT ![p] = r] /\ pc' = [pc EXCEPT ![p] = "joined"]
  BY DEF Admitted
<1>2. /\ \A q \in Conns : pc'[q] = IF q = p THEN "joined" ELSE pc[q]
      /\ \A q \in Conns : room'[q] = IF q = p THEN r ELSE room[q]
      /\ \A t \in RoomIDs : members'[t] = IF t = r THEN members[t] \cup {p}
                                          ELSE members[t]
  BY <1>1 DEF RoomInv, TypeOK
<1>3. r # NoRoom
  BY RoomsAssumption
<1>4. HandlerRooms'
  BY <1>2, <1>3 DEF RoomInv, HandlerRooms
<1>5. InRoom(p)' /\ \A q \in Conns : q # p => (InRoom(q)' <=> InRoom(q))
  BY <1>2, <1>3 DEF InRoom, Attached
<1>6. \A t \in RoomIDs : p \notin members[t]
  BY DEF Admitted, RoomInv, MembershipAgrees, InRoom
<1>7. \A q \in Conns, t \in RoomIDs :
        q \in members'[t] <=> (room'[q] = t /\ InRoom(q)')
  <2> SUFFICES ASSUME NEW q \in Conns, NEW t \in RoomIDs
               PROVE  q \in members'[t] <=> (room'[q] = t /\ InRoom(q)')
    OBVIOUS
  <2>1. CASE q = p
    BY <1>2, <1>5, <1>6, <2>1
  <2>2. CASE q # p
    <3>1. q \in members[t] <=> (room[q] = t /\ InRoom(q))
      BY DEF RoomInv, MembershipAgrees
    <3> QED
      BY <1>2, <1>5, <2>2, <3>1
  <2> QED
    BY <2>1, <2>2
<1>8. \A t \in RoomIDs : t \in rooms' <=> members'[t] # {}
  BY <1>1, <1>2 DEF RoomInv, MembershipAgrees
<1> QED
  BY <1>4, <1>7, <1>8 DEF MembershipAgrees

\* So does every effect.
LEMMA EffectRooms ==
  ASSUME RoomInv, Effect
  PROVE  HandlerRooms' /\ MembershipAgrees'
<1>1. CASE Still
  BY <1>1 DEF Still, RoomInv, HandlerRooms, MembershipAgrees, InRoom
<1>2. ASSUME NEW p \in Conns, NEW s \in PCs, Calm(p, s)
      PROVE  HandlerRooms' /\ MembershipAgrees'
  <2>1. room[p] = NoRoom \/ (s \in Attached <=> pc[p] \in Attached)
    BY <1>2 DEF Calm, Attached
  <2>2. s \in {"idle", "accepting", "rejected"} => room[p] = NoRoom
    BY <1>2 DEF Calm, Attached
  <2>3. s \notin {"joined", "announcing", "relaying"} /\ Move(p, s)
    BY <1>2 DEF Calm, FanOuts
  <2> QED
    BY <2>1, <2>2, <2>3, MoveRooms
<1>3. ASSUME NEW p \in Conns, Announce(p)
      PROVE  HandlerRooms' /\ MembershipAgrees'
  <2>1. PICK s \in {"reading", "announcing"} : Move(p, s)
    BY <1>3 DEF Announce
  <2>2. s \in Attached /\ pc[p] \in Attached /\ s \in PCs /\ room[p] # NoRoom
    BY <1>3, PCNames DEF Announce, InRoom, Attached
  <2> QED
    BY <2>1, <2>2, MoveRooms
<1>4. ASSUME NEW p \in Conns, NEW target \in Conns, Relay(p, target)
      PROVE  HandlerRooms' /\ MembershipAgrees'
  <2>1. "relaying" \in Attached /\ pc[p] \in Attached /\ room[p] # NoRoom
        /\ Move(p, "relaying") /\ "relaying" \in PCs
    BY <1>4, PCNames DEF Relay, InRoom, Attached
  <2> QED
    BY <2>1, MoveRooms
<1>5. ASSUME NEW p \in Conns, NEW r \in RoomIDs, Admitted(p, r)
      PROVE  HandlerRooms' /\ MembershipAgrees'
  BY <1>5, AdmittedRooms
<1>6. ASSUME NEW p \in Conns, NEW f \in {"leaving", "unwinding"}, Departs(p, f)
      PROVE  HandlerRooms' /\ MembershipAgrees'
  <2> DEFINE empty == members[room[p]] \ {p} = {}
             s == IF empty THEN After[f] ELSE f
  <2>1. s \in {"reading", "leaving", "draining", "unwinding"}
        /\ (s = "reading" <=> f = "leaving" /\ empty)
    BY DEF After
  <2>2. Quit(p, s) /\ room' = IF s = "reading" THEN [room EXCEPT ![p] = NoRoom]
                             ELSE room
    BY <1>6, <2>1 DEF Departs
  <2>3. s \in PCs \ {"idle", "accepting", "rejected", "joined", "announcing",
                     "relaying"}
    BY <2>1, PCNames
  <2>4. s # "reading" => s \notin Attached
    BY <2>1 DEF Attached
  <2> HIDE DEF s
  <2> QED
    BY <2>2, <2>3, <2>4, QuitRooms
<1>7. ASSUME NEW p \in Conns, NEW q \in Conns, Tells(p, q)
      PROVE  HandlerRooms' /\ MembershipAgrees'
  BY <1>7, TellsRooms
<1> QED
  BY <1>1, <1>2, <1>3, <1>4, <1>5, <1>6, <1>7 DEF Effect

\* RoomInv is inductive.
LEMMA RoomInvInit == Init => RoomInv
<1> SUFFICES ASSUME Init PROVE RoomInv
  OBVIOUS
<1>1. HandlerRooms /\ MembershipAgrees
  BY DEF Init, HandlerRooms, MembershipAgrees, InRoom, Attached
<1> QED
  BY <1>1, TypeInit DEF RoomInv

LEMMA RoomInvStep == RoomInv /\ [Next]_vars => RoomInv'
<1> SUFFICES ASSUME RoomInv, [Next]_vars PROVE RoomInv'
  OBVIOUS
<1>1. TypeOK'
  BY TypeStep DEF RoomInv
<1>2. HandlerRooms' /\ MembershipAgrees'
  BY StepEffect, EffectRooms
<1> QED
  BY <1>1, <1>2 DEF RoomInv

\* The map of the room manager and the handlers' currentRoom pointers agree,
\* and empty rooms are gone, for any number of connections and rooms.
THEOREM MembershipAlwaysAgrees == Spec => []MembershipAgrees
<1>1. RoomInv => MembershipAgrees
  BY DEF RoomInv
<1> QED
  BY <1>1, RoomInvInit, RoomInvStep, PTL DEF Spec

----------------------------------------------------------------------------
\* Connection slots.

\* The handlers that hold a slot, in all and of one address.
Holders == {p \in Conns : pc[p] \in Holding}
HoldersOf(a) == {p \in Conns : AddrOf[p] = a /\ pc[p] \in Holding}

\* A handler whose WebSocket is open.
Session == Holding \ {"accepting"}

\* Only a session has a writer.
WritersInSession ==
  \A p \in Conns : writer[p] = "running" => pc[p] \in Session

SlotInv == RoomInv /\ WritersInSession /\ SlotsAccounted

\* A step inside a session, or of a writer: nobody begins or ends a session,
\* takes or gives back a slot.
Keeps ==
  /\ UNCHANGED <<connections, totalConnections>>
  /\ \A q \in Conns : /\ pc'[q] \in Session <=> pc[q] \in Session
                      /\ pc[q] \notin Session => pc'[q] = pc[q]
                      /\ writer'[q] = "running" => writer[q] = "running"

\* The states of a session.
LEMMA SessionStates ==
  /\ Session = {"reading", "joined", "announcing", "relaying", "leaving",
                "replying", "waiting", "unwinding", "draining"}
  /\ Holding = Session \cup {"accepting"}
  /\ \A f \in FanOuts : f \in Session /\ After[f] \in Session
BY DEF Session, Holding, FanOuts, After

\* A handler that moves within its session keeps the slots.
LEMMA MoveKeeps ==
  ASSUME TypeOK, NEW p \in Conns, NEW s \in Session, pc[p] \in Session,
         pc' = [pc EXCEPT ![p] = s] \/ pc' = pc,
         UNCHANGED <<connections, totalConnections, writer>>
  PROVE  Keeps
BY DEF Keeps, TypeOK

\* So does one that starts a fan-out.
LEMMA FanOutKeeps ==
  ASSUME TypeOK, NEW p \in Conns, NEW f \in FanOuts, NEW ps, pc[p] \in Session,
         StartFanOut(p, f, ps), UNCHANGED <<connections, totalConnections, writer>>
  PROVE  Keeps
<1>1. PICK s \in Session : pc' = [pc EXCEPT ![p] = s]
  BY SessionStates DEF StartFanOut
<1> QED
  BY <1>1, MoveKeeps

\* And one that returns.
LEMMA ReturnKeeps ==
  ASSUME TypeOK, NEW p \in Conns, pc[p] \in Session, Return(p),
         UNCHANGED <<connections, totalConnections, writer>>
  PROVE  Keeps
<1>1. "unwinding" \in FanOuts /\ "draining" \in Session
  BY SessionStates DEF FanOuts
<1>2. CASE room[p] # NoRoom
  <2>1. \E ps : StartFanOut(p, "unwinding", ps)
    BY <1>2 DEF Return, LeaveRoom
  <2> QED
    BY <1>1, <2>1, FanOutKeeps
<1>3. CASE room[p] = NoRoom
  BY <1>1, <1>3, MoveKeeps DEF Return
<1> QED
  BY <1>2, <1>3

\* The actions that keep the slots: all but those that open and close a
\* connection.
LEMMA SessionKeeps ==
  ASSUME TypeOK, NEW p \in Conns,
         \/ JoinNew(p) \/ JoinExisting(p) \/ RefuseRequest(p)
         \/ (\E target \in Conns : RouteLookup(p, target))
         \/ RequestLeave(p) \/ ReceiveBad(p) \/ ReadError(p)
         \/ ReplyError(p) \/ SnapshotRoom(p) \/ Deliver(p) \/ FatalDone(p)
         \/ Writer(p) \/ PingFail(p) \/ RequestCancelled(p)
  PROVE  Keeps
<1> USE SessionStates DEF serverVars
<1>1. CASE JoinNew(p) \/ JoinExisting(p)
  <2>1. PICK r : AdmitTo(p, r) /\ pc[p] = "reading"
    BY <1>1 DEF JoinNew, JoinExisting, Receive
  <2> QED
    BY <2>1, MoveKeeps DEF AdmitTo
<1>2. CASE RefuseRequest(p)
  BY <1>2, MoveKeeps DEF RefuseRequest, Receive
<1>3. ASSUME NEW target \in Conns, RouteLookup(p, target)
      PROVE  Keeps
  <2>1. pc[p] = "reading" /\ UNCHANGED <<connections, totalConnections, writer>>
    BY <1>3 DEF RouteLookup, Receive
  <2>2. StartFanOut(p, "relaying", {target}) \/ pc' = [pc EXCEPT ![p] = "replying"]
    BY <1>3 DEF RouteLookup
  <2>3. "relaying" \in FanOuts
    BY DEF FanOuts
  <2> QED
    BY <2>1, <2>2, <2>3, FanOutKeeps, MoveKeeps
<1>4. CASE RequestLeave(p)
  <2>1. pc[p] = "reading" /\ UNCHANGED <<connections, totalConnections, writer>>
    BY <1>4 DEF RequestLeave, Receive
  <2>2. (\E ps : StartFanOut(p, "leaving", ps)) \/ pc' = pc
    BY <1>4 DEF RequestLeave, LeaveRoom
  <2>3. "leaving" \in FanOuts
    BY DEF FanOuts
  <2> QED
    BY <2>1, <2>2, <2>3, FanOutKeeps, MoveKeeps
<1>5. CASE ReceiveBad(p)
  <2>1. pc[p] = "reading" /\ UNCHANGED <<connections, totalConnections, writer>>
    BY <1>5 DEF ReceiveBad, Receive
  <2>2. Return(p) \/ pc' = [pc EXCEPT ![p] = "waiting"]
    BY <1>5 DEF ReceiveBad
  <2> QED
    BY <2>1, <2>2, ReturnKeeps, MoveKeeps
<1>6. CASE ReadError(p) \/ FatalDone(p)
  <2>1. pc[p] \in Session /\ UNCHANGED <<connections, totalConnections, writer>>
        /\ Return(p)
    BY <1>6 DEF ReadError, FatalDone
  <2> QED
    BY <2>1, ReturnKeeps
<1>7. CASE ReplyError(p)
  BY <1>7, MoveKeeps DEF ReplyError
<1>8. CASE SnapshotRoom(p)
  <2>1. "announcing" \in FanOuts
    BY DEF FanOuts
  <2> QED
    BY <1>8, <2>1, FanOutKeeps DEF SnapshotRoom
<1>9. CASE Deliver(p)
  <2>1. pc[p] \in FanOuts /\ UNCHANGED <<connections, totalConnections, writer>>
    BY <1>9 DEF Deliver
  <2>2. \A q \in Conns : FanOutEnd(p, q) \in Session
    BY <2>1 DEF FanOutEnd
  <2>3. todo[p] \subseteq Conns
    BY DEF TypeOK
  <2>4. pc' = pc \/ \E s \in Session : pc' = [pc EXCEPT ![p] = s]
    BY <1>9, <2>2, <2>3 DEF Deliver
  <2> QED
    BY <2>1, <2>4, MoveKeeps
<1>10. CASE Writer(p) \/ PingFail(p) \/ RequestCancelled(p)
  BY <1>10 DEF Writer, Write, WriteFail, WriterDone, WriterStopped, PingFail,
               RequestCancelled, Keeps, TypeOK
<1> QED
  BY <1>1, <1>2, <1>3, <1>4, <1>5, <1>6, <1>7, <1>8, <1>9, <1>10

\* A handler takes a slot or is refused one, opens its session, or ends.
Opens(p) == Acquire(p) \/ Reject(p) \/ Accept(p)
Closes(p) == AcceptFail(p) \/ Release(p)

\* Every other step keeps the slots.
LEMMA StepKinds ==
  ASSUME TypeOK, [Next]_vars
  PROVE  Keeps \/ \E p \in Conns : Opens(p) \/ Closes(p)
<1>1. CASE CloseServer \/ UNCHANGED vars
  BY <1>1 DEF CloseServer, vars, Keeps, TypeOK
<1>2. ASSUME NEW p \in Conns,
             Handler(p) \/ Client(p) \/ Writer(p) \/ PingFail(p)
               \/ RequestCancelled(p)
      PROVE  Keeps \/ Opens(p) \/ Closes(p)
  BY <1>2, SessionKeeps DEF Handler, Client, Opens, Closes
<1> QED
  BY <1>1, <1>2 DEF Next, Finished

\* The numbers of holders are numbers.
LEMMA HoldersFinite ==
  /\ IsFiniteSet(Holders) /\ Cardinality(Holders) \in Nat
  /\ \A a : IsFiniteSet(HoldersOf(a)) /\ Cardinality(HoldersOf(a)) \in Nat
BY ConnsAssumption, FS_Subset, FS_CardinalityType DEF Holders, HoldersOf

\* A handler that takes a slot is counted, in all and at its address only.
LEMMA HoldersGrow ==
  ASSUME TypeOK, NEW p \in Conns, pc[p] \notin Holding,
         NEW s \in Holding, pc' = [pc EXCEPT ![p] = s]
  PROVE  /\ Cardinality(Holders') = Cardinality(Holders) + 1
         /\ \A a : Cardinality(HoldersOf(a)') =
                     Cardinality(HoldersOf(a)) + IF a = AddrOf[p] THEN 1 ELSE 0
<1>1. Holders' = Holders \cup {p} /\ p \notin Holders
  BY DEF Holders, TypeOK
<1>2. \A a : /\ p \notin HoldersOf(a)
             /\ HoldersOf(a)' = IF a = AddrOf[p] THEN HoldersOf(a) \cup {p}
                                ELSE HoldersOf(a)
  BY DEF HoldersOf, TypeOK
<1>3. Cardinality(Holders') = Cardinality(Holders) + 1
  BY <1>1, HoldersFinite, FS_AddElement
<1>4. ASSUME NEW a
      PROVE  Cardinality(HoldersOf(a)') =
               Cardinality(HoldersOf(a)) + IF a = AddrOf[p] THEN 1 ELSE 0
  <2>1. Cardinality(HoldersOf(a)) \in Nat
    BY HoldersFinite
  <2>2. CASE a = AddrOf[p]
    BY <1>2, <2>2, HoldersFinite, FS_AddElement
  <2>3. CASE a # AddrOf[p]
    BY <1>2, <2>1, <2>3
  <2> QED
    BY <2>2, <2>3
<1> QED
  BY <1>3, <1>4

\* One that gives it back is counted no more.
LEMMA HoldersShrink ==
  ASSUME TypeOK, NEW p \in Conns, pc[p] \in Holding,
         NEW s, s \notin Holding, pc' = [pc EXCEPT ![p] = s]
  PROVE  /\ Cardinality(Holders) \in Nat \ {0}
         /\ Cardinality(HoldersOf(AddrOf[p])) \in Nat \ {0}
         /\ Cardinality(Holders') = Cardinality(Holders) - 1
         /\ \A a : Cardinality(HoldersOf(a)') =
                     Cardinality(HoldersOf(a)) - IF a = AddrOf[p] THEN 1 ELSE 0
<1>1. Holders' = Holders \ {p} /\ p \in Holders
  BY DEF Holders, TypeOK
<1>2. /\ p \in HoldersOf(AddrOf[p])
      /\ \A a : HoldersOf(a)' = IF a = AddrOf[p] THEN HoldersOf(a) \ {p}
                                ELSE HoldersOf(a)
  BY DEF HoldersOf, TypeOK
<1>3. Cardinality(Holders') = Cardinality(Holders) - 1
      /\ Cardinality(Holders) \in Nat \ {0}
  BY <1>1, HoldersFinite, FS_RemoveElement, FS_EmptySet
<1>4. Cardinality(HoldersOf(AddrOf[p])) \in Nat \ {0}
  BY <1>2, HoldersFinite, FS_EmptySet
<1>5. ASSUME NEW a
      PROVE  Cardinality(HoldersOf(a)') =
               Cardinality(HoldersOf(a)) - IF a = AddrOf[p] THEN 1 ELSE 0
  <2>1. Cardinality(HoldersOf(a)) \in Nat
    BY HoldersFinite
  <2>2. CASE a = AddrOf[p]
    BY <1>2, <2>2, HoldersFinite, FS_RemoveElement
  <2>3. CASE a # AddrOf[p]
    BY <1>2, <2>1, <2>3
  <2> QED
    BY <2>2, <2>3
<1> QED
  BY <1>3, <1>4, <1>5

\* The counters equal the numbers of holders and stay within the limits.
Counted ==
  /\ \A a \in Addrs : connections[a] = Cardinality(HoldersOf(a))
  /\ totalConnections = Cardinality(Holders)
  /\ totalConnections <= MaxConnections
  /\ \A a \in Addrs : connections[a] <= MaxConnectionsPerIP

\* A closed connection is in no room and its writer has returned.
LEMMA CountedAccounts == RoomInv /\ WritersInSession /\ Counted <=> SlotInv
<1>1. ASSUME RoomInv, WritersInSession, NEW p \in Conns, pc[p] = "closed"
      PROVE  (\A r \in RoomIDs : p \notin members[r]) /\ writer[p] # "running"
  BY <1>1, SessionStates DEF RoomInv, MembershipAgrees, InRoom, Attached,
                             WritersInSession
<1> QED
  BY <1>1 DEF SlotInv, SlotsAccounted, Counted, HoldersOf, Holders

\* What the counters need of a step.
LEMMA CountedStep ==
  ASSUME TypeOK, Counted, WritersInSession, [Next]_vars
  PROVE  Counted' /\ WritersInSession'
<1> USE DEF Counted
<1>1. CASE Keeps
  <2>1. \A q \in Conns : pc'[q] \in Holding <=> pc[q] \in Holding
    BY <1>1, SessionStates DEF Keeps
  <2>2. Holders' = Holders /\ \A a : HoldersOf(a)' = HoldersOf(a)
    BY <2>1 DEF Holders, HoldersOf
  <2>3. WritersInSession'
    BY <1>1 DEF Keeps, WritersInSession
  <2> QED
    BY <1>1, <2>2, <2>3 DEF Keeps
<1>2. ASSUME NEW p \in Conns, Acquire(p)
      PROVE  Counted' /\ WritersInSession'
  <2>1. /\ pc[p] \notin Holding /\ "accepting" \in Holding
        /\ pc' = [pc EXCEPT ![p] = "accepting"]
    BY <1>2 DEF Acquire, Holding
  <2>2. /\ Cardinality(Holders') = Cardinality(Holders) + 1
        /\ \A a : Cardinality(HoldersOf(a)') =
                    Cardinality(HoldersOf(a)) + IF a = AddrOf[p] THEN 1 ELSE 0
    BY <2>1, HoldersGrow
  <2>3. /\ totalConnections' = totalConnections + 1
        /\ \A a \in Addrs : connections'[a] =
             connections[a] + IF a = AddrOf[p] THEN 1 ELSE 0
    BY <1>2 DEF Acquire, TypeOK
  <2>4. totalConnections' <= MaxConnections
        /\ \A a \in Addrs : connections'[a] <= MaxConnectionsPerIP
    BY <1>2, <2>3, LimitsAssumption, AddrAssumption DEF Acquire, CanAcquire, TypeOK
  <2>5. WritersInSession'
    BY <1>2, SessionStates DEF Acquire, WritersInSession, TypeOK
  <2> QED
    BY <2>2, <2>3, <2>4, <2>5
<1>3. ASSUME NEW p \in Conns, Reject(p) \/ Accept(p)
      PROVE  Counted' /\ WritersInSession'
  <2>1. \A q \in Conns : pc'[q] \in Holding <=> pc[q] \in Holding
    BY <1>3 DEF Reject, Accept, Holding, TypeOK
  <2>2. Holders' = Holders /\ \A a : HoldersOf(a)' = HoldersOf(a)
    BY <2>1 DEF Holders, HoldersOf
  <2>3. WritersInSession'
    <3>1. CASE Reject(p)
      BY <3>1, SessionStates DEF Reject, WritersInSession, TypeOK
    <3>2. CASE Accept(p)
      <4>1. \A q \in Conns : q # p => pc'[q] = pc[q] /\ writer'[q] = writer[q]
        BY <3>2 DEF Accept, TypeOK
      <4>2. pc'[p] = "reading"
        BY <3>2 DEF Accept, TypeOK
      <4> QED
        BY <4>1, <4>2, SessionStates DEF WritersInSession
    <3> QED
      BY <1>3, <3>1, <3>2
  <2> QED
    BY <1>3, <2>2, <2>3 DEF Reject, Accept, serverVars
<1>4. ASSUME NEW p \in Conns, AcceptFail(p) \/ Release(p)
      PROVE  Counted' /\ WritersInSession'
  <2>1. /\ pc[p] \in Holding /\ "closed" \notin Holding
        /\ pc' = [pc EXCEPT ![p] = "closed"] /\ ReleaseConnection(p)
        /\ writer' = writer /\ writer[p] # "running"
    BY <1>4, SessionStates DEF AcceptFail, Release, Holding, WritersInSession
  <2>2. /\ Cardinality(Holders) \in Nat \ {0}
        /\ Cardinality(HoldersOf(AddrOf[p])) \in Nat \ {0}
        /\ Cardinality(Holders') = Cardinality(Holders) - 1
        /\ \A a : Cardinality(HoldersOf(a)') =
                    Cardinality(HoldersOf(a)) - IF a = AddrOf[p] THEN 1 ELSE 0
    BY <2>1, HoldersShrink
  <2>3. totalConnections' = totalConnections - 1
    BY <2>1, <2>2 DEF ReleaseConnection
  <2>4. \A a \in Addrs : connections'[a] =
             connections[a] - IF a = AddrOf[p] THEN 1 ELSE 0
    BY <2>1, <2>2, AddrAssumption DEF ReleaseConnection, TypeOK
  <2>5. /\ totalConnections' <= MaxConnections
        /\ \A a \in Addrs : connections'[a] <= MaxConnectionsPerIP
    <3>1. totalConnections \in Nat /\ totalConnections <= MaxConnections
          /\ \A a \in Addrs : connections[a] \in Nat
                              /\ connections[a] <= MaxConnectionsPerIP
      BY DEF TypeOK
    <3> QED
      BY <2>3, <2>4, <3>1, LimitsAssumption
  <2>6. WritersInSession'
    BY <2>1, SessionStates DEF WritersInSession, TypeOK
  <2> QED
    BY <2>2, <2>3, <2>4, <2>5, <2>6
<1> QED
  BY <1>1, <1>2, <1>3, <1>4, StepKinds DEF Opens, Closes

\* SlotInv holds in every state.
LEMMA SlotInvariant == Spec => []SlotInv
<1>1. Init => SlotInv
  <2> SUFFICES ASSUME Init PROVE SlotInv
    OBVIOUS
  <2>1. Holders = {} /\ \A a : HoldersOf(a) = {}
    BY DEF Init, Holders, HoldersOf, Holding
  <2>2. /\ totalConnections = Cardinality(Holders)
        /\ \A a \in Addrs : connections[a] = Cardinality(HoldersOf(a))
        /\ totalConnections = 0 /\ \A a \in Addrs : connections[a] = 0
    BY <2>1, FS_EmptySet DEF Init
  <2>4. Counted
    BY <2>2, LimitsAssumption DEF Counted
  <2>3. WritersInSession
    BY DEF Init, WritersInSession
  <2> QED
    BY <2>3, <2>4, RoomInvInit, CountedAccounts
<1>2. SlotInv /\ [Next]_vars => SlotInv'
  <2> SUFFICES ASSUME SlotInv, [Next]_vars PROVE SlotInv'
    OBVIOUS
  <2>1. RoomInv' /\ Counted' /\ WritersInSession'
    BY RoomInvStep, CountedStep, CountedAccounts DEF RoomInv
  <2> QED
    BY <2>1, CountedAccounts, PTL
<1> QED
  BY <1>1, <1>2, PTL DEF Spec

\* Whatever the limits, the addresses and the failures, the counters of
\* acquireConnection and releaseConnection are exact, within the limits, and
\* a slot is given back only when its peer and its writer are gone.
THEOREM SlotsAlwaysAccounted == Spec => []SlotsAccounted
<1>1. SlotInv => SlotsAccounted
  BY DEF SlotInv
<1> QED
  BY <1>1, SlotInvariant, PTL

----------------------------------------------------------------------------
\* The rooms of the directory.

\* The room the directory has p in.
RoomOf(p) == IF InRoom(p) THEN room[p] ELSE NoRoom

\* A peer is in a room of the directory exactly while the manager lists it.
RoomsMatch ==
  \A p \in Conns : /\ RoomOf(p) \in RoomIDs \cup {NoRoom}
                   /\ \A r \in RoomIDs : RoomOf(p) = r <=> p \in members[r]

\* RoomInv makes the two agree.
LEMMA RoomInvMatch == RoomInv => RoomsMatch
<1> SUFFICES ASSUME RoomInv, NEW p \in Conns
             PROVE  /\ RoomOf(p) \in RoomIDs \cup {NoRoom}
                    /\ \A r \in RoomIDs : RoomOf(p) = r <=> p \in members[r]
  BY DEF RoomsMatch
<1>1. room[p] \in RoomIDs \cup {NoRoom} /\ NoRoom \notin RoomIDs
  BY RoomsAssumption DEF RoomInv, TypeOK
<1>2. \A r \in RoomIDs : p \in members[r] <=> (room[p] = r /\ InRoom(p))
  BY DEF RoomInv, MembershipAgrees
<1> QED
  BY <1>1, <1>2 DEF RoomOf

\* The occupants and the live rooms of the directory are the manager's.
LEMMA DirectoryRooms ==
  ASSUME RoomInv
  PROVE  /\ \A r \in RoomIDs : Directory!Occupants(r) = members[r]
         /\ Directory!LiveRooms = rooms
<1>1. ASSUME NEW r \in RoomIDs
      PROVE  Directory!Occupants(r) = members[r]
  <2>1. members[r] \subseteq Conns
    BY DEF RoomInv, TypeOK
  <2>2. \A p \in Conns : RoomOf(p) = r <=> p \in members[r]
    BY RoomInvMatch DEF RoomsMatch
  <2> QED
    BY <2>1, <2>2 DEF Directory!Occupants, RoomOf
<1>2. rooms \subseteq RoomIDs /\ \A r \in RoomIDs : r \in rooms <=> members[r] # {}
  BY DEF RoomInv, TypeOK, MembershipAgrees
<1> QED
  BY <1>1, <1>2 DEF Directory!LiveRooms

\* The directory counts as the server does.
LEMMA DirectoryCardinality == \A S : Directory!Cardinality(S) = Cardinality(S)
BY DEF Cardinality, Directory!Cardinality

\* The map of the directory after a step, from the rooms after it.
LEMMA DirectoryMap ==
  ASSUME RoomsMatch, RoomsMatch', NEW p \in Conns,
         NEW to \in RoomIDs \cup {NoRoom},
         \A q \in Conns, r \in RoomIDs :
           q \in members'[r] <=> IF q = p THEN r = to ELSE q \in members[r]
  PROVE  \A q \in Conns : RoomOf(q)' = IF q = p THEN to ELSE RoomOf(q)
<1> SUFFICES ASSUME NEW q \in Conns
             PROVE  RoomOf(q)' = IF q = p THEN to ELSE RoomOf(q)
  OBVIOUS
<1>1. /\ RoomOf(q) \in RoomIDs \cup {NoRoom}
      /\ \A r \in RoomIDs : RoomOf(q) = r <=> q \in members[r]
      /\ RoomOf(q)' \in RoomIDs \cup {NoRoom}
      /\ \A r \in RoomIDs : RoomOf(q)' = r <=> q \in members'[r]
  BY DEF RoomsMatch
<1> HIDE DEF RoomOf
<1>2. CASE q = p
  BY <1>1, <1>2
<1>3. CASE q # p
  BY <1>1, <1>3
<1> QED
  BY <1>2, <1>3

\* Every step of the server is a step of the directory, or none.
LEMMA DirectoryStep ==
  ASSUME RoomInv, [Next]_vars
  PROVE  [Directory!DirNext]_(Directory!dirVars)
<1> DEFINE map == [p \in Conns |-> RoomOf(p)]
<1>0. RoomsMatch /\ RoomsMatch'
  BY RoomInvMatch, RoomInvStep, PTL
<1>1. Effect
  BY StepEffect
<1>m. map = [p \in Conns |-> IF InRoom(p) THEN room[p] ELSE NoRoom]
      /\ map' = [p \in Conns |-> IF InRoom(p)' THEN room'[p] ELSE NoRoom]
  BY DEF RoomOf
<1>2. CASE members' = members
  <2>1. \A q \in Conns : RoomOf(q)' = RoomOf(q)
    <3> SUFFICES ASSUME NEW q \in Conns PROVE RoomOf(q)' = RoomOf(q)
      OBVIOUS
    <3>1. /\ RoomOf(q) \in RoomIDs \cup {NoRoom}
          /\ \A r \in RoomIDs : RoomOf(q) = r <=> q \in members[r]
          /\ RoomOf(q)' \in RoomIDs \cup {NoRoom}
          /\ \A r \in RoomIDs : RoomOf(q)' = r <=> q \in members'[r]
      BY <1>0 DEF RoomsMatch
    <3> QED
      BY <1>2, <3>1
  <2>2. map' = map
    BY <2>1
  <2> QED
    BY <2>2, <1>m DEF Directory!dirVars
<1>3. ASSUME NEW p \in Conns, NEW r \in RoomIDs, Admitted(p, r)
      PROVE  Directory!DirNext
  <2>1. \A q \in Conns, t \in RoomIDs :
          q \in members'[t] <=> IF q = p THEN t = r ELSE q \in members[t]
    BY <1>3 DEF Admitted, RoomInv, TypeOK, MembershipAgrees, InRoom
  <2>2. \A q \in Conns : RoomOf(q)' = IF q = p THEN r ELSE RoomOf(q)
    BY <1>0, <2>1, DirectoryMap
  <2>3. map' = [map EXCEPT ![p] = r]
    BY <2>2
  <2>4. map[p] = NoRoom
    BY <1>3 DEF Admitted, RoomOf
  <2>5. \/ Directory!Occupants(r) = {} /\ Cardinality(Directory!LiveRooms) < MaxRooms
        \/ /\ Directory!Occupants(r) # {}
           /\ Cardinality(Directory!Occupants(r)) < MaxRoomSize
    BY <1>3, DirectoryRooms DEF Admitted, HasPlace, RoomInv, MembershipAgrees
  <2>6. CASE /\ Directory!Occupants(r) = {}
             /\ Cardinality(Directory!LiveRooms) < MaxRooms
    <3>1. Directory!Create(p, r)
      BY <1>m, <2>3, <2>4, <2>6, DirectoryCardinality DEF Directory!Create
    <3> QED
      BY <3>1 DEF Directory!DirNext
  <2>7. CASE /\ Directory!Occupants(r) # {}
             /\ Cardinality(Directory!Occupants(r)) < MaxRoomSize
    <3>1. Directory!Enter(p, r)
      BY <1>m, <2>3, <2>4, <2>7, DirectoryCardinality DEF Directory!Enter
    <3> QED
      BY <3>1 DEF Directory!DirNext
  <2> QED
    BY <2>5, <2>6, <2>7
<1>4. ASSUME NEW p \in Conns, NEW f \in {"leaving", "unwinding"}, Departs(p, f)
      PROVE  Directory!DirNext
  <2>1. room[p] \in RoomIDs /\ InRoom(p) /\ NoRoom \notin RoomIDs
    BY <1>4, RoomsAssumption DEF Departs, InRoom, RoomInv, TypeOK
  <2>2. \A q \in Conns, t \in RoomIDs :
          q \in members'[t] <=> IF q = p THEN t = NoRoom ELSE q \in members[t]
    BY <1>4, <2>1 DEF Departs, Quit, RoomInv, TypeOK, MembershipAgrees
  <2>3. \A q \in Conns : RoomOf(q)' = IF q = p THEN NoRoom ELSE RoomOf(q)
    BY <1>0, <2>2, DirectoryMap
  <2>4. map' = [map EXCEPT ![p] = NoRoom] /\ map[p] # NoRoom
    BY <2>1, <2>3 DEF RoomOf
  <2>5. Directory!Depart(p)
    BY <1>m, <2>4 DEF Directory!Depart
  <2> QED
    BY <2>5 DEF Directory!DirNext
<1> QED
  BY <1>1, <1>2, <1>3, <1>4
  DEF Effect, Still, Calm, Announce, Relay, Tells, Move

\* The server implements the room directory for every number of connections
\* and rooms and all limits: joins create or enter rooms within MaxRooms and
\* MaxRoomSize, one room per connection, and nothing else changes who is in
\* a room but a departure.
THEOREM DirectoryImplemented == Spec => ImplementsDirectory
<1>1. Init => Directory!DirInit
  BY DEF Init, Directory!DirInit, InRoom
<1>2. RoomInv /\ [Next]_vars => [Directory!DirNext]_(Directory!dirVars)
  BY DirectoryStep
<1> QED
  BY <1>1, <1>2, RoomInvInit, RoomInvStep, PTL
  DEF Spec, ImplementsDirectory, Directory!DirSpec

----------------------------------------------------------------------------
\* Who is in a room after a step.

\* A step that admits nobody puts nobody in a room.
LEMMA StaysInRoom ==
  ASSUME RoomInv,
         \/ Still
         \/ \E y \in Conns, s \in PCs : Calm(y, s)
         \/ \E y \in Conns : Announce(y)
         \/ \E y, target \in Conns : Relay(y, target)
         \/ \E y \in Conns, f \in {"leaving", "unwinding"} : Departs(y, f)
         \/ \E y, q \in Conns : Tells(y, q),
         NEW p \in Conns, InRoom(p)'
  PROVE  InRoom(p) /\ room'[p] = room[p]
<1> USE DEF RoomInv, TypeOK
<1>1. CASE Still
  BY <1>1 DEF Still, InRoom
<1>2. ASSUME NEW y \in Conns, NEW s \in PCs, Calm(y, s)
      PROVE  InRoom(p) /\ room'[p] = room[p]
  BY <1>2 DEF Calm, Move, InRoom, Attached
<1>3. ASSUME NEW y \in Conns, Announce(y)
      PROVE  InRoom(p) /\ room'[p] = room[p]
  BY <1>3 DEF Announce, Move, InRoom, Attached
<1>4. ASSUME NEW y \in Conns, NEW target \in Conns, Relay(y, target)
      PROVE  InRoom(p) /\ room'[p] = room[p]
  BY <1>4 DEF Relay, Move, InRoom, Attached
<1>5. ASSUME NEW y \in Conns, NEW f \in {"leaving", "unwinding"}, Departs(y, f)
      PROVE  InRoom(p) /\ room'[p] = room[p]
  BY <1>5 DEF Departs, Quit, InRoom, Attached
<1>6. ASSUME NEW y \in Conns, NEW q \in Conns, Tells(y, q)
      PROVE  InRoom(p) /\ room'[p] = room[p]
  <2>1. CASE todo[y] # {q}
    BY <1>6, <2>1 DEF Tells, InRoom
  <2>2. CASE todo[y] = {q} /\ p # y
    BY <1>6, <2>2 DEF Tells, InRoom
  <2>3. CASE todo[y] = {q} /\ p = y
    <3>1. /\ pc' = [pc EXCEPT ![p] = FanOutEnd(p, q)] /\ pc[p] \in FanOuts
          /\ room' = [room EXCEPT ![p] = IF pc[p] = "leaving" THEN NoRoom ELSE @]
      BY <1>6, <2>3 DEF Tells
    <3>2. room'[p] # NoRoom /\ FanOutEnd(p, q) \in Attached
      BY <3>1 DEF InRoom
    <3>3. pc[p] \notin {"leaving", "unwinding"}
      BY <3>1, <3>2, FanOutEndFacts DEF Attached
    <3> QED
      BY <3>1, <3>2, <3>3 DEF InRoom, FanOuts, Attached
  <2> QED
    BY <2>1, <2>2, <2>3
<1> QED
  BY <1>1, <1>2, <1>3, <1>4, <1>5, <1>6

\* Who departs is in no room.
LEMMA DepartsOut ==
  ASSUME RoomInv, NEW y \in Conns, NEW f \in {"leaving", "unwinding"},
         Departs(y, f)
  PROVE  ~InRoom(y)'
BY DEF Departs, Quit, InRoom, Attached, After, RoomInv, TypeOK

\* What a fan-out tells the peer it reaches.
LEMMA TellsTold ==
  ASSUME RoomInv, NEW y \in Conns, NEW q \in Conns, Tells(y, q)
  PROVE  /\ \A p \in Conns : p # q => told'[p] = told[p]
         /\ \/ cancelled'[q] /\ told'[q] = told[q]
            \/ pc[y] = "announcing" /\ told'[q] = told[q] \cup {y}
            \/ pc[y] = "relaying" /\ told'[q] = told[q]
            \/ pc[y] \in {"leaving", "unwinding"} /\ told'[q] = told[q] \ {y}
<1>1. \A p \in Conns : p # q => told'[p] = told[p]
  BY DEF Tells, RoomInv, TypeOK
<1>2. CASE cancelled'[q] /\ told' = told
  BY <1>1, <1>2
<1>3. CASE told' = [told EXCEPT ![q] = Learn(@, FanOutMessage(y))]
  <2>1. told'[q] = Learn(told[q], FanOutMessage(y)) /\ pc[y] \in FanOuts
    BY <1>3 DEF Tells, RoomInv, TypeOK
  <2>2. CASE pc[y] = "announcing"
    <3>1. FanOutMessage(y) = Joined(y)
      BY <2>2 DEF FanOutMessage
    <3>2. Learn(told[q], Joined(y)) = told[q] \cup {y}
      BY LearnFacts
    <3>3. told'[q] = told[q] \cup {y}
      BY <2>1, <3>1, <3>2
    <3> QED
      BY <1>1, <2>2, <3>3
  <2>3. CASE pc[y] = "relaying"
    <3>1. FanOutMessage(y) = Signal(y)
      BY <2>3 DEF FanOutMessage
    <3>2. Learn(told[q], Signal(y)) = told[q]
      BY LearnFacts
    <3>3. told'[q] = told[q]
      BY <2>1, <3>1, <3>2
    <3> QED
      BY <1>1, <2>3, <3>3
  <2>4. CASE pc[y] \in {"leaving", "unwinding"}
    <3>1. FanOutMessage(y) = Left(y)
      BY <2>4 DEF FanOutMessage
    <3>2. Learn(told[q], Left(y)) = told[q] \ {y}
      BY LearnFacts
    <3>3. told'[q] = told[q] \ {y}
      BY <2>1, <3>1, <3>2
    <3> QED
      BY <1>1, <2>4, <3>3
  <2> QED
    BY <2>1, <2>2, <2>3, <2>4 DEF FanOuts
<1> QED
  BY <1>2, <1>3 DEF Tells

----------------------------------------------------------------------------
\* Nobody is missed.

\* p has been told of x, or the handler of x is about to tell it.
Aware(p, x) ==
  \/ x \in told[p]
  \/ pc[x] = "joined"
  \/ pc[x] = "announcing" /\ p \in todo[x]

\* p and x are together in a room, and p listens.
Together(p, x) ==
  InRoom(p) /\ ~cancelled[p] /\ x # p /\ InRoom(x) /\ room[x] = room[p]

\* Two who were together stay aware of each other over every step.
LEMMA KeepsAware ==
  ASSUME RoomInv, Effect, NEW p \in Conns, NEW x \in Conns,
         Together(p, x) => Aware(p, x), Together(p, x)'
  PROVE  Aware(p, x)'
<1> USE DEF RoomInv, TypeOK
<1> DEFINE Same == Together(p, x) /\ Aware(p, x)
<1>1. ASSUME InRoom(p), InRoom(x), room'[p] = room[p], room'[x] = room[x], Grows
      PROVE  Same
  BY <1>1 DEF Together, Grows
<1>2. CASE Still
  <2>1. Same
    BY <1>1, <1>2, StaysInRoom DEF Together, Still
  <2> QED
    BY <1>2, <2>1 DEF Still, Aware
<1>3. ASSUME NEW y \in Conns, NEW s \in PCs, Calm(y, s)
      PROVE  Aware(p, x)'
  <2>1. Same
    BY <1>1, <1>3, StaysInRoom DEF Together, Calm
  <2> QED
    BY <1>3, <2>1 DEF Calm, Move, Aware, FanOuts
<1>4. ASSUME NEW y \in Conns, Announce(y)
      PROVE  Aware(p, x)'
  <2>1. Same
    BY <1>1, <1>4, StaysInRoom DEF Together, Announce
  <2>2. CASE x = y
    <3>1. p \in members[room[x]]
      BY <2>1 DEF Together, MembershipAgrees, InRoom
    <3>2. p \in members[room[x]] \ {x}
      BY <2>1, <3>1 DEF Together
    <3> QED
      BY <1>4, <2>2, <3>2 DEF Announce, Move, Aware
  <2>3. CASE x # y
    BY <1>4, <2>1, <2>3 DEF Announce, Move, Aware
  <2> QED
    BY <2>2, <2>3
<1>5. ASSUME NEW y \in Conns, NEW target \in Conns, Relay(y, target)
      PROVE  Aware(p, x)'
  <2>1. Same
    BY <1>1, <1>5, StaysInRoom DEF Together, Relay
  <2> QED
    BY <1>5, <2>1 DEF Relay, Move, Aware
<1>6. ASSUME NEW y \in Conns, NEW r \in RoomIDs, Admitted(y, r)
      PROVE  Aware(p, x)'
  <2>1. /\ \A z \in Conns : z # y => /\ pc'[z] = pc[z] /\ room'[z] = room[z]
                                    /\ told'[z] = told[z]
        /\ pc'[y] = "joined" /\ room'[y] = r /\ told'[y] = members[r]
        /\ todo' = todo /\ Grows
    BY <1>6 DEF Admitted
  <2>2. CASE x = y
    BY <2>1, <2>2 DEF Aware
  <2>3. CASE p = y
    <3>1. x # y /\ InRoom(x) /\ room[x] = r
      BY <2>1, <2>3 DEF Together, InRoom
    <3>2. x \in members[r]
      BY <3>1 DEF MembershipAgrees
    <3> QED
      BY <2>1, <2>3, <3>2 DEF Aware
  <2>4. CASE x # y /\ p # y
    <3>1. InRoom(p) /\ InRoom(x)
      BY <2>1, <2>4 DEF Together, InRoom
    <3>2. Same
      BY <1>1, <2>1, <2>4, <3>1
    <3> QED
      BY <2>1, <2>4, <3>2 DEF Aware
  <2> QED
    BY <2>2, <2>3, <2>4
<1>7. ASSUME NEW y \in Conns, NEW f \in {"leaving", "unwinding"}, Departs(y, f)
      PROVE  Aware(p, x)'
  <2>1. Same
    BY <1>1, <1>7, StaysInRoom DEF Together, Departs
  <2>2. x # y
    BY <1>7, DepartsOut DEF Together
  <2> QED
    BY <1>7, <2>1, <2>2 DEF Departs, Quit, Aware
<1>8. ASSUME NEW y \in Conns, NEW q \in Conns, Tells(y, q)
      PROVE  Aware(p, x)'
  <2>1. Same
    BY <1>1, <1>8, StaysInRoom DEF Together, Tells
  <2>2. ~cancelled'[p]
    BY DEF Together
  <2>3. CASE x = y
    <3>1. pc[x] \in {"announcing", "relaying"}
      BY <1>8, <2>1, <2>3 DEF Tells, Together, InRoom, Attached, FanOuts
    <3>2. CASE p = q /\ pc[x] = "announcing"
      <4>1. x \in told'[p]
        BY <1>8, <2>2, <2>3, <3>2, TellsTold
      <4> QED
        BY <4>1 DEF Aware
    <3>3. CASE p # q /\ pc[x] = "announcing"
      <4>1. told'[p] = told[p]
        BY <1>8, <3>3, TellsTold
      <4>2. CASE x \in told[p]
        BY <4>1, <4>2 DEF Aware
      <4>3. CASE p \in todo[x]
        BY <1>8, <2>3, <3>3, <4>3 DEF Tells, Aware
      <4> QED
        BY <2>1, <3>3, <4>2, <4>3 DEF Aware
    <3>4. CASE pc[x] = "relaying"
      <4>1. x \in told[p]
        BY <2>1, <3>4 DEF Aware
      <4>2. told'[p] = told[p]
        BY <1>8, <2>2, <2>3, <3>4, TellsTold
      <4> QED
        BY <4>1, <4>2 DEF Aware
    <3> QED
      BY <3>1, <3>2, <3>3, <3>4
  <2>4. CASE x # y
    <3>1. pc'[x] = pc[x] /\ todo'[x] = todo[x]
      BY <1>8, <2>4 DEF Tells
    <3>2. x \in told[p] => x \in told'[p]
      <4>1. CASE p # q
        BY <1>8, <4>1, TellsTold
      <4>2. CASE p = q
        <5>1. \/ told'[q] = told[q] \/ told'[q] = told[q] \cup {y}
              \/ told'[q] = told[q] \ {y}
          BY <1>8, TellsTold
        <5> QED
          BY <2>4, <4>2, <5>1
      <4> QED
        BY <4>1, <4>2
    <3> QED
      BY <2>1, <3>1, <3>2 DEF Aware
  <2> QED
    BY <2>3, <2>4
<1> QED
  BY <1>2, <1>3, <1>4, <1>5, <1>6, <1>7, <1>8 DEF Effect

\* A member never misses another one, whatever joins, leaves, failures and
\* full queues interleave, for any number of connections and rooms, and
\* also when clients join again after they have left.
THEOREM NobodyMissed == Spec => []NoMissingPeer
<1>1. NoMissingPeer <=> \A p, x \in Conns : Together(p, x) => Aware(p, x)
  BY DEF NoMissingPeer, Together, Aware
<1>2. Init => NoMissingPeer
  BY DEF Init, NoMissingPeer, InRoom
<1>3. RoomInv /\ NoMissingPeer /\ [Next]_vars => NoMissingPeer'
  <2> SUFFICES ASSUME RoomInv, NoMissingPeer, [Next]_vars,
                      NEW p \in Conns, NEW x \in Conns, Together(p, x)'
               PROVE  Aware(p, x)'
    BY DEF NoMissingPeer, Together, Aware
  <2> QED
    BY <1>1, StepEffect, KeepsAware
<1> QED
  BY <1>2, <1>3, RoomInvInit, RoomInvStep, PTL DEF Spec

----------------------------------------------------------------------------
\* Nobody who is gone is kept, as long as clients do not join twice.

\* Whoever a fan-out still has to reach has been in a room, and will not
\* enter another one.
ReachedOnce ==
  \A x, p \in Conns : p \in todo[x] => room[p] # NoRoom \/ sent[p] = MaxMessages

\* A client that has left sends nothing more.
LastWords == \A p \in Conns : pc[p] = "leaving" => sent[p] = MaxMessages

\* A peer is announced to members of its own room.
AnnouncedAtHome ==
  \A x, p \in Conns :
    pc[x] = "announcing" /\ p \in todo[x] /\ InRoom(p) => room[p] = room[x]

\* Nobody is announced to itself.
NotToItself ==
  \A p \in Conns : /\ pc[p] = "announcing" => p \notin todo[p]
                   /\ p \notin told[p]

OnceInv == ReachedOnce /\ LastWords /\ AnnouncedAtHome /\ NotToItself

\* Members of a room are in it.
LEMMA MembersInRoom ==
  ASSUME RoomInv, NEW r \in RoomIDs, NEW p \in members[r]
  PROVE  p \in Conns /\ InRoom(p) /\ room[p] = r /\ room[p] # NoRoom
<1>1. p \in Conns
  BY DEF RoomInv, TypeOK
<1> QED
  BY <1>1 DEF RoomInv, MembershipAgrees, InRoom

\* The count of messages read stays at its bound.
LEMMA SentStays ==
  ASSUME TypeOK, TypeOK', Grows, NEW p \in Conns, sent[p] = MaxMessages
  PROVE  sent'[p] = MaxMessages
<1>1. sent'[p] \in 0..MaxMessages /\ sent[p] <= sent'[p]
  BY DEF TypeOK, Grows
<1> QED
  BY <1>1, BoundsAssumption

\* A room is given up for good.
LEMMA RoomGivenUp ==
  ASSUME RoomInv, TypeOK', OnceInv, Effect, ~Rejoin, NEW p \in Conns,
         room[p] # NoRoom \/ sent[p] = MaxMessages
  PROVE  room'[p] # NoRoom \/ sent'[p] = MaxMessages
<1> USE DEF RoomInv, TypeOK
<1>0. Grows
  BY DEF Effect, Still, Calm, Announce, Relay, Admitted, Departs, Tells
<1>1. CASE sent[p] = MaxMessages
  BY <1>0, <1>1, SentStays
<1>2. CASE room[p] # NoRoom
  <2>1. CASE room' = room
    BY <1>2, <2>1
  <2>2. ASSUME NEW y \in Conns, NEW r \in RoomIDs, Admitted(y, r)
        PROVE  room'[p] # NoRoom
    BY <1>2, <2>2, RoomsAssumption DEF Admitted
  <2>3. ASSUME NEW y \in Conns, NEW f \in {"leaving", "unwinding"}, Departs(y, f)
        PROVE  room'[p] # NoRoom \/ sent'[p] = MaxMessages
    BY <1>2, <2>3 DEF Departs
  <2>4. ASSUME NEW y \in Conns, NEW q \in Conns, Tells(y, q)
        PROVE  room'[p] # NoRoom \/ sent'[p] = MaxMessages
    <3>1. CASE p = y /\ pc[p] = "leaving"
      BY <1>0, <3>1, SentStays DEF OnceInv, LastWords
    <3>2. CASE ~(p = y /\ pc[p] = "leaving")
      <4>1. room' = room \/ room' = [room EXCEPT ![y] = IF pc[y] = "leaving"
                                                       THEN NoRoom ELSE @]
        BY <2>4 DEF Tells
      <4>2. room'[p] = room[p]
        BY <3>2, <4>1
      <4> QED
        BY <1>2, <4>2
    <3> QED
      BY <3>1, <3>2
  <2> QED
    BY <2>1, <2>2, <2>3, <2>4 DEF Effect, Still, Calm, Announce, Relay, Move
<1> QED
  BY <1>1, <1>2

\* What a fan-out still has to reach was there before the step, or is a
\* member of the room it has just listed.
LEMMA TodoGrowth ==
  ASSUME RoomInv, Effect, NEW x \in Conns, NEW p \in todo'[x]
  PROVE  \/ p \in todo[x]
         \/ InRoom(x) /\ room[x] \in RoomIDs /\ p \in members[room[x]]
<1> USE DEF RoomInv, TypeOK
<1>1. CASE todo' = todo
  BY <1>1
<1>2. ASSUME NEW y \in Conns, Announce(y)
      PROVE  p \in todo[x] \/ (InRoom(x) /\ p \in members[room[x]])
  BY <1>2 DEF Announce
<1>3. ASSUME NEW y \in Conns, NEW target \in Conns, Relay(y, target)
      PROVE  p \in todo[x] \/ (InRoom(x) /\ p \in members[room[x]])
  BY <1>3 DEF Relay
<1>4. ASSUME NEW y \in Conns, NEW f \in {"leaving", "unwinding"}, Departs(y, f)
      PROVE  p \in todo[x] \/ (InRoom(x) /\ p \in members[room[x]])
  BY <1>4 DEF Departs
<1>5. ASSUME NEW y \in Conns, NEW q \in Conns, Tells(y, q)
      PROVE  p \in todo[x]
  BY <1>5 DEF Tells
<1>6. InRoom(x) => room[x] \in RoomIDs
  BY DEF InRoom
<1> QED
  BY <1>1, <1>2, <1>3, <1>4, <1>5, <1>6 DEF Effect, Still, Calm, Admitted

\* OnceInv is kept by every step.
LEMMA OnceStep ==
  ASSUME RoomInv, TypeOK', OnceInv, Effect, ~Rejoin
  PROVE  OnceInv'
<1>0. Grows
  BY DEF Effect, Still, Calm, Announce, Relay, Admitted, Departs, Tells
<1>1. ReachedOnce'
  <2> SUFFICES ASSUME NEW x \in Conns, NEW p \in Conns, p \in todo'[x]
               PROVE  room'[p] # NoRoom \/ sent'[p] = MaxMessages
    BY DEF ReachedOnce
  <2>1. room[p] # NoRoom \/ sent[p] = MaxMessages
    BY TodoGrowth, MembersInRoom DEF OnceInv, ReachedOnce
  <2> QED
    BY <2>1, RoomGivenUp
<1>2. LastWords'
  <2> SUFFICES ASSUME NEW p \in Conns, pc'[p] = "leaving"
               PROVE  sent'[p] = MaxMessages
    BY DEF LastWords
  <2> USE DEF RoomInv, TypeOK
  <2>1. CASE pc[p] = "leaving"
    BY <1>0, <2>1, SentStays DEF OnceInv, LastWords
  <2>2. CASE pc[p] # "leaving"
    <3>1. ~Still
      BY <2>2 DEF Still
    <3>2. ASSUME NEW y \in Conns, NEW s \in PCs, Calm(y, s) PROVE FALSE
      BY <2>2, <3>2 DEF Calm, Move, FanOuts
    <3>3. ASSUME NEW y \in Conns, Announce(y) PROVE FALSE
      BY <2>2, <3>3 DEF Announce, Move
    <3>4. ASSUME NEW y \in Conns, NEW target \in Conns, Relay(y, target)
          PROVE  FALSE
      BY <2>2, <3>4 DEF Relay, Move
    <3>5. ASSUME NEW y \in Conns, NEW r \in RoomIDs, Admitted(y, r) PROVE FALSE
      BY <2>2, <3>5 DEF Admitted
    <3>6. ASSUME NEW y \in Conns, NEW f \in {"leaving", "unwinding"},
                 Departs(y, f)
          PROVE  sent'[p] = MaxMessages
      <4>1. y = p /\ f = "leaving"
        BY <2>2, <3>6 DEF Departs, Quit, After
      <4> QED
        BY <3>6, <4>1 DEF Departs
    <3>7. ASSUME NEW y \in Conns, NEW q \in Conns, Tells(y, q) PROVE FALSE
      <4>1. pc' = pc \/ pc' = [pc EXCEPT ![y] = FanOutEnd(y, q)]
        BY <3>7 DEF Tells
      <4>2. FanOutEnd(y, q) # "leaving"
        BY <3>7, FanOutEndFacts DEF Tells, FanOuts
      <4> QED
        BY <2>2, <4>1, <4>2
    <3> QED
      BY <3>1, <3>2, <3>3, <3>4, <3>5, <3>6, <3>7 DEF Effect
  <2> QED
    BY <2>1, <2>2
<1>3. AnnouncedAtHome'
  <2> SUFFICES ASSUME NEW x \in Conns, NEW p \in Conns, pc'[x] = "announcing",
                      p \in todo'[x], InRoom(p)'
               PROVE  room'[p] = room'[x]
    BY DEF AnnouncedAtHome
  <2> USE DEF RoomInv, TypeOK
  <2>1. ASSUME pc[x] = "announcing", p \in todo[x], InRoom(p),
               room'[p] = room[p], room'[x] = room[x]
        PROVE  room'[p] = room'[x]
    BY <2>1 DEF OnceInv, AnnouncedAtHome
  <2>2. CASE Still
    BY <2>1, <2>2, StaysInRoom DEF Still
  <2>3. ASSUME NEW y \in Conns, NEW s \in PCs, Calm(y, s)
        PROVE  room'[p] = room'[x]
    <3>1. pc[x] = "announcing" /\ p \in todo[x] /\ room' = room
      BY <2>3 DEF Calm, Move, FanOuts
    <3> QED
      BY <2>1, <2>3, <3>1, StaysInRoom
  <2>4. ASSUME NEW y \in Conns, Announce(y)
        PROVE  room'[p] = room'[x]
    <3>1. room' = room /\ InRoom(p)
      BY <2>4, StaysInRoom DEF Announce, Move
    <3>2. CASE x = y
      <4>1. p \in members[room[x]] /\ room[x] \in RoomIDs
        BY <2>4, <3>2 DEF Announce, InRoom
      <4> QED
        BY <3>1, <4>1, MembersInRoom
    <3>3. CASE x # y
      <4>1. pc[x] = "announcing" /\ p \in todo[x]
        BY <2>4, <3>3 DEF Announce, Move
      <4> QED
        BY <2>1, <3>1, <4>1
    <3> QED
      BY <3>2, <3>3
  <2>5. ASSUME NEW y \in Conns, NEW target \in Conns, Relay(y, target)
        PROVE  room'[p] = room'[x]
    <3>1. pc[x] = "announcing" /\ p \in todo[x] /\ room' = room
      BY <2>5 DEF Relay, Move
    <3> QED
      BY <2>1, <2>5, <3>1, StaysInRoom
  <2>6. ASSUME NEW y \in Conns, NEW r \in RoomIDs, Admitted(y, r)
        PROVE  room'[p] = room'[x]
    <3>1. x # y /\ pc[x] = "announcing" /\ p \in todo[x] /\ room'[x] = room[x]
      BY <2>6 DEF Admitted
    <3>2. p # y
      BY <2>6, <3>1, BoundsAssumption DEF Admitted, OnceInv, ReachedOnce
    <3>3. InRoom(p) /\ room'[p] = room[p]
      BY <2>6, <3>2 DEF Admitted, InRoom
    <3> QED
      BY <2>1, <3>1, <3>3
  <2>7. ASSUME NEW y \in Conns, NEW f \in {"leaving", "unwinding"}, Departs(y, f)
        PROVE  room'[p] = room'[x]
    <3>1. x # y
      BY <2>7 DEF Departs, Quit, After
    <3>2. pc[x] = "announcing" /\ p \in todo[x] /\ room'[x] = room[x]
      BY <2>7, <3>1 DEF Departs, Quit
    <3> QED
      BY <2>1, <2>7, <3>2, StaysInRoom
  <2>8. ASSUME NEW y \in Conns, NEW q \in Conns, Tells(y, q)
        PROVE  room'[p] = room'[x]
    <3>1. pc' = pc \/ pc' = [pc EXCEPT ![y] = FanOutEnd(y, q)]
      BY <2>8 DEF Tells
    <3>2. FanOutEnd(y, q) # "announcing"
      BY <2>8, FanOutEndFacts DEF Tells, FanOuts
    <3>3. pc[x] = "announcing" /\ p \in todo[x]
      BY <2>8, <3>1, <3>2, SMTT(30) DEF Tells
    <3>4. room' = room \/ room' = [room EXCEPT ![y] = IF pc[y] = "leaving"
                                                     THEN NoRoom ELSE @]
      BY <2>8 DEF Tells
    <3>5. room'[x] = room[x]
      BY <3>3, <3>4, SMTT(30)
    <3> QED
      BY <2>1, <2>8, <3>3, <3>5, StaysInRoom
  <2> QED
    BY <2>2, <2>3, <2>4, <2>5, <2>6, <2>7, <2>8 DEF Effect
<1>4. NotToItself'
  <2> SUFFICES ASSUME NEW p \in Conns
               PROVE  /\ pc'[p] = "announcing" => p \notin todo'[p]
                      /\ p \notin told'[p]
    BY DEF NotToItself
  <2> USE DEF RoomInv, TypeOK
  <2>1. (pc[p] = "announcing" => p \notin todo[p]) /\ p \notin told[p]
    BY DEF OnceInv, NotToItself
  <2>2. CASE Still
    BY <2>1, <2>2 DEF Still
  <2>3. ASSUME NEW y \in Conns, NEW s \in PCs, Calm(y, s)
        PROVE  (pc'[p] = "announcing" => p \notin todo'[p]) /\ p \notin told'[p]
    BY <2>1, <2>3 DEF Calm, Move, FanOuts
  <2>4. ASSUME NEW y \in Conns, Announce(y)
        PROVE  (pc'[p] = "announcing" => p \notin todo'[p]) /\ p \notin told'[p]
    BY <2>1, <2>4 DEF Announce, Move
  <2>5. ASSUME NEW y \in Conns, NEW target \in Conns, Relay(y, target)
        PROVE  (pc'[p] = "announcing" => p \notin todo'[p]) /\ p \notin told'[p]
    BY <2>1, <2>5 DEF Relay, Move
  <2>6. ASSUME NEW y \in Conns, NEW r \in RoomIDs, Admitted(y, r)
        PROVE  (pc'[p] = "announcing" => p \notin todo'[p]) /\ p \notin told'[p]
    <3>1. y \notin members[r]
      BY <2>6, MembersInRoom DEF Admitted
    <3> QED
      BY <2>1, <2>6, <3>1 DEF Admitted
  <2>7. ASSUME NEW y \in Conns, NEW f \in {"leaving", "unwinding"}, Departs(y, f)
        PROVE  (pc'[p] = "announcing" => p \notin todo'[p]) /\ p \notin told'[p]
    BY <2>1, <2>7 DEF Departs, Quit, After
  <2>8. ASSUME NEW y \in Conns, NEW q \in Conns, Tells(y, q)
        PROVE  (pc'[p] = "announcing" => p \notin todo'[p]) /\ p \notin told'[p]
    <3>1. pc' = pc \/ pc' = [pc EXCEPT ![y] = FanOutEnd(y, q)]
      BY <2>8 DEF Tells
    <3>2. FanOutEnd(y, q) # "announcing"
      BY <2>8, FanOutEndFacts DEF Tells, FanOuts
    <3>3. pc'[p] = "announcing" => p \notin todo'[p]
      BY <2>1, <2>8, <3>1, <3>2 DEF Tells
    <3>4. p \notin told'[p]
      <4>1. CASE p # q
        BY <2>1, <2>8, <4>1, TellsTold, SMTT(30)
      <4>2. CASE p = q
        <5>1. pc[y] = "announcing" => y # q
          BY <2>8 DEF Tells, OnceInv, NotToItself
        <5>2. \/ told'[q] = told[q] \/ told'[q] = told[q] \ {y}
              \/ pc[y] = "announcing" /\ told'[q] = told[q] \cup {y}
          BY <2>8, TellsTold
        <5> QED
          BY <2>1, <4>2, <5>1, <5>2
      <4> QED
        BY <4>1, <4>2
    <3> QED
      BY <3>3, <3>4
  <2> QED
    BY <2>2, <2>3, <2>4, <2>5, <2>6, <2>7, <2>8 DEF Effect
<1> QED
  BY <1>1, <1>2, <1>3, <1>4 DEF OnceInv

----------------------------------------------------------------------------
\* x is in the room of p, or about to tell p that it has left.
Present(p, x) ==
  \/ InRoom(x) /\ room[x] = room[p]
  \/ pc[x] \in {"leaving", "unwinding"} /\ p \in todo[x]

\* p is in a room and listens.
Listening(p) == InRoom(p) /\ ~cancelled[p]

\* A loop that is not about leaving ends in the room it began in.
LEMMA TellerStays ==
  ASSUME RoomInv, NEW y \in Conns, NEW q \in Conns, Tells(y, q),
         pc[y] \in {"announcing", "relaying"}
  PROVE  InRoom(y) /\ InRoom(y)' /\ room'[y] = room[y]
<1> USE DEF RoomInv, TypeOK
<1>1. InRoom(y)
  BY DEF HandlerRooms, InRoom, Attached
<1>2. room'[y] = room[y]
  BY DEF Tells
<1>3. pc'[y] \in Attached
  <2>1. pc' = pc \/ pc' = [pc EXCEPT ![y] = FanOutEnd(y, q)]
    BY DEF Tells
  <2>2. FanOutEnd(y, q) \in Attached
    BY FanOutEndFacts DEF FanOuts, Attached
  <2> QED
    BY <1>1, <2>1, <2>2 DEF InRoom
<1> QED
  BY <1>1, <1>2, <1>3 DEF InRoom

\* Whoever p knows of stays present to it over every step.
LEMMA KeepsPresent ==
  ASSUME RoomInv, OnceInv, Effect, NEW p \in Conns, NEW x \in Conns,
         Listening(p) /\ x \in told[p] => Present(p, x),
         Listening(p)', x \in told'[p]
  PROVE  Present(p, x)'
<1> USE DEF RoomInv, TypeOK
<1>1. ASSUME InRoom(p), Grows, x \in told[p]
      PROVE  Present(p, x)
  BY <1>1 DEF Listening, Grows
<1>2. CASE Still
  <2>1. Present(p, x)
    BY <1>1, <1>2, StaysInRoom DEF Listening, Still
  <2> QED
    BY <1>2, <2>1 DEF Still, Present, InRoom
<1>3. ASSUME NEW y \in Conns, NEW s \in PCs, Calm(y, s)
      PROVE  Present(p, x)'
  <2>1. Present(p, x)
    BY <1>1, <1>3, StaysInRoom DEF Listening, Calm
  <2> QED
    BY <1>3, <2>1 DEF Calm, Move, Present, InRoom, FanOuts, Attached
<1>4. ASSUME NEW y \in Conns, Announce(y)
      PROVE  Present(p, x)'
  <2>1. Present(p, x)
    BY <1>1, <1>4, StaysInRoom DEF Listening, Announce
  <2> QED
    BY <1>4, <2>1 DEF Announce, Move, Present, InRoom, Attached
<1>5. ASSUME NEW y \in Conns, NEW target \in Conns, Relay(y, target)
      PROVE  Present(p, x)'
  <2>1. Present(p, x)
    BY <1>1, <1>5, StaysInRoom DEF Listening, Relay
  <2> QED
    BY <1>5, <2>1 DEF Relay, Move, Present, InRoom, Attached
<1>6. ASSUME NEW y \in Conns, NEW r \in RoomIDs, Admitted(y, r)
      PROVE  Present(p, x)'
  <2>1. /\ \A z \in Conns : z # y => /\ pc'[z] = pc[z] /\ room'[z] = room[z]
                                    /\ told'[z] = told[z]
        /\ pc'[y] = "joined" /\ room'[y] = r /\ told'[y] = members[r]
        /\ todo' = todo /\ Grows
    BY <1>6 DEF Admitted
  <2>2. CASE p = y
    <3>1. x \in members[r]
      BY <2>1, <2>2
    <3>2. InRoom(x) /\ room[x] = r
      BY <3>1, MembersInRoom
    <3>3. x # y
      BY <1>6, <3>2 DEF Admitted, InRoom
    <3> QED
      BY <2>1, <2>2, <3>2, <3>3 DEF Present, InRoom
  <2>3. CASE p # y
    <3>1. InRoom(p)
      BY <2>1, <2>3 DEF Listening, InRoom
    <3>2. Present(p, x)
      BY <1>1, <2>1, <2>3, <3>1
    <3>3. x # y
      BY <1>6, <3>2 DEF Admitted, Present, InRoom
    <3> QED
      BY <2>1, <2>3, <3>2, <3>3 DEF Present, InRoom
  <2> QED
    BY <2>2, <2>3
<1>7. ASSUME NEW y \in Conns, NEW f \in {"leaving", "unwinding"}, Departs(y, f)
      PROVE  Present(p, x)'
  <2>1. InRoom(p) /\ room'[p] = room[p]
    BY <1>7, StaysInRoom DEF Listening
  <2>2. Present(p, x)
    BY <1>1, <1>7, <2>1 DEF Departs
  <2>3. p # y
    BY <1>7, DepartsOut DEF Listening
  <2>4. CASE x = y
    <3>1. room[x] = room[p] /\ room[x] \in RoomIDs
      BY <1>7, <2>2, <2>4 DEF Departs, Present, InRoom, FanOuts
    <3>2. p \in members[room[y]] \ {y}
      BY <2>1, <2>3, <2>4, <3>1 DEF MembershipAgrees
    <3>3. pc'[y] = f /\ p \in todo'[y]
      BY <1>7, <3>2 DEF Departs, Quit
    <3> QED
      BY <2>4, <3>3 DEF Present
  <2>5. CASE x # y
    <3>1. pc'[x] = pc[x] /\ todo'[x] = todo[x] /\ room'[x] = room[x]
      BY <1>7, <2>5 DEF Departs, Quit
    <3> QED
      BY <2>1, <2>2, <3>1 DEF Present, InRoom
  <2> QED
    BY <2>4, <2>5
<1>8. ASSUME NEW y \in Conns, NEW q \in Conns, Tells(y, q)
      PROVE  Present(p, x)'
  <2>1. InRoom(p) /\ room'[p] = room[p] /\ ~cancelled'[p]
    BY <1>8, StaysInRoom DEF Listening
  <2>2. x \in told[p] => Present(p, x)
    BY <1>1, <1>8, <2>1 DEF Tells
  <2>3. CASE x = y /\ pc[x] \in {"announcing", "relaying"}
    <3>1. InRoom(x) /\ InRoom(x)' /\ room'[x] = room[x]
      BY <1>8, <2>3, TellerStays
    <3>2. room[x] = room[p]
      <4>1. CASE x \in told[p]
        BY <2>2, <2>3, <4>1 DEF Present
      <4>2. CASE x \notin told[p]
        <5>1. p = q /\ pc[x] = "announcing"
          BY <1>8, <2>3, <4>2, TellsTold
        <5> QED
          BY <1>8, <2>1, <2>3, <5>1 DEF Tells, OnceInv, AnnouncedAtHome
      <4> QED
        BY <4>1, <4>2
    <3> QED
      BY <2>1, <3>1, <3>2 DEF Present
  <2>4. CASE x = y /\ pc[x] \in {"leaving", "unwinding"}
    <3>1. p # q
      <4>1. SUFFICES ASSUME p = q PROVE FALSE
        OBVIOUS
      <4>2. \/ cancelled'[q]
            \/ pc[y] \in {"announcing", "relaying"}
            \/ told'[q] = told[q] \ {y}
        BY <1>8, TellsTold
      <4>3. told'[p] = told[p] \ {x}
        BY <2>1, <2>4, <4>1, <4>2
      <4> QED
        BY <4>3
    <3>2. x \in told[p]
      BY <1>8, <3>1, TellsTold
    <3>3. p \in todo[x]
      BY <2>2, <2>4, <3>2 DEF Present, InRoom, Attached
    <3>4. pc'[x] = pc[x] /\ p \in todo'[x]
      BY <1>8, <2>4, <3>1, <3>3 DEF Tells
    <3> QED
      BY <2>4, <3>4 DEF Present
  <2>5. CASE x # y
    <3>1. pc'[x] = pc[x] /\ todo'[x] = todo[x] /\ room'[x] = room[x]
      BY <1>8, <2>5 DEF Tells
    <3>2. x \in told[p]
      <4>1. CASE p # q
        BY <1>8, <4>1, TellsTold
      <4>2. CASE p = q
        <5>1. \/ told'[q] = told[q] \/ told'[q] = told[q] \cup {y}
              \/ told'[q] = told[q] \ {y}
          BY <1>8, TellsTold
        <5> QED
          BY <2>5, <4>2, <5>1
      <4> QED
        BY <4>1, <4>2
    <3> QED
      BY <2>1, <2>2, <3>1, <3>2 DEF Present, InRoom
  <2> QED
    BY <1>8, <2>3, <2>4, <2>5 DEF Tells, FanOuts
<1> QED
  BY <1>2, <1>3, <1>4, <1>5, <1>6, <1>7, <1>8 DEF Effect

\* Members know nobody who is gone, by an invariant that OnceInv makes inductive.
LEMMA GhostInvariant ==
  ASSUME ~Rejoin
  PROVE  Spec => [](OnceInv /\ NoGhostPeer)
<1>1. NoGhostPeer <=> \A p, x \in Conns : Listening(p) /\ x \in told[p]
                                           => Present(p, x)
  BY DEF NoGhostPeer, Listening, Present
<1>2. Init => NoGhostPeer /\ OnceInv
  <2> SUFFICES ASSUME Init PROVE NoGhostPeer /\ OnceInv
    OBVIOUS
  <2>1. NoGhostPeer
    BY DEF Init, NoGhostPeer
  <2>2. ReachedOnce /\ LastWords /\ AnnouncedAtHome /\ NotToItself
    BY DEF Init, ReachedOnce, LastWords, AnnouncedAtHome, NotToItself
  <2> QED
    BY <2>1, <2>2 DEF OnceInv
<1>3. RoomInv /\ RoomInv' /\ OnceInv /\ NoGhostPeer /\ [Next]_vars
        => OnceInv' /\ NoGhostPeer'
  <2> SUFFICES ASSUME RoomInv, RoomInv', OnceInv, NoGhostPeer, [Next]_vars
               PROVE  OnceInv' /\ NoGhostPeer'
    OBVIOUS
  <2>1. Effect /\ TypeOK'
    BY StepEffect DEF RoomInv
  <2>2. OnceInv'
    BY <2>1, OnceStep
  <2>3. ASSUME NEW p \in Conns, NEW x \in Conns, Listening(p)', x \in told'[p]
        PROVE  Present(p, x)'
    BY <1>1, <2>1, <2>3, KeepsPresent
  <2>4. NoGhostPeer'
    BY <2>3 DEF NoGhostPeer, Listening, Present
  <2> QED
    BY <2>2, <2>4
<1> QED
  BY <1>2, <1>3, RoomInvInit, RoomInvStep, PTL DEF Spec

\* A member is never left believing in a peer that is gone, for any number
\* of connections and rooms, when leave_room is the last message a client
\* sends, as it is in internal/signaling/client.go.  The run signaling_rejoin
\* shows what happens without that assumption.
THEOREM NoGhosts ==
  ASSUME ~Rejoin
  PROVE  Spec => []NoGhostPeer
BY GhostInvariant, PTL

----------------------------------------------------------------------------
\* From the queue to the client.

\* The handler of p has accepted the WebSocket of its client.
Begun(p) == pc[p] \notin {"idle", "accepting", "rejected"}

\* Before that its context is not done and it has no writer.
FreshPeers ==
  \A p \in Conns : ~Begun(p) => ~cancelled[p] /\ writer[p] = "none"

\* Fan-outs are for connections that have begun.
ReachesBegun == \A x \in Conns : \A p \in todo[x] : Begun(p)

BegunInv == RoomInv /\ WritersInSession /\ FreshPeers /\ ReachesBegun

\* Message m is put in the queue of q, or q is cancelled.
Queued(q, m) ==
  /\ queue' = [queue EXCEPT ![q] = Append(@, m)]
  /\ told' = [told EXCEPT ![q] = Learn(@, m)]
  /\ UNCHANGED <<cancelled, view>>

Cancels(q) ==
  /\ cancelled' = [cancelled EXCEPT ![q] = TRUE]
  /\ UNCHANGED <<queue, told, view>>

\* A message to q that comes from another client is relayed by its handler.
Relayed(q, m) ==
  m.type = "signal" =>
    \E x \in Conns : m.peers = {x} /\ pc[x] = "relaying" /\ q \in todo[x]

\* What a step does to the queues, the contexts and the writers.
Line ==
  \/ UNCHANGED <<queue, told, view, cancelled, writer>>
  \/ /\ UNCHANGED writer
     /\ \E q \in Conns : Begun(q) /\ Cancels(q)
  \/ /\ UNCHANGED writer
     /\ \E q \in Conns, m \in Messages : Begun(q) /\ Queued(q, m) /\ Relayed(q, m)
  \/ \E q \in Conns : \/ Accept(q) \/ Write(q) \/ WriteFail(q) \/ PingFail(q)
                      \/ WriterDone(q) \/ RequestCancelled(q)
  \/ CloseServer

\* enqueue in these words.
LEMMA EnqueueLine ==
  ASSUME NEW q \in Conns, NEW m \in Messages, Begun(q), Enqueue(q, m),
         Relayed(q, m), UNCHANGED <<view, writer>>
  PROVE  Line
<1>1. CASE Full(q)
  BY <1>1 DEF Enqueue, Cancels, Line
<1>2. CASE ~Full(q)
  <2>1. Queued(q, m)
    BY <1>2 DEF Enqueue, Queued
  <2> QED
    BY <2>1 DEF Line
<1> QED
  BY <1>1, <1>2

\* An answer to the client itself comes from no other client.
LEMMA OwnMessages ==
  ASSUME NEW q \in Conns
  PROVE  Relayed(q, Error) /\ \A ps : Relayed(q, Accepted(ps))
BY DEF Relayed, Error, Accepted

\* Only a handler that relays sends a signal.
LEMMA FanOutRelayed ==
  ASSUME NEW y \in Conns, pc[y] \in FanOuts, NEW q \in todo[y]
  PROVE  Relayed(q, FanOutMessage(y))
<1>1. CASE pc[y] = "relaying"
  <2>1. FanOutMessage(y) = Signal(y)
    BY <1>1 DEF FanOutMessage
  <2> QED
    BY <1>1, <2>1 DEF Relayed, Signal
<1>2. CASE pc[y] # "relaying"
  <2>1. FanOutMessage(y) = Joined(y) \/ FanOutMessage(y) = Left(y)
    BY <1>2 DEF FanOutMessage
  <2> QED
    BY <2>1 DEF Relayed, Joined, Left
<1> QED
  BY <1>1, <1>2

\* Every step is one of these.
LEMMA LineStep ==
  ASSUME BegunInv, [Next]_vars
  PROVE  Line
<1> TypeOK
  BY DEF BegunInv, RoomInv
<1>1. ASSUME NEW p \in Conns, Client(p)
      PROVE  Line
  <2>1. CASE Acquire(p) \/ Reject(p) \/ (\E t \in Conns : RouteLookup(p, t))
             \/ RequestLeave(p) \/ ReadError(p)
    BY <2>1 DEF Acquire, Reject, RouteLookup, RequestLeave, ReadError, Line
  <2>2. CASE JoinNew(p) \/ JoinExisting(p)
    <3>1. rooms \subseteq RoomIDs
      BY DEF TypeOK
    <3>2. PICK r \in RoomIDs : AdmitTo(p, r) /\ pc[p] = "reading"
      BY <2>2, <3>1 DEF JoinNew, JoinExisting, Receive
    <3>3. Accepted(members[r]) \in Messages
      BY MessageTypes DEF TypeOK
    <3>4. Enqueue(p, Accepted(members[r])) /\ UNCHANGED <<view, writer>> /\ Begun(p)
      BY <3>2 DEF AdmitTo, Begun
    <3> QED
      BY <3>3, <3>4, EnqueueLine, OwnMessages
  <2>3. CASE RefuseRequest(p)
    BY <2>3, EnqueueLine, OwnMessages, MessageTypes DEF RefuseRequest, Receive, Begun
  <2>4. CASE ReceiveBad(p)
    <3>1. Begun(p) /\ UNCHANGED <<view, writer>>
      BY <2>4 DEF ReceiveBad, Receive, Begun
    <3>2. Enqueue(p, Error) \/ UNCHANGED <<queue, told, cancelled>>
      BY <2>4 DEF ReceiveBad
    <3> QED
      BY <3>1, <3>2, EnqueueLine, OwnMessages, MessageTypes DEF Line
  <2> QED
    BY <1>1, <2>1, <2>2, <2>3, <2>4 DEF Client
<1>2. ASSUME NEW p \in Conns, Handler(p)
      PROVE  Line
  <2>1. CASE Accept(p)
    BY <2>1 DEF Line
  <2>2. CASE AcceptFail(p) \/ SnapshotRoom(p) \/ FatalDone(p) \/ Release(p)
    BY <2>2 DEF AcceptFail, SnapshotRoom, FatalDone, Release, Line
  <2>3. CASE ReplyError(p)
    BY <2>3, EnqueueLine, OwnMessages, MessageTypes DEF ReplyError, Begun
  <2>4. CASE Deliver(p)
    <3>1. PICK q \in todo[p] : Enqueue(q, FanOutMessage(p))
      BY <2>4 DEF Deliver
    <3>2. pc[p] \in FanOuts /\ UNCHANGED <<view, writer>>
      BY <2>4 DEF Deliver
    <3>3. q \in Conns /\ Begun(q)
      BY DEF TypeOK, BegunInv, ReachesBegun
    <3> QED
      BY <3>1, <3>2, <3>3, EnqueueLine, FanOutRelayed, FanOutType
  <2> QED
    BY <1>2, <2>1, <2>2, <2>3, <2>4 DEF Handler
<1>3. ASSUME NEW p \in Conns, Writer(p) \/ PingFail(p) \/ RequestCancelled(p)
      PROVE  Line
  BY <1>3 DEF Writer, Line
<1>4. CASE CloseServer
  BY <1>4 DEF Line
<1>5. CASE UNCHANGED vars
  BY <1>5 DEF vars, Line
<1> QED
  BY <1>1, <1>2, <1>3, <1>4, <1>5 DEF Next, Finished

\* A connection that has begun does not begin again.
LEMMA BegunStays ==
  ASSUME TypeOK, [Next]_vars, NEW p \in Conns, Begun(p)
  PROVE  Begun(p)'
<1>1. CASE Keeps
  BY <1>1, SessionStates DEF Keeps, Begun
<1>2. ASSUME NEW y \in Conns, Opens(y) \/ Closes(y)
      PROVE  Begun(p)'
  BY <1>2 DEF Opens, Closes, Acquire, Reject, Accept, AcceptFail, Release,
              Begun, TypeOK
<1> QED
  BY <1>1, <1>2, StepKinds

\* A context that is done stays done.
LEMMA CancelledStays ==
  ASSUME BegunInv, [Next]_vars, NEW p \in Conns, cancelled[p]
  PROVE  cancelled'[p]
<1> USE DEF BegunInv, RoomInv, TypeOK
<1>1. ~(pc[p] = "accepting")
  BY DEF FreshPeers, Begun
<1>2. ASSUME NEW q \in Conns,
             \/ Accept(q) \/ Write(q) \/ WriteFail(q) \/ PingFail(q)
             \/ WriterDone(q) \/ RequestCancelled(q)
      PROVE  cancelled'[p]
  BY <1>1, <1>2 DEF Accept, Write, WriteFail, PingFail, WriterDone,
                    WriterStopped, RequestCancelled
<1> QED
  BY <1>2, LineStep DEF Line, Cancels, Queued, CloseServer

\* FreshPeers and ReachesBegun are kept by every step.
LEMMA BegunStep ==
  ASSUME BegunInv, [Next]_vars
  PROVE  FreshPeers' /\ ReachesBegun'
<1>1. TypeOK /\ RoomInv /\ Line /\ Effect
  BY LineStep, StepEffect DEF BegunInv, RoomInv
<1>2. FreshPeers'
  <2> SUFFICES ASSUME NEW p \in Conns, ~Begun(p)'
               PROVE  ~cancelled'[p] /\ writer'[p] = "none"
    BY DEF FreshPeers
  <2>1. ~Begun(p) /\ ~cancelled[p] /\ writer[p] = "none"
    BY <1>1, BegunStays DEF BegunInv, FreshPeers
  <2>2. ASSUME NEW q \in Conns, Accept(q)
        PROVE  ~cancelled'[p] /\ writer'[p] = "none"
    <3>1. p # q
      BY <1>1, <2>2 DEF Accept, Begun, TypeOK
    <3> QED
      BY <1>1, <2>1, <2>2, <3>1 DEF Accept, TypeOK
  <2>3. ASSUME NEW q \in Conns,
               \/ Write(q) \/ WriteFail(q) \/ PingFail(q)
               \/ WriterDone(q) \/ RequestCancelled(q)
        PROVE  ~cancelled'[p] /\ writer'[p] = "none"
    <3>1. writer[q] = "running" /\ p # q
      BY <2>1, <2>3 DEF Write, WriteFail, PingFail, WriterDone, RequestCancelled
    <3> QED
      BY <1>1, <2>1, <2>3, <3>1 DEF Write, WriteFail, PingFail, WriterDone,
         WriterStopped, RequestCancelled, TypeOK
  <2>4. CASE UNCHANGED <<queue, told, view, cancelled, writer>>
    BY <2>1, <2>4
  <2>5. ASSUME NEW q \in Conns, Begun(q), writer' = writer, Cancels(q)
        PROVE  ~cancelled'[p] /\ writer'[p] = "none"
    BY <1>1, <2>1, <2>5 DEF Cancels, TypeOK
  <2>6. ASSUME NEW q \in Conns, NEW m, writer' = writer, Queued(q, m)
        PROVE  ~cancelled'[p] /\ writer'[p] = "none"
    BY <2>1, <2>6 DEF Queued
  <2>7. CASE CloseServer
    BY <2>1, <2>7 DEF CloseServer
  <2> QED
    BY <1>1, <2>2, <2>3, <2>4, <2>5, <2>6, <2>7 DEF Line
<1>3. ReachesBegun'
  <2> SUFFICES ASSUME NEW x \in Conns, NEW p \in todo'[x]
               PROVE  Begun(p)'
    BY DEF ReachesBegun
  <2>1. p \in todo[x] \/ (room[x] \in RoomIDs /\ p \in members[room[x]])
    BY <1>1, TodoGrowth
  <2>2. p \in Conns /\ Begun(p)
    <3>1. CASE p \in todo[x]
      BY <1>1, <3>1 DEF TypeOK, BegunInv, ReachesBegun
    <3>2. CASE room[x] \in RoomIDs /\ p \in members[room[x]]
      <4>1. p \in Conns /\ InRoom(p)
        BY <1>1, <3>2, MembersInRoom
      <4> QED
        BY <4>1 DEF InRoom, Attached, Begun
    <3> QED
      BY <2>1, <3>1, <3>2
  <2> QED
    BY <1>1, <2>2, BegunStays
<1> QED
  BY <1>2, <1>3

----------------------------------------------------------------------------
\* What is told is what the client will know.

\* Who the client of p knows before each message of q is read: first what it
\* has seen, last what p has been told, and a message relayed for another
\* client comes after that client is known.
Replays(p, q, seen, news, f) ==
  /\ f \in [0..Len(q) -> SUBSET Conns]
  /\ f[0] = seen /\ f[Len(q)] = news
  /\ \A i \in 1..Len(q) :
       /\ f[i] = Learn(f[i - 1], q[i])
       /\ q[i].type = "signal" => q[i].peers \ {p} \subseteq f[i - 1]

\* The queue of a session that stays open leads from the one to the other.
QueueLeads ==
  \A p \in Conns :
    ~cancelled[p] => \E f : Replays(p, queue[p], view[p], told[p], f)

\* Whoever relays a message to p has been announced to p.
RelayAfterNews ==
  \A p, x \in Conns :
    pc[x] = "relaying" /\ p \in todo[x] /\ x # p /\ ~cancelled[p]
      => x \in told[p]

\* A message added at the end of a queue is read last.
LEMMA AppendReplays ==
  ASSUME TypeOK, NEW p \in Conns, NEW m \in Messages, Queued(p, m),
         m.type = "signal" => m.peers \ {p} \subseteq told[p],
         NEW f, Replays(p, queue[p], view[p], told[p], f)
  PROVE  \E g : Replays(p, queue'[p], view'[p], told'[p], g)
<1> DEFINE n == Len(queue[p])
           g == [i \in 0..(n + 1) |-> IF i = n + 1 THEN Learn(f[n], m) ELSE f[i]]
<1>1. n \in Nat /\ queue[p] \in Seq(Messages) /\ told[p] \in SUBSET Conns
  BY DEF TypeOK
<1>2. queue'[p] = Append(queue[p], m) /\ told'[p] = Learn(told[p], m)
      /\ view'[p] = view[p]
  BY DEF Queued, TypeOK
<1>3. /\ Len(queue'[p]) = n + 1 /\ queue'[p][n + 1] = m
      /\ \A i \in 1..n : queue'[p][i] = queue[p][i]
  BY <1>1, <1>2
<1>4. f[n] = told[p] /\ f[0] = view[p] /\ f \in [0..n -> SUBSET Conns]
  BY DEF Replays
<1>5. Learn(f[n], m) \in SUBSET Conns
  BY <1>1, <1>4, LearnType
<1>6. g \in [0..(n + 1) -> SUBSET Conns]
  BY <1>1, <1>4, <1>5
<1>7. g[n + 1] = told'[p] /\ g[0] = view'[p] /\ \A i \in 0..n : g[i] = f[i]
  BY <1>1, <1>2, <1>4
<1> HIDE DEF g
<1>8. ASSUME NEW i \in 1..(n + 1)
      PROVE  /\ g[i] = Learn(g[i - 1], queue'[p][i])
             /\ queue'[p][i].type = "signal"
                  => queue'[p][i].peers \ {p} \subseteq g[i - 1]
  <2>1. CASE i = n + 1
    <3>1. g[i - 1] = f[n] /\ g[i] = Learn(f[n], m) /\ queue'[p][i] = m
      BY <1>1, <1>2, <1>3, <1>4, <1>7, <2>1
    <3> QED
      BY <1>4, <3>1
  <2>2. CASE i \in 1..n
    <3>1. g[i] = f[i] /\ g[i - 1] = f[i - 1] /\ queue'[p][i] = queue[p][i]
      BY <1>1, <1>3, <1>7, <2>2
    <3> QED
      BY <2>2, <3>1 DEF Replays
  <2>3. i = n + 1 \/ i \in 1..n
    BY <1>1
  <2> QED
    BY <2>1, <2>2, <2>3
<1>9. Replays(p, queue'[p], view'[p], told'[p], g)
  BY <1>3, <1>6, <1>7, <1>8 DEF Replays
<1> QED
  BY <1>9

\* The first message is read first.
LEMMA WriteReplays ==
  ASSUME TypeOK, NEW p \in Conns, Write(p),
         NEW f, Replays(p, queue[p], view[p], told[p], f)
  PROVE  \E g : Replays(p, queue'[p], view'[p], told'[p], g)
<1> DEFINE n == Len(queue[p])
           g == [i \in 0..(n - 1) |-> f[i + 1]]
<1>1. n \in Nat \ {0} /\ queue[p] \in Seq(Messages) /\ queue[p] # <<>>
  BY DEF TypeOK, Write
<1>2. queue'[p] = Tail(queue[p]) /\ told'[p] = told[p]
      /\ view'[p] = Learn(view[p], queue[p][1])
  BY <1>1 DEF Write, TypeOK
<1>3. /\ Len(queue'[p]) = n - 1
      /\ \A i \in 1..(n - 1) : queue'[p][i] = queue[p][i + 1]
  BY <1>1, <1>2
<1>4. /\ f[n] = told[p] /\ f[0] = view[p] /\ f \in [0..n -> SUBSET Conns]
      /\ f[1] = Learn(f[0], queue[p][1])
  <2>1. 1 \in 1..n /\ 1 - 1 = 0
    BY <1>1
  <2> QED
    BY <2>1 DEF Replays
<1>5. g \in [0..(n - 1) -> SUBSET Conns] /\ \A i \in 0..(n - 1) : g[i] = f[i + 1]
  BY <1>1, <1>4
<1>6. g[n - 1] = told'[p] /\ g[0] = view'[p]
  BY <1>1, <1>2, <1>4, <1>5
<1>7. ASSUME NEW i \in 1..(n - 1)
      PROVE  /\ g[i] = Learn(g[i - 1], queue'[p][i])
             /\ queue'[p][i].type = "signal"
                  => queue'[p][i].peers \ {p} \subseteq g[i - 1]
  <2>1. i + 1 \in 1..n /\ (i + 1) - 1 = i /\ (i - 1) + 1 = i /\ i - 1 \in 0..(n - 1)
    BY <1>1
  <2>2. g[i] = f[i + 1] /\ g[i - 1] = f[i] /\ queue'[p][i] = queue[p][i + 1]
    BY <1>3, <1>5, <2>1
  <2>3. /\ f[i + 1] = Learn(f[i], queue[p][i + 1])
        /\ queue[p][i + 1].type = "signal"
             => queue[p][i + 1].peers \ {p} \subseteq f[i]
    BY <2>1 DEF Replays
  <2> QED
    BY <2>2, <2>3
<1> HIDE DEF g
<1>8. Replays(p, queue'[p], view'[p], told'[p], g)
  BY <1>3, <1>5, <1>6, <1>7 DEF Replays
<1> QED
  BY <1>8

\* QueueLeads is kept by every step.
LEMMA QueueLeadsStep ==
  ASSUME BegunInv, QueueLeads, RelayAfterNews, [Next]_vars
  PROVE  QueueLeads'
<1> SUFFICES ASSUME NEW p \in Conns, ~cancelled'[p]
             PROVE  \E g : Replays(p, queue'[p], view'[p], told'[p], g)
  BY DEF QueueLeads
<1> DEFINE Goal == \E g : Replays(p, queue'[p], view'[p], told'[p], g)
<1>1. TypeOK /\ Line
  BY LineStep DEF BegunInv, RoomInv
<1>2. ~cancelled[p]
  BY CancelledStays
<1>3. PICK f : Replays(p, queue[p], view[p], told[p], f)
  BY <1>2 DEF QueueLeads
<1>4. CASE queue'[p] = queue[p] /\ told'[p] = told[p] /\ view'[p] = view[p]
  BY <1>3, <1>4
<1>5. ASSUME NEW q \in Conns, NEW m \in Messages, Queued(q, m), Relayed(q, m)
      PROVE  Goal
  <2>1. CASE q = p
    <3>1. m.type = "signal" => m.peers \ {p} \subseteq told[p]
      BY <1>2, <1>5, <2>1 DEF Relayed, RelayAfterNews
    <3> QED
      BY <1>1, <1>3, <1>5, <2>1, <3>1, AppendReplays
  <2>2. CASE q # p
    BY <1>1, <1>4, <1>5, <2>2 DEF Queued, TypeOK
  <2> QED
    BY <2>1, <2>2
<1>6. ASSUME NEW q \in Conns, Write(q)
      PROVE  Goal
  <2>1. CASE q = p
    BY <1>1, <1>3, <1>6, <2>1, WriteReplays
  <2>2. CASE q # p
    BY <1>1, <1>4, <1>6, <2>2 DEF Write, TypeOK
  <2> QED
    BY <2>1, <2>2
<1>7. ASSUME NEW q \in Conns, WriteFail(q)
      PROVE  Goal
  <2>1. q # p
    BY <1>1, <1>7 DEF WriteFail, WriterStopped, TypeOK
  <2> QED
    BY <1>1, <1>4, <1>7, <2>1 DEF WriteFail, WriterStopped, TypeOK
<1>8. ASSUME NEW q \in Conns,
             Accept(q) \/ PingFail(q) \/ WriterDone(q) \/ RequestCancelled(q)
      PROVE  Goal
  <2>1. UNCHANGED <<queue, told, view>>
    BY <1>8 DEF Accept, PingFail, WriterDone, WriterStopped, RequestCancelled
  <2> QED
    BY <1>4, <2>1
<1>9. CASE UNCHANGED <<queue, told, view>>
  BY <1>4, <1>9
<1> HIDE DEF Goal
<1>10. UNCHANGED <<queue, told, view>> \/ Goal
  BY <1>1, <1>5, <1>6, <1>7, <1>8 DEF Line, Cancels, CloseServer
<1> QED
  BY <1>9, <1>10 DEF Goal

\* Whoever relays keeps being known to its target, if nobody joins twice.
LEMMA RelayStep ==
  ASSUME BegunInv, OnceInv, NoMissingPeer, RelayAfterNews, [Next]_vars
  PROVE  RelayAfterNews'
<1> SUFFICES ASSUME NEW p \in Conns, NEW x \in Conns, pc'[x] = "relaying",
                    p \in todo'[x], x # p, ~cancelled'[p]
             PROVE  x \in told'[p]
  BY DEF RelayAfterNews
<1> USE DEF RoomInv, TypeOK
<1>1. RoomInv /\ Effect /\ ~cancelled[p]
  BY StepEffect, CancelledStays DEF BegunInv
<1>2. CASE pc[x] = "relaying" /\ p \in todo[x] /\ told'[p] = told[p]
  BY <1>1, <1>2 DEF RelayAfterNews
<1>3. CASE Still
  BY <1>2, <1>3 DEF Still
<1>4. ASSUME NEW y \in Conns, NEW s \in PCs, Calm(y, s)
      PROVE  x \in told'[p]
  BY <1>1, <1>2, <1>4 DEF Calm, Move, FanOuts
<1>5. ASSUME NEW y \in Conns, Announce(y)
      PROVE  x \in told'[p]
  BY <1>1, <1>2, <1>5 DEF Announce, Move
<1>6. ASSUME NEW y \in Conns, NEW target \in Conns, Relay(y, target)
      PROVE  x \in told'[p]
  <2>1. CASE x = y
    <3>1. p \in members[room[x]] /\ InRoom(x) /\ pc[x] = "reading" /\ told' = told
      BY <1>1, <1>6, <2>1 DEF Relay
    <3>2. room[x] \in RoomIDs
      BY <1>1, <3>1 DEF InRoom
    <3>3. InRoom(p) /\ room[p] = room[x]
      BY <1>1, <3>1, <3>2, MembersInRoom
    <3> QED
      BY <1>1, <3>1, <3>3 DEF NoMissingPeer
  <2>2. CASE x # y
    BY <1>1, <1>2, <1>6, <2>2 DEF Relay, Move
  <2> QED
    BY <2>1, <2>2
<1>7. ASSUME NEW y \in Conns, NEW r \in RoomIDs, Admitted(y, r)
      PROVE  x \in told'[p]
  <2>1. x # y /\ pc[x] = "relaying" /\ p \in todo[x]
    BY <1>1, <1>7 DEF Admitted
  <2>2. p # y
    <3>1. room[p] # NoRoom \/ sent[p] = MaxMessages
      BY <2>1 DEF OnceInv, ReachedOnce
    <3> QED
      BY <1>7, <3>1, BoundsAssumption DEF Admitted
  <2> QED
    BY <1>1, <1>2, <1>7, <2>1, <2>2 DEF Admitted
<1>8. ASSUME NEW y \in Conns, NEW f \in {"leaving", "unwinding"}, Departs(y, f)
      PROVE  x \in told'[p]
  <2>1. x # y
    BY <1>1, <1>8 DEF Departs, Quit, After
  <2> QED
    BY <1>1, <1>2, <1>8, <2>1 DEF Departs, Quit
<1>9. ASSUME NEW y \in Conns, NEW q \in Conns, Tells(y, q)
      PROVE  x \in told'[p]
  <2>1. CASE x = y
    <3>1. p # q /\ p \in todo[x]
      BY <1>1, <1>9, <2>1 DEF Tells
    <3>2. pc[x] = "relaying"
      BY <1>1, <1>9, <2>1, FanOutEndFacts DEF Tells, FanOuts
    <3>3. told'[p] = told[p]
      BY <1>1, <1>9, <3>1, TellsTold
    <3> QED
      BY <1>2, <3>1, <3>2, <3>3
  <2>2. CASE x # y
    <3>1. pc[x] = "relaying" /\ p \in todo[x]
      BY <1>1, <1>9, <2>2 DEF Tells
    <3>2. x \in told[p]
      BY <1>1, <3>1 DEF RelayAfterNews
    <3>3. \/ told'[p] = told[p] \/ told'[p] = told[p] \cup {y}
          \/ told'[p] = told[p] \ {y}
      BY <1>1, <1>9, TellsTold
    <3> QED
      BY <2>2, <3>2, <3>3
  <2> QED
    BY <2>1, <2>2
<1> QED
  BY <1>1, <1>3, <1>4, <1>5, <1>6, <1>7, <1>8, <1>9 DEF Effect

----------------------------------------------------------------------------
\* What the clients know and hear, while leave_room is the last message of a
\* client.

LineInv ==
  /\ BegunInv /\ OnceInv /\ NoMissingPeer /\ NoGhostPeer
  /\ QueueLeads /\ RelayAfterNews

\* All of them hold in every state.
LEMMA LineInvariant ==
  ASSUME ~Rejoin
  PROVE  Spec => []LineInv
<1> DEFINE News == FreshPeers /\ ReachesBegun /\ QueueLeads /\ RelayAfterNews
<1>1. Spec => []SlotInv
  BY SlotInvariant
<1>2. Spec => [](OnceInv /\ NoGhostPeer)
  BY GhostInvariant
<1>3. Spec => []NoMissingPeer
  BY NobodyMissed
<1>4. Init => News
  <2> SUFFICES ASSUME Init PROVE News
    OBVIOUS
  <2>1. FreshPeers /\ ReachesBegun /\ RelayAfterNews
    BY DEF Init, FreshPeers, ReachesBegun, RelayAfterNews, Begun
  <2>2. ASSUME NEW p \in Conns
        PROVE  \E f : Replays(p, queue[p], view[p], told[p], f)
    <3>1. queue[p] = <<>> /\ view[p] = {} /\ told[p] = {}
      BY DEF Init
    <3>2. Replays(p, <<>>, {}, {}, [i \in 0..0 |-> {}])
      BY DEF Replays
    <3> QED
      BY <3>1, <3>2
  <2> QED
    BY <2>1, <2>2 DEF QueueLeads
<1>5. SlotInv /\ OnceInv /\ NoMissingPeer /\ News /\ [Next]_vars => News'
  <2> SUFFICES ASSUME SlotInv, OnceInv, NoMissingPeer, News, [Next]_vars
               PROVE  News'
    OBVIOUS
  <2>1. BegunInv
    BY DEF BegunInv, SlotInv
  <2> QED
    BY <2>1, BegunStep, QueueLeadsStep, RelayStep
<1>6. SlotInv /\ OnceInv /\ NoGhostPeer /\ NoMissingPeer /\ News => LineInv
  BY DEF LineInv, BegunInv, SlotInv
<1> QED
  BY <1>1, <1>2, <1>3, <1>4, <1>5, <1>6, PTL DEF Spec

\* The client of a member whose queue is empty and towards whom nothing is
\* under way knows exactly the other members of the room, for any number of
\* connections and rooms, any queue size and any failures.
THEOREM ViewsAlwaysConverge ==
  ASSUME ~Rejoin
  PROVE  Spec => []ViewsConverge
<1>1. LineInv => ViewsConverge
  <2> SUFFICES ASSUME LineInv, NEW p \in Conns, InRoom(p), ~cancelled[p],
                      queue[p] = <<>>,
                      \A x \in Conns : pc[x] # "joined" /\ p \notin todo[x]
               PROVE  view[p] = members[room[p]] \ {p}
    BY DEF ViewsConverge
  <2>1. RoomInv /\ TypeOK
    BY DEF LineInv, BegunInv, RoomInv
  <2>2. view[p] = told[p]
    <3>1. PICK f : Replays(p, queue[p], view[p], told[p], f)
      BY DEF LineInv, QueueLeads
    <3>2. Len(queue[p]) = 0
      OBVIOUS
    <3> QED
      BY <3>1, <3>2 DEF Replays
  <2>3. told[p] \subseteq Conns /\ p \notin told[p] /\ room[p] \in RoomIDs
    BY <2>1 DEF TypeOK, LineInv, OnceInv, NotToItself, InRoom
  <2>4. members[room[p]] \subseteq Conns
    BY <2>1, <2>3 DEF TypeOK
  <2>5. \A x \in Conns : x \in members[room[p]] <=> (room[x] = room[p] /\ InRoom(x))
    BY <2>1, <2>3 DEF RoomInv, MembershipAgrees
  <2>6. \A x \in Conns : x \in told[p] => x \in members[room[p]]
    BY <2>5 DEF LineInv, NoGhostPeer
  <2>7. \A x \in Conns : x # p /\ x \in members[room[p]] => x \in told[p]
    BY <2>5 DEF LineInv, NoMissingPeer
  <2> QED
    BY <2>2, <2>3, <2>4, <2>6, <2>7
<1> QED
  BY <1>1, LineInvariant, PTL

\* An offer, answer or candidate reaches a client only after the client was
\* told of its sender, whatever the handlers interleave.
THEOREM SignalsAlwaysIntroduced ==
  ASSUME ~Rejoin
  PROVE  Spec => []SignalsIntroduced
<1>1. LineInv => SignalsIntroduced
  <2> SUFFICES ASSUME LineInv, NEW p \in Conns, NEW x \in Conns, x # p,
                      ~cancelled[p], queue[p] # <<>>, Head(queue[p]) = Signal(x)
               PROVE  x \in view[p]
    BY DEF SignalsIntroduced
  <2>1. PICK f : Replays(p, queue[p], view[p], told[p], f)
    BY DEF LineInv, QueueLeads
  <2>2. queue[p] \in Seq(Messages)
    BY DEF LineInv, BegunInv, RoomInv, TypeOK
  <2>3. 1 \in 1..Len(queue[p]) /\ 1 - 1 = 0 /\ queue[p][1] = Signal(x)
    BY <2>2
  <2>4. Signal(x).type = "signal" /\ Signal(x).peers = {x}
    BY DEF Signal
  <2> QED
    BY <2>1, <2>3, <2>4 DEF Replays
<1> QED
  BY <1>1, LineInvariant, PTL

=============================================================================

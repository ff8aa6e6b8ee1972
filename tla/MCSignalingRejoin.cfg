SPECIFICATION Spec
CONSTANTS
  a1 = a1
  Conns = {c1, c2, c3}
  Addrs = {a1}
  AddrOf <- OneAddr
  RoomIDs = {r1, r2}
  NoRoom = NoRoom
  MaxRooms = 2
  MaxRoomSize = 3
  MaxConnections = 3
  MaxConnectionsPerIP = 3
  QueueSize = 5
  MaxMessages = 3
  Requests = {"join", "leave"}
  Faults = {}
  Rejoin = TRUE
INVARIANTS
  NoGhostPeer

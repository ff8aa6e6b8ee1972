SPECIFICATION FairSpec
CONSTANTS
  a1 = a1
  Conns = {c1, c2}
  Addrs = {a1}
  AddrOf <- OneAddr
  RoomIDs = {r1}
  NoRoom = NoRoom
  MaxRooms = 1
  MaxRoomSize = 3
  MaxConnections = 3
  MaxConnectionsPerIP = 3
  QueueSize = 1
  MaxMessages = 2
  Requests = {"join", "refused", "signal", "bad"}
  Faults = {"read", "write", "ping", "context", "accept", "shutdown"}
  Rejoin = FALSE
INVARIANTS
  SignalsIntroduced
PROPERTIES
  SessionsEnd
  AnnouncementsArrive

SPECIFICATION Spec
CONSTANTS
  a1 = a1
  Conns = {c1, c2, c3}
  Addrs = {a1}
  AddrOf <- OneAddr
  RoomIDs = {r1, r2}
  NoRoom = NoRoom
  MaxRooms = 1
  MaxRoomSize = 3
  MaxConnections = 3
  MaxConnectionsPerIP = 2
  QueueSize = 3
  MaxMessages = 2
  Requests = {"join", "leave"}
  Faults = {"read", "accept"}
  Rejoin = FALSE
SYMMETRY ConnSymmetry
INVARIANTS
  MembershipAgrees
  NoGhostPeer
  NoMissingPeer
  ViewsConverge
  SlotsAccounted
PROPERTIES
  ImplementsDirectory

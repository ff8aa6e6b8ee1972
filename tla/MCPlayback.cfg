SPECIFICATION PlaybackFairSpec
CONSTANTS
  QueueSize = 2
  PacketSize = 2
  RequestSize = 3
  MaxTracks = 2
  MaxPackets = 3
  NoPlayer = NoPlayer
INVARIANTS
  SoundInOrder
  NewestKept
  OpenPlayersOwned
PROPERTIES
  SilentAfterLeaving

SPECIFICATION FairSpec
CONSTANTS
  PeerIDs = {i1, i2}
  Reports = {"failed"}
  MaxConns = 2
  MaxToggles = 1
  None = None
INVARIANTS
  OpenConnsOwned
  UIFollowsMap
  AudioFollowsMute
PROPERTIES
  StopCompletes

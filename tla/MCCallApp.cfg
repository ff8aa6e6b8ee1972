SPECIFICATION FairSpec
CONSTANTS
  PeerIDs = {p1}
  MaxKeys = 3
  None = None
INVARIANTS
  ScreenFollowsCall
  TilesFollowMesh
  MicTruthful
PROPERTIES
  Responsive
CHECK_DEADLOCK FALSE

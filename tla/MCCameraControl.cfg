SPECIFICATION FairSpec
CONSTANTS
  MaxSessions = 3
  MaxFrames = 1
  None = None
INVARIANTS
  OneDevice
PROPERTIES
  FramesFromLiveSession
  DeviceReleased
  DeadStreamNoticed

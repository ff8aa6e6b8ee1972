SPECIFICATION FairSpec
CONSTANTS
  QueueSize = 1
  MaxEvents = 3
  MaxSends = 2
  None = None
INVARIANTS
  NoGaps
  LeaveIsLast
PROPERTIES
  EndNoticed
  EndsCleanly

SPECIFICATION FairSpec
CONSTANTS
  MaxPending = 2
  MaxCandidates = 3
  Unusable = {2}
INVARIANTS
  NoGlare
  CandidatesKept
PROPERTIES
  Connects

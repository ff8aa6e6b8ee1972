SPECIFICATION VideoSpec
CONSTANTS
  CellIDs = {x1, x2}
  Colours = {0, 1, 2}
  Modes = {"ascii", "half"}
  Threshold = 1
  KeyframeEvery = 3
  MaxSeq = 4
  MaxInFlight = 2
  NoPicture = NoPicture
SYMMETRY CellSymmetry
INVARIANTS
  TileExact
  NoiseBounded

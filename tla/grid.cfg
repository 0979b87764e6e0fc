SPECIFICATION Spec
CONSTANTS
  Setups <- MCSetups
  SampleCounts = {1, 3}
INVARIANTS
  TilesCoverImage
  NeighborsTouch
  ProgressReachesTotal

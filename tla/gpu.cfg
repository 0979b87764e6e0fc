SPECIFICATION FairSpec
CONSTANTS
  Progressive = TRUE
  StartDivider = 4
  PixelSize = 1
  RangeStart = 0
  RangeNum <- NoRange
  SampleCounts = {1, 3}
  Denoising = TRUE
  DenoiseStart = 0
  DelayFrom = 1
  MaxRequests = 3
  MaxChanges = 1
  UserActions = {"pause", "error", "destroy"}
INVARIANTS
  CopiedBeforeNextPass
PROPERTIES
  CompletesImage
  ImplementsViewport

SPECIFICATION FairSpec
CONSTANTS
  Progressive = TRUE
  StartDivider = 4
  PixelSize = 1
  RangeStart = 0
  RangeNum <- NoRange
  SampleCounts = {2, 3}
  Denoising = TRUE
  DenoiseStart = 0
  DelayFrom = 1
  MaxRequests = 3
  MaxChanges = 1
  UserActions = {"pause", "error", "destroy"}
  OnlyIncrease = FALSE
INVARIANTS
  ShownComplete
  PassesMatchDivisor
PROPERTIES
  StableWhileRendering
  CompletesImage
  ImplementsViewport

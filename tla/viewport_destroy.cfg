SPECIFICATION FairSpec
CONSTANTS
  Progressive = TRUE
  StartDivider = 1
  PixelSize = 1
  RangeStart = 0
  RangeNum <- NoRange
  SampleCounts = {1}
  Denoising = FALSE
  DenoiseStart = 0
  DelayFrom = 1
  MaxRequests = 1
  MaxChanges = 0
  UserActions = {"destroy"}
  OnlyIncrease = FALSE
PROPERTIES
  DestroyEnds

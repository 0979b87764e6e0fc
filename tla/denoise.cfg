SPECIFICATION FairSpec
CONSTANTS
  Tile <- Row4
  Neighbor <- Row4Neighbor
  TileDevice <- OneDevice
  NumDevices = 1
  Progressive = FALSE
  ProgressiveRefine = FALSE
  PreserveTileDevice = FALSE
  ScheduleDenoising = TRUE
  NeedDenoisingTask = TRUE
  Worker <- CPUThreads
  WorkerDevice <- CPUDeviceNumber
  RenderWorker <- CPUThreads
  DenoiseWorker <- CPUThreads
  NumSamples = 2
  RangeStart = 1
  RangeNum = 1
  StartDivider = 1
  PixelSize = 1
  NoTile = NoTile
INVARIANTS
  TypeOK
  TileHeldOnce
  NoUseAfterFree
  DenoiseInputsStable
  DenoiseInputsComplete
  NothingLost
PROPERTIES
  Terminates

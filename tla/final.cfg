SPECIFICATION FairSpec
CONSTANTS
  Tile <- Row3
  Neighbor <- Row3Neighbor
  TileDevice <- OneDevice
  NumDevices = 1
  Progressive = FALSE
  ProgressiveRefine = FALSE
  PreserveTileDevice = FALSE
  ScheduleDenoising = FALSE
  NeedDenoisingTask = FALSE
  Worker <- CPUThreads
  WorkerDevice <- CPUDeviceNumber
  RenderWorker <- CPUThreads
  DenoiseWorker <- CPUThreads
  NumSamples = 2
  RangeStart = 0
  RangeNum <- NoRange
  StartDivider = 1
  PixelSize = 1
  NoTile = NoTile
INVARIANTS
  WrittenSamplesMatchOnCancel
PROPERTIES
  ImplementsFinalRender

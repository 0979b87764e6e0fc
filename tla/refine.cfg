SPECIFICATION FairSpec
CONSTANTS
  Tile <- Row4
  Neighbor <- Row4Neighbor
  TileDevice <- TwoDevices
  NumDevices = 2
  Progressive = TRUE
  ProgressiveRefine = TRUE
  PreserveTileDevice = TRUE
  ScheduleDenoising = TRUE
  NeedDenoisingTask = TRUE
  Worker <- GPUs
  WorkerDevice <- GPUDeviceNumber
  RenderWorker <- GPUs
  DenoiseWorker <- GPUs
  NumSamples = 2
  RangeStart = 0
  RangeNum <- NoRange
  StartDivider = 1
  PixelSize = 1
  NoTile = NoTile
INVARIANTS
  QueuesDrained
  WrittenSamplesMatch
  WrittenOnce

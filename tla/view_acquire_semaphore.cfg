SPECIFICATION Spec
CONSTANTS
  Radius = 1
  CyMin = 0
  CyMax = 0
  Budget = 4
  Centers <- LineCenters
  Content <- MCContent
  Generate <- MCGenerate
  InitStores <- VisitedStores
  StoreFaults = {}
  NoView = NoView
  NoMesh = NoMesh
  kFramesInFlight = 2
  Images = {i1, i2, i3}
  OffView = OffView
  Timestamps = TRUE
  Faults = {"alloc", "record", "acquire", "present"}
  MaxFrames = 4
  NoScene = NoScene
  EyeColumn <- FirstColumn
  SpawnColumn <- Origin
  WalkRange = 1
  NoImage = NoImage
CHECK_DEADLOCK FALSE
INVARIANT AcquireSemaphoreIdle

SPECIFICATION FairSpec
CONSTANTS
  Radius = 1
  CyMin = 0
  CyMax = 1
  Budget = 2
  Centers <- FarCenters
  Content <- MCContent
  Generate <- MCGenerate
  InitStores <- BandStores
  StoreFaults = {}
  NoView = NoView
  NoMesh = NoMesh
PROPERTIES CenterColumnResident PumpLeavesNothingReady QuiescentPumpIsNoOp EventuallyQuiescent

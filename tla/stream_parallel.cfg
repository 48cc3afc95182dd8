SPECIFICATION ParallelSpec
CONSTANTS
  Radius = 1
  CyMin = 0
  CyMax = 0
  Budget = 9
  Centers <- LineCenters
  Content <- MCContent
  Generate <- MCGenerate
  InitStores <- VisitedStores
  StoreFaults = {"write"}
  NoView = NoView
  NoMesh = NoMesh
  Threads = {t1, t2}
  NoBuild = NoBuild
PROPERTY RefinesSerialPump
SYMMETRY ThreadSymmetry

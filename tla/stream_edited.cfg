SPECIFICATION Spec
CONSTANTS
  Radius = 1
  CyMin = 0
  CyMax = 0
  Budget = 4
  Centers <- JumpCenters
  Content <- MCContent
  Generate <- MCGenerate
  InitStores <- EditedStores
  StoreFaults = {}
  NoView = NoView
  NoMesh = NoMesh
INVARIANTS TypeOK ResidentTruth MeshPure QuiescentIsOracle
PROPERTIES TruthStable NearestFirst

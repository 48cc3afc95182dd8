SPECIFICATION Spec
CONSTANTS
  Edge = 4
  Extent = 4
  Log2Edge = 2
  ReachXZ = 1
  CoordBits = 6
  SurfaceHeight <- MCHeight
  IsAnchor <- MCAnchor
  TrunkHeight <- MCTrunk
  Decorated <- MCDecorated
  IsOpaque <- MCOpaque
  WordBits = 16
  Cell = 64
  Exact = 256
  KMaxSubstep = 8
  KWorldBound = 1024
  Seeds = {0, 1}
  Region <- MCRegion
  Bodies = {25, 28}
  Spawns <- MCSpawns
  Area <- MCArea
  Moves <- MCMoves
  JumpSpeed = 24
  Gravity = 12
  MaxSpeed = 24
  Shifts <- MCShifts
  Reach = 512
INVARIANTS
  ChunksAreOneWorld
  MeshesAreTheSurface
  NeverInsideSolid
PROPERTIES
  LandedRests
  RebaseIsHonest

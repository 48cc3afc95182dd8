CONSTANTS
  kFramesInFlight = 2
  Views = {v1}
  Scenes = {s1, s2}
  NoScene = NoScene
  OffView = OffView
  Timestamps = TRUE
  Faults = {"alloc", "record", "wait"}
  MaxFrames = 7
SPECIFICATION FairSpec
CHECK_DEADLOCK FALSE
INVARIANTS
  SlotsNotReusedInFlight
  FramesDrawLiveScene
  ReadbackIsThisFrame
PROPERTIES
  EveryCallReturns

CONSTANTS
  kFramesInFlight = 2
  Views = {v1}
  Scenes = {s1, s2}
  NoScene = NoScene
  OffView = OffView
  Timestamps = TRUE
  Faults = {"record"}
  MaxFrames = 4
SPECIFICATION FairSpec
CHECK_DEADLOCK FALSE
PROPERTY DestructorReturns

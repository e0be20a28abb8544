SPECIFICATION FairSpec
CONSTANTS
  VideoSides = {886, 1920}
  ScreenSides = {768, 1366}
  MaxRotations = 2
  MaxPresses = 2
  MaxConnects = 3
  MaxRuns = 2
  MaxLines = 4
  MaxActs = 3
  FrameWidth = 0
  FrameHeight = 0
INVARIANTS FitsTheVideo
PROPERTIES UserDecides RotationReachesWindow
CHECK_DEADLOCK FALSE

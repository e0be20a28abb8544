SPECIFICATION Spec
CONSTANTS
  VideoSides = {886, 1920}
  ScreenSides = {768, 1366}
  FullscreenSetting = TRUE
  MaxLines = 3
  MaxActs = 1
INVARIANTS FitsTheVideo
CHECK_DEADLOCK FALSE

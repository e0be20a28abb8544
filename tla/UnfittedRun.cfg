SPECIFICATION Spec
CONSTANTS
  VideoSides = {886, 1920}
  ScreenSides = {768, 1366}
  QuietDrags = TRUE
  FrameWidth = 0
  FrameHeight = 0
  MaxLines = 2
  MaxActs = 0
  MaxRuns = 2
INVARIANTS RectFits
CHECK_DEADLOCK FALSE

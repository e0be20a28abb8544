SPECIFICATION Spec
CONSTANTS
  VideoSides = {886, 1920}
  ScreenSides = {768, 1366}
  QuietDrags = TRUE
  FrameWidth = 16
  FrameHeight = 39
  MaxLines = 2
  MaxActs = 0
  MaxRuns = 1
INVARIANTS NoBars
CHECK_DEADLOCK FALSE

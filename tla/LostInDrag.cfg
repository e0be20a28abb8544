SPECIFICATION Spec
CONSTANTS
  VideoSides = {886, 1920}
  ScreenSides = {768, 1366}
  QuietDrags = FALSE
  FrameWidth = 0
  FrameHeight = 0
  MaxLines = 2
  MaxActs = 1
  MaxRuns = 1
INVARIANTS StatusFollowsDevice
CHECK_DEADLOCK FALSE

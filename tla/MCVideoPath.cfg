SPECIFICATION FairSpec
CONSTANTS
  MAX_PRESSES = 2
  H_SYNC_CYC = 2
  H_SYNC_BACK = 2
  H_SYNC_ACT = 12
  H_SYNC_FRONT = 3
  H_SYNC_TOTAL = 17
  V_SYNC_CYC = 1
  V_SYNC_BACK = 1
  V_SYNC_ACT = 6
  V_SYNC_FRONT = 1
  V_SYNC_TOTAL = 10
  H_MARK = 2
  H_MARK1 = 1
  V_MARK = 2
  D8M_VAL_LINE_MIN = 3
  D8M_VAL_LINE_MAX = 9
  Columns <- ScreenColumns
INVARIANTS FrameAligned ColoursRight
PROPERTIES FramesRepeat

SPECIFICATION PartSpec
CONSTANTS
  STEP_LAST = 15
  STEP_SIZE = 64
  UP_SIZE = 32
  SUM_MAX = 5
  Scenes <- StillOrNoise
  Moving <- Noise
  LAG = 2
  OFF_FRAMES = 4
  READY_AT = 2
  RST0_AT = 3
  RST1_AT = 3
  RST2_AT = 6
  CONT_MAX = 8
  FRAME = 15
  FIRST = 3
  LOW = 2
  RANGE = 8
  FOC_AT = 40
  PULSE_MAX = 60
  MaxPresses = 2
  H_SYNC_CYC = 1
  H_SYNC_BACK = 1
  H_SYNC_ACT = 4
  H_SYNC_FRONT = 5
  H_SYNC_TOTAL = 11
  H_MARK = 6
  H_MARK1 = 2
  V_SYNC_CYC = 1
  V_SYNC_BACK = 2
  V_SYNC_ACT = 3
  V_SYNC_FRONT = 1
  V_SYNC_TOTAL = 7
  V_MARK = 0
  H_OFF = 2
  V_OFF = 2
  Pictures <- SomePictures
  MaxRestarts = 1
INVARIANTS PeakOfThisSweep FocusNearPeak PolarityKnown FrameMeasured
PROPERTIES FocusSettles

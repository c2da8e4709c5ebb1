SPECIFICATION Spec
CONSTANTS
  STEP_LAST = 15
  STEP_SIZE = 64
  UP_SIZE = 32
  SUM_MAX = 5
  Scenes <- Peaks
  Moving <- Nothing
  LAG = 2
  OFF_FRAMES = 4
INVARIANTS FineCoversSharpest

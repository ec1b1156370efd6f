SPECIFICATION Spec
CONSTANTS
  Nodes = {1, 2}
  Plans <- OneByOne
  MaxBoots = 1
  Earlier = TRUE
  Setbacks = FALSE
  Unsteady = TRUE
  Taken = TRUE
  Silence = FALSE
PROPERTY WavesWait
CHECK_DEADLOCK FALSE

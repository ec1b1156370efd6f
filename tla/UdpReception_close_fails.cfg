SPECIFICATION Spec
CONSTANTS
  CloseMayFail = TRUE
  SlowCallback = FALSE
  MaxPackets = 3
PROPERTIES StopReleasesEverything
CHECK_DEADLOCK FALSE

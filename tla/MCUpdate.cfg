SPECIFICATION MCSpec
CONSTANTS
  MaxCode = 3
  WifiTimeout = 2
  Health = 1
INVARIANT NeverBricked
PROPERTIES InstallIsSound UpdateIsDecided
CHECK_DEADLOCK FALSE

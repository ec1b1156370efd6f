SPECIFICATION Spec
CONSTANTS
  MaxCode = 3
  WifiTimeout = 2
  Health = 1
PROPERTY ConfirmedIsExpected

SPECIFICATION Spec
CONSTANTS
  Threads = {t1}
  t1 = t1
  EpochCap = 5
  CounterCap = 2
  ClockValues <- MCClockValues
  MaxManagers = 5
INVARIANT TypeOK
PROPERTY NoncesIncrease

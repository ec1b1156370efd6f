SPECIFICATION Spec
CONSTANTS
  Threads = {t1, t2}
  t1 = t1
  t2 = t2
  EpochCap = 5
  CounterCap = 2
  ClockValues <- MCClockValues
  MaxManagers = 5
PROPERTY NoncesFresh

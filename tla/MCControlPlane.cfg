SPECIFICATION MCSpec
SYMMETRY MCClientSymmetry
CONSTANTS
  Clients = {c1, c2}
  Targets <- MCTargets
  MaxRetries = 0
  SeqSpace = 4
  CounterCap = 4
  MaxRuntimes = 2
  MaxCommands = 2
  AllowedArgs = {1}
  SourceCap = 1
  CacheCap = 2
  CacheTtl = 2
  Window = 3
  RateCap = 2
  RebootDelay = 0
  LastArrival = 0
  Horizon = 0
  MaxBoots = 0
INVARIANTS RetriesAreNoReplays
PROPERTIES KeepsPromise
CHECK_DEADLOCK FALSE

SPECIFICATION Spec
CONSTANTS
  Sources <- MCTwoSources
  Frames <- MCTwoSourceFrames
  AllowedArgs <- MCAllowedArgs
  SourceCap = 1
  CacheCap = 2
  CacheTtl = 1
  Window = 3
  RateCap = 1
  RebootDelay = 1
  LastArrival = 3
  Horizon = 4
INVARIANTS AtMostOncePerBoot

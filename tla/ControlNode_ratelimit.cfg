SPECIFICATION Spec
CONSTANTS
  Sources <- MCOneSource
  Frames <- MCGateFrames
  AllowedArgs <- MCAllowedArgs
  SourceCap = 1
  CacheCap = 2
  CacheTtl = 2
  Window = 3
  RateCap = 1
  RebootDelay = 1
  LastArrival = 3
  Horizon = 4
PROPERTIES RateLimitEnds

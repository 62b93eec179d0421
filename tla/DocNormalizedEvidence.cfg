SPECIFICATION Spec
CONSTANTS
  Sessions <- MCClean
  Case <- MCCase
  Strip <- MCStrip
  MaxSkew = 2
  NoContext = NoContext
  BadContext = BadContext
  NoResult = NoResult
  MaxClock = 5
INVARIANT
  EngineTakesNormalizedEvidence
\* sessions end
CHECK_DEADLOCK FALSE

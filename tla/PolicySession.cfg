SPECIFICATION Spec
CONSTANTS
  Sessions <- MCSessions
  Case <- MCCase
  Strip <- MCStrip
  MaxSkew = 2
  NoContext = NoContext
  BadContext = BadContext
  NoResult = NoResult
  MaxClock = 5
INVARIANTS
  EarlierDenialDominates
  StrictAcceptsOnlyWhatLooseAccepts
  AcceptedEvidenceIsAboutOneContext
  IssuedAuthorityServes
  PostureIsBacked
CHECK_DEADLOCK FALSE

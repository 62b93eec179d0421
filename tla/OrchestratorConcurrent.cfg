CONSTANTS
  Strip <- MCStrip
  MaxSkew = 2
  NoContext = NoContext
  BadContext = BadContext
  Calls = {c1, c2}
  Requests <- MCRequests
  Deployments <- MCDeployments
  DurableStore = TRUE
  StoreMayFail = TRUE
  ExecutorErrors = {"AdapterError", "TVAError", "EnvelopeError", "Exception"}
  MaxClock = 2
  MaxCrashes = 1
  NoRequest = NoRequest
  NoResponse = NoResponse
  ZeroContext = ZeroContext
  Nowhere = Nowhere
SPECIFICATION FairSpec
INVARIANTS
  TypeOK
  AtMostOnceExecution
  ResponseTellsTheNonce
  ReplayedForCause
PROPERTIES
  ImplementsSingleUse
  Served
\* calls end
CHECK_DEADLOCK FALSE

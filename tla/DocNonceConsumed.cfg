CONSTANTS
  Strip <- MCStrip
  MaxSkew = 2
  NoContext = NoContext
  BadContext = BadContext
  Calls = {c1}
  Requests <- MCPlain
  Deployments <- MCDeployments
  DurableStore = TRUE
  StoreMayFail = FALSE
  ExecutorErrors = {"Exception"}
  MaxClock = 2
  MaxCrashes = 0
  NoRequest = NoRequest
  NoResponse = NoResponse
  ZeroContext = ZeroContext
  Nowhere = Nowhere
SPECIFICATION Spec
INVARIANT
  ResponseReportsConsumption
\* calls end
CHECK_DEADLOCK FALSE

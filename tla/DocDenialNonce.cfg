CONSTANTS
  Strip <- MCStrip
  MaxSkew = 2
  NoContext = NoContext
  BadContext = BadContext
  Calls = {c1}
  Requests <- MCUnconfirmed
  Deployments <- MCDeployments
  DurableStore = TRUE
  StoreMayFail = FALSE
  ExecutorErrors = {}
  MaxClock = 2
  MaxCrashes = 0
  NoRequest = NoRequest
  NoResponse = NoResponse
  ZeroContext = ZeroContext
  Nowhere = Nowhere
SPECIFICATION Spec
INVARIANT
  DenialLeavesNonceUnused
\* calls end
CHECK_DEADLOCK FALSE

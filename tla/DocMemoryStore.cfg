CONSTANTS
  Strip <- MCStrip
  MaxSkew = 2
  NoContext = NoContext
  BadContext = BadContext
  Calls = {c1, c2}
  Requests <- MCPlain
  Deployments <- MCDeployments
  DurableStore = FALSE
  StoreMayFail = FALSE
  ExecutorErrors = {}
  MaxClock = 2
  MaxCrashes = 0
  NoRequest = NoRequest
  NoResponse = NoResponse
  ZeroContext = ZeroContext
  Nowhere = Nowhere
SPECIFICATION Spec
INVARIANT
  AtMostOnceExecution
\* calls end
CHECK_DEADLOCK FALSE

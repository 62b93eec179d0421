CONSTANTS
  Strip <- MCStrip
  MaxSkew = 2
  NoContext = NoContext
  BadContext = BadContext
  Calls = {c1}
  Requests <- MCRequests
  Deployments <- MCDeployments
  DurableStore = FALSE
  StoreMayFail = TRUE
  ExecutorErrors = {"AdapterError", "TVAError"}
  MaxClock = 5
  MaxCrashes = 0
  NoRequest = NoRequest
  NoResponse = NoResponse
  ZeroContext = ZeroContext
  Nowhere = Nowhere
SPECIFICATION Spec
INVARIANTS
  ExecutionIsAboutOneContext
  ExecutionIsFresh
  ExecutionIsVouchedFor
  DenialBlamesTheRightGate
  ReportedEvidenceWasChecked
  AnswersUnderContextTellTheEffect
  RefusedForCause
PROPERTY
  OnlyVettedCallsBurnNonces
\* the call ends
CHECK_DEADLOCK FALSE

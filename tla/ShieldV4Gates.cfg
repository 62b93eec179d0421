SPECIFICATION Spec
CONSTANTS
  NoName = NoName
  Calls = {c1}
  Names <- MCNames
  Submitted <- MCSubmitted
  SupportedComponents <- MCSupportedComponents
  NotAHash = "not-a-hash"
  MaxDepth = 3
  MaxNodes = 5
  MaxBytes = 6
  MaxText = 3
  MaxSignatures = 3
  MaxCallbacks = 18
  MaxPostQuantum = 12
  MaxRegistryEntries = 64
  MaxIdentifiers = 4
  MaxAuditRecords = 24
  MaxFaults = 1
  MaxCrashes = 0
  MaxClock = 2
INVARIANTS
  SnapshotDecidesTheBudget
  NoCallbackBeforePreflight
  VerifiedMeansEverySignature
  ReasonsAgree
  RejectionsAreTrue
  DocumentedOrder
CHECK_DEADLOCK FALSE

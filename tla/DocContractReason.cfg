SPECIFICATION Spec
CONSTANTS
  twice = twice
  NoName = NoName
  Calls = {c1}
  Names <- MCNames
  Submitted <- MCSubmitted
  SupportedComponents <- MCSupportedComponents
  NotAHash = "not-a-hash"
  MaxDepth = 2
  MaxNodes = 4
  MaxBytes = 6
  MaxText = 3
  MaxSignatures = 3
  MaxCallbacks = 6
  MaxPostQuantum = 4
  MaxRegistryEntries = 64
  MaxIdentifiers = 4
  MaxAuditRecords = 24
  MaxFaults = 0
  MaxCrashes = 0
  MaxClock = 2
INVARIANT
  CountFailuresAreContractInvalid
\* verifications end
CHECK_DEADLOCK FALSE

SPECIFICATION LiveSpec
CONSTANTS
  first = first
  second = second
  forged = forged
  endless = endless
  NoName = NoName
  Calls = {c1, c2}
  Names <- MCNames
  Submitted <- MCSubmitted
  SupportedComponents <- MCSupportedComponents
  NotAHash = "not-a-hash"
  MaxDepth = 2
  MaxNodes = 4
  MaxBytes = 6
  MaxText = 3
  MaxSignatures = 3
  MaxCallbacks = 6
  MaxPostQuantum = 4
  MaxRegistryEntries = 64
  MaxIdentifiers = 4
  MaxAuditRecords = 24
  MaxFaults = 1
  MaxCrashes = 1
  MaxClock = 2
INVARIANTS
  TypeOK
  BatchTellsTheVerification
  RejectionsAreTrue
  NothingRecordedIsAcceptedAgain
  SeenIsRecorded
  VerdictIsDetermined
  OnlyReplayTellsCallsApart
PROPERTIES
  ImplementsRecordedPublication
  EveryStepCounts
  EveryVerificationEnds
CHECK_DEADLOCK FALSE

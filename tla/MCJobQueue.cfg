CONSTANTS
  w1 = w1
  w2 = w2
  w3 = w3
  JobId <- MCJobId
  Kind <- MCKind
  SnapshotKind <- MCSnapshotKind
  Handled <- MCHandled
  Worker = {w1, w2, w3}
  SnapshotLane = {w1}
  MaxAttempts = 2
  Lease = 2
  Window = 1
  MaxFaults = 2
SPECIFICATION Spec
INVARIANTS OneOwner NoDoubleRunUnlessFault AttemptsPaidFor FailedOnlyWhenExhausted
PROPERTY SettledByLatestClaim

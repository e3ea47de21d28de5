CONSTANTS
  ThrottleDuration = 1
  MaxTime = 2
  MinSendBackoff = 1
  MaxSendBackoff = 2
  DefaultDrainTimeout = 5
  RetryAfterDelays <- Hints
  Capacity = 1
  MaxBatches = 2
  DrainTimeout = 1
SPECIFICATION Spec
INVARIANTS
  PopsOnlyWhatWasSent

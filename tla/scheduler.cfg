CONSTANTS
  ThrottleDuration = 1
  MaxTime = 2
  MinSendBackoff = 1
  MaxSendBackoff = 2
  DefaultDrainTimeout = 5
  RetryAfterDelays <- Hints
  Capacity = 2
  MaxBatches = 3
  DrainTimeout = 1
SPECIFICATION FairSpec
INVARIANTS
  TypeOK
  QueueIsNewestBatches
  EveryBatchAccountedFor
  NoLostWakeup
  NeverResendsAcked
  UnsentPopsAreOverflows
  NoPushDuringDrain
  
  FatalReachesMain
PROPERTIES
  SendsInOrder
  QueueSpec
  ContractSpec
  ShutdownCompletes
  QueueMoves

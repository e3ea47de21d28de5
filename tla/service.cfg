CONSTANTS
  MaxKills = 2
  DrainSeconds = 5
  ShutdownSeconds = 5
  StopTimeout = 10
SPECIFICATION ServiceFairSpec
INVARIANTS
  StopNeedsNoKill
PROPERTIES
  NeverGoneSilently
  
  StopCompletes

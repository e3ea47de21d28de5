CONSTANTS
  ThrottleDuration = 2
  MaxTime = 6
SPECIFICATION FairSpec
INVARIANTS
  NoTwoSkips
  LiveTicksAlternate
PROPERTIES
  ThrottleLifts

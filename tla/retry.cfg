\* Half seconds: back-off from 1 s to 5 min.
CONSTANTS
  Second = 2
  MaxDuration = 2047
  MinSendBackoff = 2
  MaxSendBackoff = 600
  MaxStreak = 11
  Replies <- AllReplies
SPECIFICATION Spec
INVARIANTS
  StreakSlowsDown
  HalfTheHintHonoured

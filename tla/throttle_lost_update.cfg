CONSTANTS
  ThrottleDuration = 2
  MaxTime = 6
SPECIFICATION Spec
PROPERTIES
  ClearsOnlyExpired

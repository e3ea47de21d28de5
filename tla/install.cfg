CONSTANTS
  Latest = 2
  MaxUpsets = 2
SPECIFICATION FairSpec
INVARIANTS
  BinaryStaysWhole
PROPERTIES
  
  
  SuccessMeansServing
  InterruptionsHeal

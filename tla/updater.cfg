CONSTANTS
  Versions <- MCVersions
  Spellings = {"plain", "v"}
  Unparsable = Unparsable
  MaxOffers = 3
SPECIFICATION FairSpec
INVARIANTS
  
  NoDailyRepeat
PROPERTIES
  UpdaterStops

CONSTANTS
  Cores <- TwoCores
  Mounts <- FourMounts
  Devices <- TwoDevices
  Ifaces <- ThreeIfaces
  Setups <- ThreeSetups
  Capacity = 1
SPECIFICATION Spec
INVARIANTS
  SeriesStayDistinct
  
  BacklogBounded
  FlushKeepsUp
  DuplicatesAreFailures


SPECIFICATION SpecPrograms
CONSTANTS
  Page = {a, b, c, d}
  MaxBucket = 3
  Links <- MCLinks
  None = None
  Cabinets <- MCCabinets
  MaxEdges = 2
  ByteRange = 16
  ShadowAsks <- MCShadowAsks
INVARIANTS
  CachesAgree
  LoadKeepsGraph
PROPERTIES
  ImplementsMinQueue
CHECK_DEADLOCK FALSE

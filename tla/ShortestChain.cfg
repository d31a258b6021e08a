SPECIFICATION Spec
CONSTANTS
  Page <- FourPages
  Src = Src
  Dst = Dst
  None = None
  Graphs <- MCGraphs
  Weights <- MCWeights
  SkewPairs <- MCSkewPairs
  Bare = 4
  Ends <- MCEnds
  Increasing = FALSE
  LinkLimits = {0, 8}
  MaxBucket = 5
  Infinity = 1000
INVARIANTS
  ScannedIsFinal
  PathIsWalk
  LinkLimitBounds
PROPERTIES
  SearchEnds

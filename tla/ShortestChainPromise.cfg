\* The code's promise of a shortest chain, on every graph over
\* four pages whose edges weigh the same either way.
SPECIFICATION Spec
CONSTANTS
  Page <- FourPages
  Src = Src
  Dst = Dst
  None = None
  Graphs <- MCEvenGraphs
  Weights <- MCWeights
  SkewPairs <- MCSkewPairs
  Bare = 4
  Ends <- MCEnds
  Increasing = FALSE
  LinkLimits = {8}
  MaxBucket = 9
  Infinity = 1000
INVARIANTS
  ChainIsShortest

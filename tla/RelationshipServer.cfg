\* The store: two calls of destroy or a computed distance, and a load.  The
\* indexer asks for two names at a time and gets two matches at most.
SPECIFICATION SpecPrograms
CONSTANTS
  Site <- ThreeSites
  Distance <- MCDistance
  HeapByte <- OneByte
  CloseThreshold = 160
  StoreThreshold = 249
  None = None
  MaxDestroys = 2
  MaxLoads = 1
  MaxBuilds = 1
  Databases <- MCDatabases
  QueriesPerChunk = 2
  SphinxLimit = 2
  DistRange = 256
  StoreLimit = 249
  NoName = NoName
  ClientCalls <- MCClientCalls
  NearSites <- MCNearSites
  PairDistances <- MCPairDistances
  HeapWords = {0, 7}
  FdLimit = 2
  MaxCalls = 3
INVARIANTS
  CloseSitesMirror
  DistancesAgree
  BuildMeasuresLinks
  ClientGetsWholeAnswer
CHECK_DEADLOCK FALSE

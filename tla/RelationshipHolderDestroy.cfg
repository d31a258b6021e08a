SPECIFICATION Spec
CONSTANTS
  Site <- ThreeSites
  Distance <- MCDistance
  HeapByte <- TwoBytes
  CloseThreshold = 160
  StoreThreshold = 249
  None = None
  MaxDestroys = 1
  MaxLoads = 0
  MaxBuilds = 0
INVARIANTS
  EveryCloseSiteHasDistance
CHECK_DEADLOCK FALSE

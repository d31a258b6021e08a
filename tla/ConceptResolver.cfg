\* Lists of neighbors are cut at two entries, and the array of names grows with
\* every second name.  The readers of an index: chains of at most three links, and
\* fewer than four distances of a page.  The counter looks one word
\* ahead, so that longer tuples are found only behind shorter ones.
SPECIFICATION SpecPrograms
CONSTANTS
  AliasFiles <- MCAliasFiles
  NeighborFiles <- MCNeighborFiles
  Inputs <- MCInputs
  NeighborLimit = 2
  AllocationJump = 2
  Unset = Unset
  Indexes <- MCIndexes
  ChainAsks <- MCChainAsks
  LinkLimit = 2
  IntMax = 1000
  DistanceAsks <- MCDistanceAsks
  SizeRange = 4
  StopTitles <- MCStopTitles
  Separators = {" ", ","}
  Capitalized = {"New", "York", "City", "Gotham"}
  ExactExempt <- MCExactExempt
  SnippetAsks <- MCSnippetAsks
  Tuples <- MCTuples
  DumpPages <- MCDumpPages
  OtherWords = {"a", "x"}
  LookAhead = 1
  PagesPerCall = 2
  MaxLostCalls = 1
INVARIANTS
  PointersTellOrigins
  BestConceptWins
  ChainIsCheapest
  ReadersAgree
  SnippetWindows
  ConceptsCountOnce
CHECK_DEADLOCK FALSE

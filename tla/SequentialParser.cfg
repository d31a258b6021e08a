\* The sequential parser on well-formed articles and on all short ones, and
\* WikiParser on the same well-formed ones and on short ones of its own; and the
\* pages of small dumps and cabinets.
SPECIFICATION SpecPrograms
CONSTANTS
  Articles <- MCArticles
  LinkTexts <- MCLinkTexts
  Pictures <- MCPictures
  PictureNames <- MCPictures
  Dumps <- MCDumps
  Cabinets <- MCCabinets
  UselessTitles <- MCUselessTitles
  LowerTitle <- MCLowerTitle
  WordsOf <- MCWordsOf
  HopLimit = 3
  CountLimit = 3
INVARIANTS
  ContextsNest
  SectionsOwnedOnce
  ParsesWellFormed
  ParsersAgree
  LinksFollowRedirects
  IndexKeepsGraph
  DistancesAgree
CHECK_DEADLOCK FALSE

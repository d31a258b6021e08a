\* Four titles, every order of the maps.
SPECIFICATION Spec
CONSTANTS
  None = None
  Meta = {}
  Nowhere = "|"
  Title <- MCTitle
  NameOf <- MCNameOf
  Lower <- MCLower
  Dumps <- MCDumps
  Distances <- MCDistances
INVARIANTS
  GraphIsWhatPagesSay
  EdgesHaveTwoEnds
  RedirectsFindArticles
